------------------------------- MODULE Website -------------------------------
(***************************************************************************)
(* One load of the single-page application WebsiteNoKafka: two calls of    *)
(* AppConfigService.getConfig race at start, one of the constructor of     *)
(* AppConfigModule, which then sets up the sign-in library, one of the     *)
(* APP_INITIALIZER, which lets the application boot.  AppComponent handles *)
(* the identity server's redirect, the client list and the login form send *)
(* requests to addresses taken from the configuration.                     *)
(*                                                                         *)
(* Servers, router and angular-auth-oidc-client are external.  The branch  *)
(* of getConfig for environment variables is not taken in a browser.       *)
(***************************************************************************)
EXTENDS Naturals

CONSTANT MaxVisits        \* BOUND: visits to the list

VARIABLES
  redirected,   \* the page was opened by the identity server's redirect
  appConfig, wellKnownEndpoints,               \* they have been assigned
  call,         \* each call of getConfig
  moduleSetup,  \* setupModule was called
  app,          \* "loading", or "running": AppComponent exists
  waiting,      \* AppComponent waits for onModuleSetup
  callbacks,    \* calls of authorizedCallback
  authorized,   \* "no", "validating", "yes" or "refused"
  page,         \* the page shown
  list,         \* the request of the list page, if it is shown
  change,       \* a request to create or delete a client is in flight
  visits,
  apiUrl,       \* base address of ClientService, built with it
  authUrl,      \* address of AuthenticationService
  form,         \* the login form: "idle", "posted", "ok" or "invalid"
  loading,      \* its flag that disables the button
  postedTo      \* the address the form was posted to

configVars == <<appConfig, wellKnownEndpoints, call>>
signInVars == <<moduleSetup, app, waiting, callbacks, authorized>>
listVars   == <<list, change, visits, apiUrl>>
loginVars  == <<authUrl, form, loading, postedTo>>
vars       == <<redirected, configVars, signInVars, page, listVars, loginVars>>

Calls     == {"module", "initializer", "login"}

Init ==
  /\ redirected \in BOOLEAN
  /\ page \in IF redirected THEN {"clients"}
                   ELSE {"clients", "create-client", "login"}
  /\ appConfig = FALSE /\ wellKnownEndpoints = FALSE
  /\ call = [c \in Calls |-> IF c = "login" THEN "none" ELSE "config"]
  /\ moduleSetup = FALSE
  /\ app = "loading"
  /\ waiting = FALSE
  /\ callbacks = 0
  /\ authorized = "no"
  /\ list = "none" /\ change = FALSE /\ visits = 0
  /\ apiUrl = "none" /\ authUrl = "none"
  /\ form = "idle" /\ loading = FALSE
  /\ postedTo = "none"
-----------------------------------------------------------------------------
(* Mutated form of Settled: the endpoints are fetched by every call. *)
Settled_Never(c) == "endpoints"

(* Where a call goes once the configuration is there: endpoints another    *)
(* call has fetched are not fetched again.                                 *)
Settled(c) == IF wellKnownEndpoints THEN "done" ELSE "endpoints"

(* doCallbackLogicIfRequired: the library validates the tokens in the      *)
(* fragment of the address, with keys it fetches first.                    *)
DoCallback ==
  IF redirected
    THEN callbacks' = callbacks + 1 /\ authorized' = "validating"
    ELSE UNCHANGED <<callbacks, authorized>>

(* What the caller of getConfig does with the answer: the module sets up   *)
(* the library, which lets a waiting AppComponent go on, the login service *)
(* takes its address.  The initializer's is awaited by Boot.               *)
Return(c) ==
  /\ moduleSetup' = (moduleSetup \/ c = "module")
  /\ IF c = "module" /\ waiting THEN DoCallback
                                ELSE UNCHANGED <<callbacks, authorized>>
  /\ authUrl' = IF c = "login" THEN "config.authUrl" ELSE authUrl

Proceed(c, to) ==
  /\ call' = [call EXCEPT ![c] = to]
  /\ IF to = "done" THEN Return(c)
                    ELSE UNCHANGED <<moduleSetup, callbacks, authorized, authUrl>>
  /\ UNCHANGED <<redirected, app, waiting, page, listVars, form, loading,
                 postedTo>>

ConfigFetched(c) ==
  /\ call[c] = "config"
  /\ appConfig' = TRUE
  /\ Proceed(c, Settled(c))
  /\ UNCHANGED wellKnownEndpoints

EndpointsFetched(c) ==
  /\ call[c] = "endpoints"
  /\ wellKnownEndpoints' = TRUE
  /\ Proceed(c, "done")
  /\ UNCHANGED appConfig

(* A rejected promise: the module has no handler for it and never sets up  *)
(* the library; the initializer's keeps the application from booting.      *)
FetchFailed(c) ==
  /\ call[c] \in {"config", "endpoints"}
  /\ Proceed(c, "failed")
  /\ UNCHANGED <<appConfig, wellKnownEndpoints>>
-----------------------------------------------------------------------------
(* Mutated form of Booted: loadConfig does not return the promise. *)
Booted_AtOnce == TRUE

Booted == call["initializer"] = "done"

(* Mutated forms of HandleRedirect: AppComponent subscribes in any case;   *)
(* it only looks whether the library is set up already.                    *)
HandleRedirect_Both ==
  /\ waiting' = TRUE
  /\ DoCallback

HandleRedirect_NoWait ==
  IF moduleSetup THEN DoCallback /\ UNCHANGED waiting
                 ELSE UNCHANGED <<waiting, callbacks, authorized>>

(* The constructor of AppComponent. *)
HandleRedirect ==
  IF moduleSetup THEN DoCallback /\ UNCHANGED waiting
                 ELSE waiting' = TRUE /\ UNCHANGED <<callbacks, authorized>>

Boot ==
  /\ app = "loading"
  /\ Booted
  /\ app' = "running"
  /\ HandleRedirect
  /\ UNCHANGED <<redirected, configVars, moduleSetup, page, listVars, loginVars>>

(* External: a result of the validation.  A refusal goes to another page;  *)
(* an acceptance goes to '/', which is where the page already is, so the   *)
(* list is not asked for again.                                            *)
Validated ==
  /\ authorized = "validating"
  /\ \/ authorized' = "yes" /\ UNCHANGED <<page, list>>
     \/ authorized' = "refused" /\ page' = "unauthorized" /\ list' = "none"
  /\ UNCHANGED <<redirected, configVars, moduleSetup, app, waiting, callbacks,
                 change, visits, apiUrl, loginVars>>
-----------------------------------------------------------------------------
(* ClientService is built with the first page that needs it. *)
BuildClientService ==
  apiUrl' = IF apiUrl # "none" THEN apiUrl
            ELSE IF appConfig THEN "known" ELSE "undefined"

Asked == {"asked", "asked with token"}

(* The list page is shown and asks, with a token if the library has one by *)
(* now.  (AuthGuard awaits an Observable and lets everyone pass.)          *)
OpenList ==
  /\ app = "running"
  /\ page = "clients"
  /\ list = "none"
  /\ BuildClientService
  /\ list' = IF authorized = "yes" THEN "asked with token" ELSE "asked"
  /\ visits' = visits + 1
  /\ UNCHANGED <<redirected, configVars, signInVars, page, change, loginVars>>

(* 401 leads to an address no route matches: the page stays. *)
ListAnswered ==
  /\ list \in Asked
  /\ \/ list = "asked with token" /\ list' = "shown" /\ UNCHANGED page
     \/ list' = "failed" /\ UNCHANGED page
     \/ list = "asked with token" /\ list' = "none" /\ page' = "unauthorized"
  /\ UNCHANGED <<redirected, configVars, signInVars, change, visits, apiUrl,
                 loginVars>>

(* A client is created, or deleted from a list, which is not asked again.  *)
ChangeClient ==
  /\ app = "running"
  /\ page = "create-client" \/ (page = "clients" /\ list = "shown")
  /\ ~change
  /\ change' = TRUE
  /\ BuildClientService
  /\ UNCHANGED <<redirected, configVars, signInVars, page, list, visits,
                 loginVars>>

(* Nobody drops this request: 403 leads away from whatever page is shown.  *)
ClientChanged ==
  /\ change
  /\ change' = FALSE
  /\ \/ UNCHANGED <<page, list>>
     \/ page' = "unauthorized" /\ list' = "none"
  /\ UNCHANGED <<redirected, configVars, signInVars, visits, apiUrl, loginVars>>

(* The user follows a link; the async pipe drops the list's request.       *)
Navigate ==
  /\ app = "running"
  /\ visits < MaxVisits
  /\ page' \in {"clients", "create-client", "about"} \ {page}
  /\ list' = "none"
  /\ UNCHANGED <<redirected, configVars, signInVars, change, visits, apiUrl,
                 loginVars>>

(* AuthenticationService is built with the login page and asks for the     *)
(* configuration; what is there already it gets before any user event.     *)
OpenLogin ==
  /\ app = "running"
  /\ page = "login"
  /\ call["login"] = "none"
  /\ Proceed("login", IF appConfig THEN Settled("login") ELSE "config")
  /\ UNCHANGED <<appConfig, wellKnownEndpoints>>

(* The button is disabled while loading. *)
SignIn ==
  /\ page = "login"
  /\ call["login"] # "none"
  /\ ~loading
  /\ loading' = TRUE
  /\ form' = "posted"
  /\ postedTo' = IF authUrl = "none" THEN "undefined" ELSE authUrl
  /\ UNCHANGED <<redirected, configVars, signInVars, page, listVars, authUrl>>

(* Success leads to '/' from whatever page is shown by now.  An error      *)
(* leaves loading set: only completion resets it.                          *)
SignInAnswered ==
  /\ form = "posted"
  /\ \/ /\ form' = "ok"
        /\ loading' = FALSE
        /\ page' = "clients"
        /\ list' = IF page = "clients" THEN list ELSE "none"
     \/ form' = "invalid" /\ loading' \in BOOLEAN /\ UNCHANGED <<page, list>>
  /\ UNCHANGED <<redirected, configVars, signInVars, change, visits, apiUrl,
                 authUrl, postedTo>>

Config(c) == ConfigFetched(c) \/ EndpointsFetched(c) \/ FetchFailed(c)

Next == \/ \E c \in Calls : Config(c)
        \/ Boot \/ Validated
        \/ OpenList \/ ListAnswered \/ ChangeClient \/ ClientChanged
        \/ Navigate
        \/ OpenLogin \/ SignIn \/ SignInAnswered

(* Requests are answered or fail, and the browser runs what is ready; the  *)
(* user does nothing for certain.                                          *)
Fairness == /\ \A c \in Calls : WF_vars(Config(c))
            /\ WF_vars(Boot)
            /\ WF_vars(Validated)

Spec == Init /\ [][Next]_vars /\ Fairness
-----------------------------------------------------------------------------
(* No service is built before the configuration it takes its address from: *)
(* ClientService (client.service.ts:16) reads appConfig without waiting,   *)
(* whichever of the two calls of getConfig came through.                   *)
ConfigBeforeUse == apiUrl # "undefined"

(* The login form is posted to the address config.authUrl of a             *)
(* configuration that is there, and to nothing else, although              *)
(* AuthenticationService takes it in the callback of a promise             *)
(* (authentication.service.ts:20) while the form can be sent at once.      *)
LoginHasUrl == postedTo # "none" => appConfig /\ postedTo = "config.authUrl"

(* The identity server's redirect is handled at most once, whether the     *)
(* library is set up before or after AppComponent starts.                  *)
CallbackOnce == callbacks <= 1

(* It is handled at all, unless one of the two calls of getConfig fails:   *)
(* then the application does not boot, or boots and cannot sign in.        *)
CallbackHandled ==
  redirected ~> \/ callbacks = 1
                \/ "failed" \in {call["module"], call["initializer"]}
=============================================================================
