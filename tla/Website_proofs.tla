--------------------------- MODULE Website_proofs ---------------------------
(***************************************************************************)
(* Proofs about Website: for any number of visits, no service is built     *)
(* from a configuration that is not there, and the sign-in redirect is     *)
(* handled at most once.                                                   *)
(***************************************************************************)
EXTENDS Website, TLAPS

Progress == {"none", "config", "endpoints", "done", "failed"}

(* A call of getConfig that is past the first await leaves appConfig       *)
(* behind, one that is done the endpoints too; a call by the login service *)
(* finds both.                                                             *)
Fetched ==
  /\ call \in [Calls -> Progress]
  /\ appConfig \in BOOLEAN /\ wellKnownEndpoints \in BOOLEAN
  /\ wellKnownEndpoints => appConfig
  /\ \A c \in Calls : call[c] \in {"endpoints", "done"} => appConfig
  /\ \A c \in Calls : call[c] = "done" => wellKnownEndpoints
  /\ call["module"] # "none" /\ call["initializer"] # "none"
  /\ call["login"] \in {"none", "done"}

(* The application runs only after the initializer's call, and services    *)
(* are built only in a running application.                                *)
Built ==
  /\ app \in {"loading", "running"}
  /\ app = "running" => call["initializer"] = "done"
  /\ app = "loading" => call["login"] = "none"
  /\ apiUrl \in {"none", "known"}
  /\ authUrl = IF call["login"] = "done" THEN "config.authUrl" ELSE "none"
  /\ postedTo # "none" => call["login"] = "done" /\ postedTo = "config.authUrl"
  /\ change => app = "running"

(* The redirect is handled by whichever of Return and HandleRedirect comes *)
(* second.                                                                 *)
Handled ==
  /\ moduleSetup \in BOOLEAN /\ waiting \in BOOLEAN
  /\ moduleSetup <=> call["module"] = "done"
  /\ callbacks \in {0, 1}
  /\ callbacks = 1 => moduleSetup /\ app = "running"
  /\ waiting => app = "running"

IInv == Fetched /\ Built /\ Handled

LEMMA InitSafe == Init => IInv
PROOF
  <1> SUFFICES ASSUME Init
               PROVE  IInv
    OBVIOUS
  <1>1. Fetched
    BY DEF Init, Fetched, Calls, Progress
  <1>2. call["login"] = "none" /\ call["module"] = "config"
    BY DEF Init, Calls
  <1>3. Built
    BY <1>2 DEF Init, Built
  <1>4. Handled
    <2>1. callbacks = 0 /\ moduleSetup = FALSE /\ waiting = FALSE
      BY DEF Init
    <2>2. callbacks \in {0, 1} /\ callbacks # 1
      BY <2>1
    <2> QED
      BY <1>2, <2>1, <2>2 DEF Handled
  <1> QED
    BY <1>1, <1>3, <1>4 DEF IInv

-----------------------------------------------------------------------------
(* A call that ends gives its caller the answer.  The module's ends once,  *)
(* so the redirect has not been handled before.                            *)
LEMMA ProceedSafe ==
  ASSUME IInv, NEW c \in Calls, NEW to \in {"endpoints", "done", "failed"},
         call[c] \in {"config", "endpoints"} \/ (c = "login" /\ call[c] = "none"),
         c = "login" => to = "done" /\ app = "running",
         Proceed(c, to),
         appConfig' \in BOOLEAN, wellKnownEndpoints' \in BOOLEAN,
         appConfig => appConfig', wellKnownEndpoints => wellKnownEndpoints',
         wellKnownEndpoints' => appConfig',
         to \in {"endpoints", "done"} => appConfig',
         to = "done" => wellKnownEndpoints'
  PROVE  IInv'
PROOF
  <1>1. call' = [call EXCEPT ![c] = to] /\ call \in [Calls -> Progress]
    BY DEF Proceed, IInv, Fetched
  <1>2. Fetched'
    BY <1>1 DEF IInv, Fetched, Calls, Progress
  <1>3. UNCHANGED <<app, waiting, apiUrl, postedTo, change>>
    BY DEF Proceed, listVars
  <1>4. Built'
    <2>1. CASE to = "done"
      BY <1>1, <1>3, <2>1 DEF Proceed, Return, IInv, Fetched, Built, Calls
    <2>2. CASE to # "done"
      BY <1>1, <1>3, <2>2 DEF Proceed, IInv, Fetched, Built, Calls
    <2> QED
      BY <2>1, <2>2
  <1>5. Handled'
    <2>1. CASE to = "done" /\ c = "module"
      <3>1. ~moduleSetup /\ callbacks = 0
        BY <2>1 DEF IInv, Handled
      <3>2. moduleSetup' = TRUE
        BY <2>1 DEF Proceed, Return
      <3>3. call'["module"] = "done"
        BY <1>1, <2>1
      <3>4. /\ callbacks' \in {0, 1}
            /\ callbacks' = 1 => waiting
        BY <2>1, <3>1 DEF Proceed, Return, DoCallback
      <3> QED
        BY <1>3, <3>2, <3>3, <3>4 DEF IInv, Handled
    <2>2. CASE to = "done" /\ c # "module"
      BY <1>1, <1>3, <2>2 DEF Proceed, Return, IInv, Fetched, Handled, Calls
    <2>3. CASE to # "done"
      BY <1>1, <1>3, <2>3 DEF Proceed, IInv, Fetched, Handled, Calls
    <2> QED
      BY <2>1, <2>2, <2>3
  <1> QED
    BY <1>2, <1>4, <1>5 DEF IInv

LEMMA ConfigSafe ==
  ASSUME IInv, NEW c \in Calls, Config(c)
  PROVE  IInv'
PROOF
  <1>0. call[c] \in {"config", "endpoints"} /\ c # "login"
    BY DEF Config, ConfigFetched, EndpointsFetched, FetchFailed, IInv, Fetched
  <1>1. CASE ConfigFetched(c)
    <2>1. Settled(c) \in {"endpoints", "done"}
      BY DEF Settled
    <2>2. Settled(c) = "done" => wellKnownEndpoints
      BY DEF Settled
    <2> QED
      BY <1>0, <1>1, <2>1, <2>2, ProceedSafe DEF ConfigFetched, IInv, Fetched
  <1>2. CASE EndpointsFetched(c)
    BY <1>0, <1>2, ProceedSafe DEF EndpointsFetched, IInv, Fetched
  <1>3. CASE FetchFailed(c)
    BY <1>0, <1>3, ProceedSafe DEF FetchFailed, IInv, Fetched
  <1> QED
    BY <1>1, <1>2, <1>3 DEF Config

(* The login service finds the configuration complete. *)
LEMMA OpenLoginSafe ==
  ASSUME IInv, OpenLogin
  PROVE  IInv'
PROOF
  <1>1. app = "running" /\ call["login"] = "none" /\ "login" \in Calls
    BY DEF OpenLogin, Calls
  <1>2. appConfig /\ wellKnownEndpoints
    BY <1>1 DEF IInv, Fetched, Built, Calls
  <1>3. Proceed("login", "done")
    BY <1>2 DEF OpenLogin, Settled
  <1> QED
    BY <1>1, <1>2, <1>3, ProceedSafe DEF OpenLogin, IInv, Fetched

LEMMA BootSafe ==
  ASSUME IInv, Boot
  PROVE  IInv'
PROOF
  <1> USE DEF Boot, Booted, configVars, listVars, loginVars, IInv
  <1>1. Fetched'
    BY DEF Fetched
  <1>2. Built'
    BY DEF Fetched, Built
  <1>3. Handled'
    <2>1. callbacks = 0 /\ ~waiting
      BY DEF Handled
    <2>2. CASE moduleSetup
      BY <2>1, <2>2 DEF HandleRedirect, DoCallback, Handled
    <2>3. CASE ~moduleSetup
      BY <2>1, <2>3 DEF HandleRedirect, Handled
    <2> QED
      BY <2>2, <2>3
  <1> QED
    BY <1>1, <1>2, <1>3

(* ClientService is built in a running application. *)
LEMMA PagesSafe ==
  ASSUME IInv, OpenList \/ ChangeClient
  PROVE  IInv'
PROOF
  <1>1. /\ app = "running" /\ BuildClientService
        /\ UNCHANGED <<configVars, signInVars, loginVars>>
    BY DEF OpenList, ChangeClient
  <1>2. appConfig /\ apiUrl' \in {"none", "known"}
    BY <1>1 DEF IInv, Fetched, Built, BuildClientService, Calls
  <1> QED
    BY <1>1, <1>2
    DEF IInv, Fetched, Built, Handled, configVars, signInVars, loginVars

LEMMA SignInSafe ==
  ASSUME IInv, SignIn
  PROVE  IInv'
PROOF
  <1>1. authUrl = "config.authUrl" /\ postedTo' = "config.authUrl"
    BY DEF SignIn, IInv, Fetched, Built
  <1> QED
    BY <1>1 DEF SignIn, IInv, Fetched, Built, Handled, configVars, signInVars,
                listVars

LEMMA NextSafe ==
  ASSUME IInv, [Next]_vars
  PROVE  IInv'
PROOF
  <1>1. CASE \E c \in Calls : Config(c)
    BY <1>1, ConfigSafe
  <1>2. CASE Validated
    BY <1>2 DEF Validated, IInv, Fetched, Built, Handled, configVars, loginVars
  <1>3. CASE ListAnswered
    BY <1>3 DEF ListAnswered, IInv, Fetched, Built, Handled, configVars,
                signInVars, loginVars
  <1>4. CASE ClientChanged
    BY <1>4 DEF ClientChanged, IInv, Fetched, Built, Handled, configVars,
                signInVars, loginVars
  <1>5. CASE Navigate
    BY <1>5 DEF Navigate, IInv, Fetched, Built, Handled, configVars,
                signInVars, loginVars
  <1>6. CASE SignInAnswered
    BY <1>6 DEF SignInAnswered, IInv, Fetched, Built, Handled, configVars,
                signInVars
  <1>7. CASE UNCHANGED vars
    BY <1>7 DEF vars, IInv, Fetched, Built, Handled, configVars, signInVars,
                listVars, loginVars
  <1> QED
    BY <1>1, <1>2, <1>3, <1>4, <1>5, <1>6, <1>7, BootSafe, PagesSafe,
       OpenLoginSafe, SignInSafe DEF Next

LEMMA Invariance == Spec => []IInv
  BY InitSafe, NextSafe, PTL DEF Spec
-----------------------------------------------------------------------------
(* ClientService (client.service.ts:16) reads appConfig without waiting    *)
(* and never finds it missing.                                             *)
THEOREM ServicesConfigured == Spec => []ConfigBeforeUse
PROOF
  <1>1. IInv => ConfigBeforeUse
    BY DEF IInv, Built, ConfigBeforeUse
  <1> QED
    BY <1>1, Invariance, PTL

(* The login form is posted to config.authUrl of a configuration that is   *)
(* there, and to nothing else, although authentication.service.ts:20       *)
(* assigns that address in a promise's callback.                           *)
THEOREM LoginConfigured == Spec => []LoginHasUrl
PROOF
  <1>1. IInv => LoginHasUrl
    BY DEF IInv, Fetched, Built, LoginHasUrl, Calls
  <1> QED
    BY <1>1, Invariance, PTL

(* authorizedCallback is called at most once, in whichever order the       *)
(* library is set up and AppComponent starts (app.component.ts:23).        *)
THEOREM HandledOnce == Spec => []CallbackOnce
PROOF
  <1>1. IInv => CallbackOnce
    BY DEF IInv, Handled, CallbackOnce
  <1> QED
    BY <1>1, Invariance, PTL
=============================================================================
