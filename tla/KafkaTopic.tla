----------------------------- MODULE KafkaTopic -----------------------------
(***************************************************************************)
(* Commands over a Kafka topic: the KafkaCommandSender of KafkaHelper with *)
(* its caller ClientKafkaProducer, and the KafkaSubscriber with its caller *)
(* ClientKafkaSubscriber.                                                  *)
(*                                                                         *)
(* The broker and librdkafka are external: it sends a request again whose  *)
(* answer was lost, and it commits the position of the last message it has *)
(* handed out from time to time (neither program turns that off).  The     *)
(* topic has one partition.                                                *)
(***************************************************************************)
EXTENDS Integers, Sequences

CONSTANTS
  Count,         \* commands the producer program sends, in this order
  MaxRequests,   \* BOUND: requests of librdkafka for all commands
  MaxStarts      \* BOUND: starts of the subscriber program

ASSUME TopicAssumption == /\ Count \in Nat
                          /\ MaxRequests \in Nat
                          /\ MaxStarts \in Nat \ {0}

VARIABLES
  producer,      \* "off", "sending", "waiting" or "ended"
  command,       \* the command it sends
  requests,      \* how many librdkafka made so far
  arriving,      \* those on their way to the broker: [command, request]
  log,           \* the partition
  failed,        \* ghost: commands whose result carried an Error
  loop,          \* how far the thread in Subscriber is
  subscribing,   \* it has not called Subscribe yet
  consumer,      \* the field: "null", "new" (not subscribed) or "subscribed"
  disposer,      \* another thread's Dispose: "none", "flagged", "done"
  given,         \* the last offset handed to the handler
  commits,       \* offsets CommitAsync was called with, not yet committed
  committed,     \* the group's committed position
  starts,
  handled,       \* ghost: handled[n]: how often Process returned for offset n
  cut,           \* ghost: offsets in hand when a program ended
  revived        \* ghost: a consumer was created although disposing was set

producerVars == <<producer, command, requests, arriving, log, failed>>
ghosts       == <<handled, cut, revived>>
consumerVars == <<loop, subscribing, consumer, disposer, given, commits,
                  committed, starts, ghosts>>
vars         == <<producerVars, consumerVars>>

Offsets   == 1 .. MaxRequests
disposing == disposer # "none"

Init ==
  /\ producer = "sending" /\ command = 1 /\ requests = 0
  /\ arriving = {} /\ log = <<>> /\ failed = {}
  /\ loop = "off" /\ subscribing = TRUE
  /\ consumer = "null" /\ disposer = "none"
  /\ given = 0 /\ commits = {} /\ committed = 0
  /\ starts = 0
  /\ handled = [n \in Offsets |-> 0]
  /\ cut = {} /\ revived = FALSE
-----------------------------------------------------------------------------
Stored == \E n \in DOMAIN log : log[n] = command

(* ProduceAsync: librdkafka sends, and sends again while unanswered.       *)
Produce ==
  /\ producer \in {"sending", "waiting"}
  /\ command <= Count
  /\ requests < MaxRequests
  /\ producer' = "waiting"
  /\ requests' = requests + 1
  /\ arriving' = arriving \cup {[command |-> command, request |-> requests + 1]}
  /\ UNCHANGED <<command, log, failed, consumerVars>>

(* External: a request arrives or is lost; of those of one command, which  *)
(* hold the same, the oldest is the first.                                 *)
Arrive(a) ==
  /\ a \in arriving
  /\ \A b \in arriving : b.command = a.command => a.request <= b.request
  /\ arriving' = arriving \ {a}
  /\ log' \in {log, Append(log, a.command)}
  /\ UNCHANGED <<producer, command, requests, failed, consumerVars>>

(* The program's loop comes to the next name, or to its end. *)
GoesOn ==
  /\ command' = command + 1
  /\ producer' = IF command = Count THEN "ended" ELSE "sending"
  /\ UNCHANGED <<requests, arriving, log, consumerVars>>

(* Mutated form of Sent: Send does not wait for the result. *)
Sent_AtOnce == producer = "waiting" /\ GoesOn /\ UNCHANGED failed

(* .Result: Send returns once the broker has answered.                     *)
Sent == producer = "waiting" /\ Stored /\ GoesOn /\ UNCHANGED failed

(* External: librdkafka gives the command up, and its task completes with  *)
(* a Message that has an Error.  Send does not look at it: it returns, as  *)
(* if the command were stored.  What is on its way may still arrive.       *)
DeliveryFails ==
  /\ producer \in {"sending", "waiting"}
  /\ command <= Count
  /\ failed' = failed \cup {command}
  /\ GoesOn

(* The getter or ProduceAsync throws, and the program ends. *)
SendFails ==
  /\ producer = "sending"
  /\ producer' = "ended"
  /\ UNCHANGED <<command, requests, arriving, log, failed, consumerVars>>
-----------------------------------------------------------------------------
(* The subscriber program.  In its loop the getter Consumer looks at       *)
(* disposing, then at the field; Subscriber uses what it returns, for      *)
(* Subscribe the first time and for Poll ever after.                       *)
Start ==
  /\ loop \in {"off", "ended"}
  /\ starts < MaxStarts
  /\ starts' = starts + 1
  /\ loop' = "get" /\ subscribing' = TRUE
  /\ consumer' = "null" /\ disposer' = "none"
  /\ given' = committed
  /\ UNCHANGED <<commits, committed, ghosts, producerVars>>

Get ==
  /\ loop = "get"
  /\ loop' = IF disposing THEN "use" ELSE "create"
  /\ UNCHANGED <<subscribing, consumer, disposer, given, commits, committed,
                 starts, ghosts, producerVars>>

(* Mutated form of Create: no "consumer == null". *)
Create_Always ==
  /\ loop = "create"
  /\ loop' = "use"
  /\ consumer' = "new"
  /\ UNCHANGED <<subscribing, disposer, given, commits, committed, starts,
                 ghosts, producerVars>>

Create ==
  /\ loop = "create"
  /\ loop' = "use"
  /\ consumer' = IF consumer = "null" THEN "new" ELSE consumer
  /\ revived' = (revived \/ (consumer = "null" /\ disposing))
  /\ UNCHANGED <<subscribing, disposer, given, commits, committed, starts,
                 handled, cut, producerVars>>

Subscribe ==
  /\ loop = "use" /\ subscribing
  /\ consumer # "null"
  /\ consumer' = "subscribed" /\ subscribing' = FALSE
  /\ loop' = "get"
  /\ UNCHANGED <<disposer, given, commits, committed, starts, ghosts,
                 producerVars>>

(* A message is handed to OnMessageHandler within Poll, or there is none. *)
Poll ==
  /\ loop = "use" /\ ~subscribing
  /\ consumer # "null"
  /\ IF consumer = "subscribed" /\ given < Len(log)
       THEN given' = given + 1 /\ loop' = "handling"
       ELSE given' = given /\ loop' = "get"
  /\ UNCHANGED <<subscribing, consumer, disposer, commits, committed, starts,
                 ghosts, producerVars>>

(* Process returns. *)
Handled ==
  /\ loop = "handling"
  /\ handled' = [handled EXCEPT ![given] = @ + 1]
  /\ loop' = "commit"
  /\ UNCHANGED <<subscribing, consumer, disposer, given, commits, committed,
                 starts, cut, revived, producerVars>>

(* CommitAsync, which nobody awaits. *)
Commit ==
  /\ loop = "commit"
  /\ consumer # "null"
  /\ commits' = commits \cup {given}
  /\ loop' = "get"
  /\ UNCHANGED <<subscribing, consumer, disposer, given, committed, starts,
                 ghosts, producerVars>>

(* The loop ends by an exception only, and the program with it; what was   *)
(* still to be committed, or handed out, may or may not be.                *)
End ==
  /\ loop' = "ended"
  /\ cut' = IF loop = "handling" THEN cut \cup {given} ELSE cut
  /\ committed' \in {committed, given} \cup commits
  /\ commits' = {}
  /\ UNCHANGED <<subscribing, consumer, disposer, given, starts, handled,
                 revived, producerVars>>

(* Mutated form of Throws: the exception is caught and the loop goes on.   *)
Throws_Caught ==
  /\ loop = "handling"
  /\ loop' = "commit"
  /\ UNCHANGED <<subscribing, consumer, disposer, given, commits, committed,
                 starts, ghosts, producerVars>>

(* Deserialisation or Process throws. *)
Throws == loop = "handling" /\ End

(* After Dispose the field is null: Poll, or CommitAsync, is called on it. *)
FindsNull == loop \in {"use", "commit"} /\ consumer = "null" /\ End

Crash == loop \notin {"off", "ended"} /\ End

(* External: librdkafka commits what it has handed out, from time to time. *)
AutoCommit ==
  /\ loop \notin {"off", "ended"}
  /\ consumer = "subscribed"
  /\ given > committed
  /\ commits' = commits \cup {given}
  /\ UNCHANGED <<loop, subscribing, consumer, disposer, given, committed,
                 starts, ghosts, producerVars>>

Oldest(n) == n \in commits /\ \A m \in commits : n <= m

(* External: the broker takes commits in the order they were asked for.    *)
Committed(n) ==
  /\ Oldest(n)
  /\ commits' = commits \ {n}
  /\ committed' = n
  /\ UNCHANGED <<loop, subscribing, consumer, disposer, given, starts, ghosts,
                 producerVars>>

(* Mutated form of CommitFails: the consumer goes back. *)
CommitFails_Rewinds(n) ==
  /\ Oldest(n)
  /\ loop = "get"
  /\ commits' = commits \ {n}
  /\ given' = committed
  /\ \A m \in Offsets : handled[m] < 3
  /\ UNCHANGED <<loop, subscribing, consumer, disposer, committed, starts,
                 ghosts, producerVars>>

CommitFails(n) ==
  /\ Oldest(n)
  /\ commits' = commits \ {n}
  /\ UNCHANGED <<loop, subscribing, consumer, disposer, given, committed,
                 starts, ghosts, producerVars>>

(* Another thread disposes of the subscriber, the one way to end its loop. *)
BeginDispose ==
  /\ loop \notin {"off", "ended"}
  /\ disposer = "none"
  /\ disposer' = "flagged"
  /\ UNCHANGED <<loop, subscribing, consumer, given, commits, committed, starts,
                 ghosts, producerVars>>

(* Mutated form of EndDispose: the field is not set to null. *)
EndDispose_KeepsField ==
  /\ disposer = "flagged"
  /\ disposer' = "done"
  /\ UNCHANGED <<loop, subscribing, consumer, given, commits, committed, starts,
                 ghosts, producerVars>>

EndDispose ==
  /\ disposer = "flagged"
  /\ disposer' = "done"
  /\ consumer' = "null"
  /\ UNCHANGED <<loop, subscribing, given, commits, committed, starts, ghosts,
                 producerVars>>

LoopStep == Get \/ Create \/ Subscribe \/ Poll \/ Handled \/ Commit
            \/ Throws \/ FindsNull

Next == \/ Produce \/ Sent \/ DeliveryFails \/ SendFails
        \/ \E a \in arriving : Arrive(a)
        \/ Start \/ LoopStep \/ Crash \/ AutoCommit
        \/ \E n \in commits : Committed(n) \/ CommitFails(n)
        \/ BeginDispose \/ EndDispose

Spec == Init /\ [][Next]_vars

(* The thread of the loop runs and Process returns; Dispose goes on.       *)
Fairness == WF_vars(LoopStep) /\ WF_vars(EndDispose)
-----------------------------------------------------------------------------
(* The partition holds no command before an earlier one, whatever was sent *)
(* twice, except where the earlier one's delivery failed: Send waits for   *)
(* the result, but does not look at its Error (KafkaPublisher.cs:64).      *)
CommandsInOrder ==
  \A k \in DOMAIN log, c \in 1 .. Count :
    c < log[k] /\ c \notin failed => \E j \in 1 .. k - 1 : log[j] = c

(* What the group has committed was handled, except the one message that   *)
(* was in hand whenever a program ended, or is now: the commits of         *)
(* librdkafka do not wait for Process.                                     *)
SkippedOnlyByEnd ==
  \A n \in 1 .. committed :
    handled[n] > 0 \/ n \in cut \/ (loop = "handling" /\ n = given)

(* A message is handled again only by a program that was started again,    *)
(* whichever commits fail.                                                 *)
RepeatedOnlyByStart == \A n \in Offsets : handled[n] <= starts

(* Dispose ends the loop, by an exception in it, unless the getter was     *)
(* between its two looks and made a new consumer.                          *)
DisposeEnds == (disposer = "done") ~> (loop = "ended" \/ revived)

(* What is in the partition is handled while the program runs. *)
EveryOffsetHandled ==
  \A n \in Offsets :
    (n \in given + 1 .. Len(log) /\ loop \notin {"off", "ended"})
      ~> (handled[n] > 0 \/ loop = "ended" \/ disposing)
=============================================================================
