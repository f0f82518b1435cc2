------------------------- MODULE Transports_proofs -------------------------
(***************************************************************************)
(* Proofs about the transports.  For any number of commands, requests and  *)
(* starts, the commands keep their order in the Kafka partition unless a   *)
(* delivery fails, a message is handled at most once for each start of the *)
(* subscriber, and a committed message was handled unless the program      *)
(* ended with it in hand.                                                  *)
(*                                                                         *)
(* A program that may run either of the two transports takes only steps of *)
(* KafkaTopic and of Delivery, so what is proved of each of them holds of  *)
(* the program.                                                            *)
(***************************************************************************)
EXTENDS Transports, FiniteSetTheorems, TLAPS

(* Nothing of a command is on its way before its predecessors are stored,  *)
(* or their delivery has failed.                                           *)
Waited ==
  /\ command \in Nat \ {0}
  /\ log \in Seq(Nat)
  /\ \A k \in DOMAIN log : log[k] <= command
  /\ \A a \in arriving : a.command \in 1 .. command
  /\ \A c \in (1 .. command - 1) \ failed : \E j \in DOMAIN log : log[j] = c
  /\ CommandsInOrder

LEMMA WaitedArrive ==
  ASSUME Waited, NEW a \in arriving, Arrive(a)
  PROVE  Waited'
PROOF
  <1>1. arriving' \subseteq arriving /\ command' = command /\ failed' = failed
    BY DEF Arrive
  <1>2. CASE log' = log
    BY <1>1, <1>2 DEF Waited, CommandsInOrder
  <1>3. CASE log' = Append(log, a.command)
    <2> DEFINE d == a.command
    <2>1. d \in 1 .. command /\ command \in Nat /\ log \in Seq(Nat)
      BY DEF Waited
    <2>2. /\ log' \in Seq(Nat) /\ DOMAIN log' = 1 .. Len(log) + 1
          /\ DOMAIN log = 1 .. Len(log) /\ Len(log) \in Nat
          /\ log'[Len(log) + 1] = d
          /\ \A j \in DOMAIN log : log'[j] = log[j]
      BY <1>3, <2>1
    <2>3. \A b \in (1 .. command - 1) \ failed : \E j \in DOMAIN log : log[j] = b
      BY DEF Waited
    <2>4. \A b \in (1 .. command - 1) \ failed : \E j \in DOMAIN log' : log'[j] = b
      BY <2>2, <2>3
    <2>5. ASSUME NEW k \in DOMAIN log', NEW c \in 1 .. Count, c < log'[k],
                 c \notin failed
          PROVE  \E j \in 1 .. k - 1 : log'[j] = c
      <3>1. CASE k \in DOMAIN log
        <4>1. PICK j \in 1 .. k - 1 : log[j] = c
          BY <2>2, <2>5, <3>1 DEF Waited, CommandsInOrder
        <4>2. j \in DOMAIN log /\ log'[j] = log[j]
          BY <2>2, <3>1
        <4> QED
          BY <4>1, <4>2
      <3>2. CASE k = Len(log) + 1
        <4>1. c \in 1 .. command - 1 /\ log'[k] = d
          BY <2>1, <2>2, <2>5, <3>2, TopicAssumption
        <4>2. PICK j \in DOMAIN log : log[j] = c
          BY <2>3, <2>5, <4>1
        <4>3. j \in 1 .. k - 1 /\ log'[j] = log[j]
          BY <2>2, <3>2, <4>2
        <4> QED
          BY <4>2, <4>3
      <3> QED
        BY <2>2, <3>1, <3>2
    <2>6. CommandsInOrder'
      BY <1>1, <2>5 DEF CommandsInOrder
    <2>7. \A b \in arriving' : b.command \in 1 .. command'
      BY <1>1 DEF Waited
    <2>8. \A k \in DOMAIN log' : log'[k] <= command'
      BY <1>1, <2>1, <2>2 DEF Waited
    <2> QED
      BY <1>1, <2>1, <2>2, <2>4, <2>6, <2>7, <2>8 DEF Waited
  <1> QED
    BY <1>2, <1>3 DEF Arrive

(* The program goes on from a command that is stored or has failed. *)
LEMMA WaitedGoesOn ==
  ASSUME Waited, GoesOn, failed' \in {failed, failed \cup {command}},
         command \in failed' \/ Stored
  PROVE  Waited'
PROOF
  <1>1. log' = log /\ arriving' = arriving /\ command' = command + 1
    BY DEF GoesOn
  <1>2. /\ command \in Nat \ {0} /\ log \in Seq(Nat)
        /\ \A k \in DOMAIN log : log[k] <= command
        /\ \A a \in arriving : a.command \in 1 .. command
        /\ \A c \in (1 .. command - 1) \ failed : \E j \in DOMAIN log : log[j] = c
    BY DEF Waited
  <1>3. \A c \in 1 .. command' - 1 : c \in 1 .. command - 1 \/ c = command
    BY <1>1, <1>2
  <1>4. \A c \in (1 .. command' - 1) \ failed' : \E j \in DOMAIN log' : log'[j] = c
    BY <1>1, <1>2, <1>3 DEF Stored
  <1>5. /\ command' \in Nat \ {0}
        /\ \A a \in arriving' : a.command \in 1 .. command'
        /\ \A k \in DOMAIN log' : log'[k] <= command'
    BY <1>1, <1>2
  <1>6. log' \in Seq(Nat) /\ CommandsInOrder'
    BY <1>1 DEF Waited, CommandsInOrder
  <1> QED
    BY <1>4, <1>5, <1>6 DEF Waited

LEMMA WaitedNext ==
  ASSUME Waited, [Next]_vars
  PROVE  Waited'
PROOF
  <1>1. CASE Produce
    <2>1. /\ log' = log /\ command' = command /\ failed' = failed
          /\ \A a \in arriving' : a \in arriving \/ a.command = command
      BY <1>1 DEF Produce
    <2>2. command \in 1 .. command
      BY DEF Waited
    <2> QED
      BY <2>1, <2>2 DEF Waited, CommandsInOrder
  <1>2. CASE Sent \/ DeliveryFails
    BY <1>2, WaitedGoesOn DEF Sent, DeliveryFails
  <1>3. ASSUME NEW a \in arriving, Arrive(a) PROVE Waited'
    BY <1>3, WaitedArrive
  <1>4. CASE SendFails \/ UNCHANGED producerVars
    BY <1>4 DEF SendFails, producerVars, Waited, CommandsInOrder
  <1>5. ASSUME Start \/ LoopStep \/ Crash \/ AutoCommit \/ BeginDispose
               \/ EndDispose \/ \E n \in commits : Committed(n) \/ CommitFails(n)
        PROVE  UNCHANGED producerVars
    BY <1>5 DEF Start, LoopStep, Get, Create, Subscribe, Poll, Handled, Commit,
                Throws, FindsNull, Crash, End, AutoCommit, BeginDispose,
                EndDispose, Committed, CommitFails
  <1>6. CASE UNCHANGED vars
    BY <1>4, <1>6 DEF vars
  <1> QED
    BY <1>1, <1>2, <1>3, <1>4, <1>5, <1>6 DEF Next

(* The partition holds no command before an earlier one whose delivery has *)
(* not failed, however often librdkafka repeats a request; after a failed  *)
(* delivery the program goes on (KafkaPublisher.cs:64).                    *)
THEOREM OrderKept == Spec => []CommandsInOrder
PROOF
  <1>1. Init => Waited
    BY DEF Init, Waited, CommandsInOrder
  <1>2. Spec => []Waited
    BY <1>1, WaitedNext, PTL DEF Spec
  <1>3. Waited => CommandsInOrder
    BY DEF Waited
  <1> QED
    BY <1>2, <1>3, PTL
-----------------------------------------------------------------------------
running == loop \notin {"off", "ended"}

(* A program hands out each offset once: what lies after given, and given  *)
(* itself while it is in hand, was handled by earlier programs only.       *)
Once ==
  /\ given \in Nat /\ committed \in Nat /\ starts \in Nat
  /\ commits \subseteq Nat
  /\ handled \in [Offsets -> Nat]
  /\ RepeatedOnlyByStart
  /\ running => \A n \in Offsets :
                  n > given \/ (n = given /\ loop = "handling")
                    => handled[n] < starts

LEMMA OnceKept ==
  ASSUME Once, UNCHANGED <<given, starts, handled>>, committed' \in Nat,
         commits' \subseteq Nat, loop' # "handling" \/ loop' = loop,
         running' => running
  PROVE  Once'
  BY DEF Once, RepeatedOnlyByStart, Offsets

LEMMA OnceNext ==
  ASSUME Once, [Next]_vars
  PROVE  Once'
PROOF
  <1> USE TopicAssumption
  <1>1. CASE \/ Produce \/ Sent \/ DeliveryFails \/ SendFails
             \/ \E a \in arriving : Arrive(a)
    <2>1. UNCHANGED consumerVars
      BY <1>1 DEF Produce, Sent, DeliveryFails, GoesOn, SendFails, Arrive
    <2> QED
      BY <2>1 DEF consumerVars, ghosts, Once, RepeatedOnlyByStart, Offsets,
                  running
  <1>2. CASE Start
    <2>1. /\ given' = committed /\ starts' = starts + 1 /\ loop' = "get"
          /\ UNCHANGED <<commits, committed, handled>>
      BY <1>2 DEF Start, ghosts
    <2>2. \A n \in Offsets : handled'[n] < starts'
      BY <2>1 DEF Once, RepeatedOnlyByStart
    <2>3. \A n \in Offsets : handled'[n] <= starts'
      BY <2>1, <2>2 DEF Once
    <2> QED
      BY <2>1, <2>2, <2>3 DEF Once, RepeatedOnlyByStart, Offsets
  <1>3. CASE Get \/ Create \/ Subscribe
    <2>1. /\ UNCHANGED <<given, starts, handled, committed, commits>>
          /\ loop' # "handling" /\ running
      BY <1>3 DEF Get, Create, Subscribe, ghosts, running
    <2> QED
      BY <2>1, OnceKept DEF Once
  <1>4. CASE Poll
    <2>1. /\ running /\ loop # "handling"
          /\ UNCHANGED <<starts, handled, committed, commits>>
          /\ \/ given' = given + 1
             \/ given' = given /\ loop' # "handling"
      BY <1>4 DEF Poll, ghosts, running
    <2>2. CASE given' = given + 1
      <3>1. \A n \in Offsets : n >= given' => handled[n] < starts
        BY <2>1, <2>2 DEF Once, Offsets
      <3>2. \A n \in Offsets :
              n > given' \/ (n = given' /\ loop' = "handling")
                => handled'[n] < starts'
        BY <2>1, <2>2, <3>1 DEF Once, Offsets
      <3>3. given' \in Nat
        BY <2>2 DEF Once
      <3> QED
        BY <2>1, <3>2, <3>3 DEF Once, RepeatedOnlyByStart, Offsets
    <2>3. CASE given' = given /\ loop' # "handling"
      BY <2>1, <2>3, OnceKept DEF Once
    <2> QED
      BY <2>1, <2>2, <2>3
  <1>5. CASE Handled
    <2>1. /\ loop = "handling" /\ loop' = "commit" /\ running
          /\ UNCHANGED <<given, starts, committed, commits>>
          /\ handled' = [handled EXCEPT ![given] = @ + 1]
      BY <1>5 DEF Handled, running
    <2>2. \A n \in Offsets : n >= given => handled[n] < starts
      BY <2>1 DEF Once, Offsets
    <2>3. /\ handled' \in [Offsets -> Nat]
          /\ \A n \in Offsets : n # given => handled'[n] = handled[n]
          /\ given \in Offsets => handled'[given] = handled[given] + 1
      <3>1. handled \in [Offsets -> Nat]
        BY DEF Once
      <3>2. CASE given \in Offsets
        <4>1. handled[given] + 1 \in Nat
          BY <3>1, <3>2
        <4> QED
          BY <2>1, <3>1, <3>2, <4>1
      <3>3. CASE given \notin Offsets
        <4>1. handled' = handled
          BY <2>1, <3>1, <3>3
        <4> QED
          BY <3>1, <3>3, <4>1
      <3> QED
        BY <3>2, <3>3
    <2>4. \A n \in Offsets : handled'[n] <= starts'
      <3>1. ASSUME NEW n \in Offsets, n = given PROVE handled'[n] <= starts'
        <4>1. handled[n] < starts /\ handled'[n] = handled[n] + 1
          BY <2>2, <2>3, <3>1 DEF Once
        <4>2. handled[n] \in Nat /\ starts \in Nat /\ starts' = starts
          BY <2>1 DEF Once
        <4> QED
          BY <4>1, <4>2
      <3>2. ASSUME NEW n \in Offsets, n # given PROVE handled'[n] <= starts'
        BY <2>1, <2>3, <3>2 DEF Once, RepeatedOnlyByStart
      <3> QED
        BY <3>1, <3>2
    <2>5. \A n \in Offsets : n > given' => handled'[n] < starts'
      BY <2>1, <2>2, <2>3 DEF Once, Offsets
    <2> QED
      BY <2>1, <2>3, <2>4, <2>5 DEF Once, RepeatedOnlyByStart, Offsets
  <1>6. CASE Commit \/ AutoCommit
    <2>1. /\ UNCHANGED <<given, starts, handled, committed>>
          /\ commits' = commits \cup {given}
          /\ loop' # "handling" \/ loop' = loop
          /\ running
      BY <1>6 DEF Commit, AutoCommit, ghosts, running
    <2>2. commits' \subseteq Nat
      BY <2>1 DEF Once
    <2> QED
      BY <2>1, <2>2, OnceKept DEF Once
  <1>7. CASE End
    <2>1. /\ UNCHANGED <<given, starts, handled>> /\ ~running'
          /\ loop' # "handling" /\ commits' = {}
      BY <1>7 DEF End, running
    <2>2. committed' \in Nat
      BY <1>7 DEF End, Once
    <2> QED
      BY <2>1, <2>2, OnceKept
  <1>8. ASSUME NEW n \in commits, Committed(n) \/ CommitFails(n)
        PROVE  Once'
    <2>1. /\ UNCHANGED <<given, starts, handled, loop>>
          /\ commits' = commits \ {n} /\ committed' \in {committed, n}
      BY <1>8 DEF Committed, CommitFails, ghosts
    <2>2. committed' \in Nat /\ commits' \subseteq Nat
      BY <2>1 DEF Once
    <2> QED
      BY <2>1, <2>2, OnceKept DEF running
  <1>9. CASE BeginDispose \/ EndDispose \/ UNCHANGED vars
    <2>1. UNCHANGED <<given, starts, handled, loop, committed, commits>>
      BY <1>9 DEF BeginDispose, EndDispose, ghosts, vars, consumerVars
    <2> QED
      BY <2>1, OnceKept DEF running, Once
  <1> QED
    BY <1>1, <1>2, <1>3, <1>4, <1>5, <1>6, <1>7, <1>8, <1>9
       DEF Next, LoopStep, Throws, FindsNull, Crash

(* A message is handled again only by a program that was started again,    *)
(* whichever commits fail (KafkaSubscriber.cs:55).                         *)
THEOREM OnceForEachStart == Spec => []RepeatedOnlyByStart
PROOF
  <1>1. Init => Once
    BY TopicAssumption DEF Init, Once, RepeatedOnlyByStart, running, Offsets
  <1>2. Spec => []Once
    BY <1>1, OnceNext, PTL DEF Spec
  <1>3. Once => RepeatedOnlyByStart
    BY DEF Once
  <1> QED
    BY <1>2, <1>3, PTL
-----------------------------------------------------------------------------
(* What a request can still add to the partition is bounded.               *)
Sizes ==
  /\ IsFiniteSet(arriving)
  /\ requests \in Nat /\ requests <= MaxRequests
  /\ Len(log) \in Nat
  /\ Len(log) + Cardinality(arriving) <= requests
  /\ log \in Seq(Nat) /\ command \in Nat
  /\ \A a \in arriving : a.command \in Nat

LEMMA SizesNext ==
  ASSUME Sizes, [Next]_vars
  PROVE  Sizes'
PROOF
  <1>0. IsFiniteSet(arriving) /\ Cardinality(arriving) \in Nat
    BY FS_CardinalityType DEF Sizes
  <1>1. CASE Produce
    <2> DEFINE a == [command |-> command, request |-> requests + 1]
    <2>1. /\ arriving' = arriving \cup {a} /\ requests' = requests + 1
          /\ requests < MaxRequests /\ UNCHANGED <<log, command>>
      BY <1>1 DEF Produce
    <2>2. /\ IsFiniteSet(arriving')
          /\ \/ Cardinality(arriving') = Cardinality(arriving)
             \/ Cardinality(arriving') = Cardinality(arriving) + 1
      BY <1>0, <2>1, FS_AddElement
    <2>3. \A b \in arriving' : b.command \in Nat
      BY <2>1 DEF Sizes
    <2>4. /\ requests' \in Nat /\ requests' <= MaxRequests
          /\ Len(log) + Cardinality(arriving') <= requests'
      BY <1>0, <2>1, <2>2, TopicAssumption DEF Sizes
    <2> QED
      BY <2>1, <2>2, <2>3, <2>4 DEF Sizes
  <1>2. ASSUME NEW a \in arriving, Arrive(a) PROVE Sizes'
    <2>1. /\ arriving' = arriving \ {a} /\ UNCHANGED <<requests, command>>
          /\ log' \in {log, Append(log, a.command)} /\ a.command \in Nat
      BY <1>2 DEF Arrive, Sizes
    <2>2. /\ IsFiniteSet(arriving')
          /\ Cardinality(arriving') = Cardinality(arriving) - 1
      BY <1>0, <2>1, FS_RemoveElement
    <2>3. log' \in Seq(Nat) /\ (Len(log') = Len(log) \/ Len(log') = Len(log) + 1)
      <3>1. log \in Seq(Nat)
        BY DEF Sizes
      <3>2. CASE log' = log
        BY <3>1, <3>2
      <3>3. CASE log' = Append(log, a.command)
        BY <2>1, <3>1, <3>3
      <3> QED
        BY <2>1, <3>2, <3>3
    <2>4. Len(log') \in Nat /\ Len(log') + Cardinality(arriving') <= requests'
      BY <1>0, <2>1, <2>2, <2>3 DEF Sizes
    <2> QED
      BY <2>1, <2>2, <2>3, <2>4 DEF Sizes
  <1>3. CASE Sent \/ DeliveryFails
    BY <1>3 DEF Sent, DeliveryFails, GoesOn, Sizes
  <1>4. CASE SendFails \/ UNCHANGED producerVars
    BY <1>4 DEF SendFails, producerVars, Sizes
  <1>5. ASSUME Start \/ LoopStep \/ Crash \/ AutoCommit \/ BeginDispose
               \/ EndDispose \/ \E n \in commits : Committed(n) \/ CommitFails(n)
        PROVE  UNCHANGED producerVars
    BY <1>5 DEF Start, LoopStep, Get, Create, Subscribe, Poll, Handled, Commit,
                Throws, FindsNull, Crash, End, AutoCommit, BeginDispose,
                EndDispose, Committed, CommitFails
  <1>6. CASE UNCHANGED vars
    BY <1>4, <1>6 DEF vars
  <1> QED
    BY <1>1, <1>2, <1>3, <1>4, <1>5, <1>6 DEF Next

-----------------------------------------------------------------------------
Accounted(n) == handled[n] > 0 \/ n \in cut \/ (loop = "handling" /\ n = given)

(* All that a running program has been given is accounted for, and no      *)
(* commit is ahead of that.                                                *)
Kept ==
  /\ given \in Nat /\ committed \in Nat
  /\ \A n \in commits : n \in Nat /\ n <= given
  /\ handled \in [Offsets -> Nat]
  /\ running => /\ committed <= given
                /\ \A n \in 1 .. given : Accounted(n)
  /\ ~running => commits = {}
  /\ loop = "handling" => given \in Offsets
  /\ SkippedOnlyByEnd

LEMMA KeptUnchanged ==
  ASSUME Kept, UNCHANGED <<given, handled, loop, cut>>,
         committed' \in {committed} \cup commits,
         commits' \subseteq commits \cup (IF running THEN {given} ELSE {})
  PROVE  Kept'
PROOF
  <1>1. /\ given' \in Nat /\ handled' \in [Offsets' -> Nat]
        /\ loop' = "handling" => given' \in Offsets'
        /\ running' = running
        /\ \A n : Accounted(n)' = Accounted(n)
    BY DEF Kept, Offsets, running, Accounted
  <1>2. \A n \in commits' : n \in Nat /\ n <= given'
    BY DEF Kept
  <1>3. ~running => commits' = {}
    BY DEF Kept
  <1>4. committed' \in Nat /\ (running => committed' <= given)
    BY DEF Kept
  <1>5. CASE committed' = committed
    BY <1>1, <1>2, <1>3, <1>4, <1>5 DEF Kept, SkippedOnlyByEnd, Accounted
  <1>6. CASE committed' \in commits
    <2>1. running
      BY <1>6 DEF Kept
    <2>2. \A n \in 1 .. committed' : n \in 1 .. given
      BY <1>4, <2>1 DEF Kept
    <2>3. \A n \in 1 .. committed' : Accounted(n)
      BY <2>1, <2>2 DEF Kept
    <2>4. SkippedOnlyByEnd'
      BY <2>3 DEF SkippedOnlyByEnd, Accounted
    <2> QED
      BY <1>1, <1>2, <1>3, <1>4, <2>1, <2>4 DEF Kept
  <1> QED
    BY <1>5, <1>6

(* The loop goes on without a message in hand. *)
LEMMA KeptOutside ==
  ASSUME Kept, UNCHANGED <<given, handled, cut, committed>>,
         running, running', loop # "handling", loop' # "handling",
         \A n \in commits' : n \in commits \/ n = given
  PROVE  Kept'
PROOF
  <1>1. \A n : Accounted(n)' = Accounted(n)
    BY DEF Accounted
  <1>2. \A n \in 1 .. given' : Accounted(n)'
    BY <1>1 DEF Kept
  <1>3. SkippedOnlyByEnd'
    BY DEF Kept, SkippedOnlyByEnd
  <1>4. \A n \in commits' : n \in Nat /\ n <= given'
    BY DEF Kept
  <1> QED
    BY <1>2, <1>3, <1>4 DEF Kept, Offsets

LEMMA KeptEnd ==
  ASSUME Kept, End, running
  PROVE  Kept'
PROOF
  <1>1. /\ loop' = "ended" /\ ~running' /\ commits' = {}
        /\ UNCHANGED <<given, handled>>
        /\ committed' \in {committed, given} \cup commits
    BY DEF End, running
  <1>2. committed' \in Nat /\ committed' <= given
    BY <1>1 DEF Kept
  <1>3. \A n \in 1 .. committed' : n \in 1 .. given
    BY <1>2 DEF Kept
  <1>4. \A n \in 1 .. committed' : Accounted(n)
    BY <1>3 DEF Kept
  <1>5. \A n : n \in cut \/ (loop = "handling" /\ n = given) => n \in cut'
    BY DEF End
  <1>6. SkippedOnlyByEnd'
    BY <1>1, <1>4, <1>5 DEF SkippedOnlyByEnd, Accounted
  <1> QED
    BY <1>1, <1>2, <1>6 DEF Kept, Offsets

LEMMA KeptNext ==
  ASSUME Kept, Sizes, [Next]_vars
  PROVE  Kept'
PROOF
  <1>1. CASE \/ Produce \/ Sent \/ DeliveryFails \/ SendFails
             \/ \E a \in arriving : Arrive(a)
             \/ AutoCommit \/ BeginDispose \/ EndDispose \/ UNCHANGED vars
             \/ \E n \in commits : Committed(n) \/ CommitFails(n)
    <2>1. /\ UNCHANGED <<given, handled, loop, cut>>
          /\ committed' \in {committed} \cup commits
          /\ commits' \subseteq commits \cup (IF running THEN {given} ELSE {})
      BY <1>1 DEF Produce, Sent, DeliveryFails, GoesOn, SendFails, Arrive,
                  AutoCommit, BeginDispose, EndDispose, Committed, CommitFails, consumerVars, ghosts,
                  vars, running
    <2> QED
      BY <2>1, KeptUnchanged
  <1>2. CASE Start
    <2>1. /\ ~running /\ given' = committed /\ loop' = "get" /\ running'
          /\ UNCHANGED <<commits, committed, handled, cut>>
          /\ loop # "handling"
      BY <1>2 DEF Start, ghosts, running
    <2>2. commits' = {} /\ given' \in Nat
      BY <2>1 DEF Kept
    <2>3. \A n \in 1 .. given' : Accounted(n)'
      BY <2>1 DEF Kept, SkippedOnlyByEnd, Accounted
    <2>4. SkippedOnlyByEnd'
      BY <2>1 DEF Kept, SkippedOnlyByEnd
    <2>5. committed' <= given'
      BY <2>1 DEF Kept
    <2> QED
      BY <2>1, <2>2, <2>3, <2>4, <2>5 DEF Kept, Offsets
  <1>3. CASE Get \/ Create \/ Subscribe \/ Commit
    <2>1. /\ UNCHANGED <<given, handled, cut, committed>>
          /\ running /\ running' /\ loop # "handling" /\ loop' # "handling"
          /\ \A n \in commits' : n \in commits \/ n = given
      BY <1>3 DEF Get, Create, Subscribe, Commit, ghosts, running
    <2> QED
      BY <2>1, KeptOutside
  <1>4. CASE Poll
    <2>1. /\ running /\ running' /\ loop # "handling"
          /\ UNCHANGED <<handled, cut, committed, commits>>
          /\ \/ given' = given + 1 /\ loop' = "handling" /\ given < Len(log)
             \/ given' = given /\ loop' # "handling"
      BY <1>4 DEF Poll, ghosts, running
    <2>2. CASE given' = given + 1 /\ loop' = "handling" /\ given < Len(log)
      <3>1. given \in Nat /\ given' \in Nat /\ given' \in Offsets
        <4>1. Len(log) <= MaxRequests /\ Len(log) \in Nat
          BY FS_CardinalityType, TopicAssumption DEF Sizes
        <4> QED
          BY <2>2, <4>1, TopicAssumption DEF Kept, Offsets
      <3>2. \A n \in 1 .. given' : n \in 1 .. given \/ n = given'
        BY <2>2, <3>1
      <3>3. \A n \in 1 .. given : Accounted(n)'
        BY <2>1 DEF Kept, Accounted
      <3>4. \A n \in 1 .. given' : Accounted(n)'
        BY <2>2, <3>2, <3>3 DEF Accounted
      <3>5. SkippedOnlyByEnd'
        BY <2>1 DEF Kept, SkippedOnlyByEnd
      <3>6. committed' <= given' /\ committed' \in Nat
        BY <2>1, <2>2 DEF Kept
      <3>7. \A n \in commits' : n \in Nat /\ n <= given'
        BY <2>1, <2>2 DEF Kept
      <3> QED
        BY <2>1, <3>1, <3>4, <3>5, <3>6, <3>7 DEF Kept, Offsets
    <2>3. CASE given' = given /\ loop' # "handling"
      BY <2>1, <2>3, KeptOutside
    <2> QED
      BY <2>1, <2>2, <2>3
  <1>5. CASE Handled
    <2>1. /\ loop = "handling" /\ loop' = "commit" /\ running /\ running'
          /\ UNCHANGED <<given, cut, committed, commits>>
          /\ handled' = [handled EXCEPT ![given] = @ + 1]
      BY <1>5 DEF Handled, running
    <2>2. given \in Offsets /\ handled \in [Offsets -> Nat]
      BY <2>1 DEF Kept
    <2>3. handled[given] \in Nat /\ handled[given] + 1 \in Nat
          /\ handled[given] + 1 > 0
      BY <2>2
    <2>4. /\ handled' \in [Offsets -> Nat] /\ handled'[given] > 0
          /\ \A n : n # given => handled'[n] = handled[n]
      BY <2>1, <2>2, <2>3
    <2>5. \A n : Accounted(n) => Accounted(n)'
      BY <2>1, <2>4 DEF Accounted
    <2>6. SkippedOnlyByEnd'
      BY <2>1, <2>4 DEF Kept, SkippedOnlyByEnd
    <2> QED
      BY <2>1, <2>4, <2>5, <2>6 DEF Kept, Offsets
  <1>6. CASE Throws \/ FindsNull \/ Crash
    BY <1>6, KeptEnd DEF Throws, FindsNull, Crash, running
  <1> QED
    BY <1>1, <1>2, <1>3, <1>4, <1>5, <1>6 DEF Next, LoopStep

(* What the group has committed was handled, or was in hand when a program *)
(* ended (KafkaSubscriber.cs:53 leaves the automatic commits on).          *)
THEOREM CommittedIsHandled == Spec => []SkippedOnlyByEnd
PROOF
  <1>1. Init => Kept /\ Sizes
    BY TopicAssumption, FS_EmptySet
       DEF Init, Kept, Sizes, SkippedOnlyByEnd, running, Offsets
  <1>2. Spec => [](Kept /\ Sizes)
    BY <1>1, KeptNext, SizesNext, PTL DEF Spec
  <1>3. Kept => SkippedOnlyByEnd
    BY DEF Kept
  <1> QED
    BY <1>2, <1>3, PTL
-----------------------------------------------------------------------------
Proved == INSTANCE Delivery_proofs

(* Beside RabbitMQ the Kafka programs keep to their specification, so that *)
(* OrderKept, OnceForEachStart and CommittedIsHandled carry over           *)
(* (KafkaSubscriber.cs, KafkaPublisher.cs).                                *)
THEOREM RunsKafkaTopic == TransportsSpec => Spec
PROOF
  <1>1. TransportsInit => Init
    BY DEF TransportsInit
  <1>2. [TransportsNext]_allVars => [Next]_vars
    BY DEF TransportsNext, allVars
  <1> QED
    BY <1>1, <1>2, PTL DEF TransportsSpec, Spec

(* Beside Kafka, the RabbitMQ programs keep to theirs (Sender.cs,          *)
(* Receiver.cs).                                                           *)
THEOREM RunsDelivery == TransportsSpec => Proved!Spec
PROOF
  <1>1. TransportsInit => Proved!Init
    BY DEF TransportsInit, Rabbit!Init, Proved!Init
  <1>2. Rabbit!Next <=> Proved!Next
    BY DEF Rabbit!Next, Proved!Next, Rabbit!Setup, Proved!Setup,
           Rabbit!SetupFails, Proved!SetupFails, Rabbit!Publish,
           Proved!Publish, Rabbit!PublishThrows, Proved!PublishThrows,
           Rabbit!LoseSender, Proved!LoseSender, Rabbit!RecoverSender,
           Proved!RecoverSender, Rabbit!DisposeSender, Proved!DisposeSender,
           Rabbit!Arrive, Proved!Arrive, Rabbit!Expire, Proved!Expire,
           Rabbit!Deliver, Proved!Deliver, Rabbit!Connect, Proved!Connect,
           Rabbit!Begin, Proved!Begin, Rabbit!Processed, Proved!Processed,
           Rabbit!Ack, Proved!Ack, Rabbit!Throws, Proved!Throws, Rabbit!Lose,
           Proved!Lose, Rabbit!Dispose, Proved!Dispose, Rabbit!Close,
           Proved!Close, Rabbit!Unacked, Proved!Unacked, Rabbit!InboxSet,
           Proved!InboxSet, Rabbit!ToSet, Proved!ToSet, Rabbit!senderVars,
           Proved!senderVars, Rabbit!wayVars, Proved!wayVars,
           Rabbit!receiverVars, Proved!receiverVars
  <1>3. [TransportsNext]_allVars => [Proved!Next]_(Proved!vars)
    BY <1>2 DEF TransportsNext, allVars, rabbitVars, Proved!vars,
                Proved!senderVars, Proved!wayVars, Proved!receiverVars
  <1> QED
    BY <1>1, <1>3, PTL DEF TransportsSpec, Proved!Spec

-----------------------------------------------------------------------------
(* A message that has reached the queue is in the broker until Process has *)
(* returned for it or it has expired (Receiver.cs:73); one published over  *)
(* a bound channel reaches it unless the sender's connection is lost while *)
(* it is on its way, for nothing is confirmed (Sender.cs:84).              *)
THEOREM RabbitKeeps == TransportsSpec => []KeptUntilProcessed
PROOF
  <1>1. Proved!KeptUntilProcessed <=> KeptUntilProcessed
    BY DEF KeptUntilProcessed, Rabbit!KeptUntilProcessed, Proved!KeptUntilProcessed,
           Rabbit!Unacked, Proved!Unacked, Rabbit!InboxSet, Proved!InboxSet,
           Rabbit!ToSet, Proved!ToSet
  <1> QED
    BY <1>1, RunsDelivery, Proved!NotLost, PTL

(* Only a connection that the receiver lost brings a message back to the   *)
(* handler (Receiver.cs:76).                                               *)
THEOREM RabbitRetries == TransportsSpec => []TriedAgainOnlyAfterLoss
PROOF
  <1>1. Proved!TriedAgainOnlyAfterLoss <=> TriedAgainOnlyAfterLoss
    BY DEF TriedAgainOnlyAfterLoss, Rabbit!TriedAgainOnlyAfterLoss,
           Proved!TriedAgainOnlyAfterLoss
  <1> QED
    BY <1>1, RunsDelivery, Proved!NoOtherRetry, PTL
=============================================================================
