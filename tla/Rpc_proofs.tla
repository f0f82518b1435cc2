----------------------------- MODULE Rpc_proofs -----------------------------
(***************************************************************************)
(* Proofs about request and reply, for any number of queries, clients,     *)
(* server loops and lost connections.                                      *)
(***************************************************************************)
EXTENDS Rpc, SequenceTheorems, TLAPS

(* Past Dequeue a loop holds a request; past Execute the handler has run   *)
(* it, and so it has for every reply on its way.                           *)
Handling == \A l \in Loops :
  loop[l] \in {"handling", "answering", "replied"} => held[l] \in Queries
Handled ==
  /\ \A l \in Loops : loop[l] \in {"answering", "replied"}
                        => executed[held[l]] > 0
  /\ \A c \in Clients : \A n \in 1 .. Len(replies[c]) :
       executed[replies[c][n]] > 0

Typed   == TypeOK /\ Handling
Answers == Typed /\ Handled /\ OwnAnswer

(* Of the queries of one client only one waits, or all that do are exposed; *)
(* a request is acknowledged only when its reply is in the client's queue. *)
Alone == \A p, q \in Queries :
  /\ p # q /\ ClientOf[p] = ClientOf[q]
  /\ status[p] = "waiting" /\ status[q] = "waiting"
  => p \in exposed
Replied == \A l \in Loops, q \in Queries :
  /\ loop[l] = "replied" /\ held[l] = q
  /\ status[q] = "waiting" /\ q \notin exposed /\ ClientOf[q] \notin closed
  => Queued(q)

Service == Alone /\ Replied /\ WaitingIsServed

(* A request is in one place, and until it is executed there it has been   *)
(* executed no more often than connections were lost.                      *)
Fresh == {"off", "starting", "check", "waiting", "handling"}
OnePlace ==
  /\ \A l \in Loops : held[l] \notin requests
  /\ \A l, k \in Loops : held[l] = held[k] /\ held[l] # Nobody => l = k
  /\ \A q \in Queries : status[q] = "idle"
       => q \notin requests /\ ~InHands(q) /\ executed[q] = 0
  /\ \A q \in requests : executed[q] <= drops
  /\ \A l \in Loops : loop[l] \in Fresh /\ held[l] # Nobody
                        => executed[held[l]] <= drops

Repeats == OnePlace /\ RepeatedOnlyAfterLoss

(* A loop that has taken a request after Stop looks at stop before it      *)
(* takes another.                                                          *)
Prompt == /\ ~stop => \A l \in Loops : afterStop[l] = 0
          /\ \A l \in Loops : afterStop[l] > 0
               => loop[l] \notin {"off", "starting", "waiting"}
          /\ StopIsPrompt
-----------------------------------------------------------------------------
LEMMA SeqFacts ==
  ASSUME NEW s \in Seq(Queries)
  PROVE  /\ Len(s) \in Nat
         /\ \A n \in 1 .. Len(s) : s[n] \in Queries
         /\ DOMAIN s = 1 .. Len(s)
OBVIOUS

LEMMA AppendFacts ==
  ASSUME NEW s \in Seq(Queries), NEW q \in Queries
  PROVE  /\ Append(s, q) \in Seq(Queries)
         /\ Len(Append(s, q)) = Len(s) + 1
         /\ Append(s, q)[Len(s) + 1] = q
         /\ \A n \in 1 .. Len(s) : Append(s, q)[n] = s[n]
BY AppendProperties

LEMMA TailFacts ==
  ASSUME NEW s \in Seq(Queries), s # <<>>
  PROVE  /\ Len(s) > 0
         /\ Head(s) = s[1]
         /\ Tail(s) \in Seq(Queries)
         /\ Len(Tail(s)) = Len(s) - 1
         /\ \A n \in 1 .. Len(s) - 1 : Tail(s)[n] = s[n + 1]
<1>1. /\ Tail(s) \in Seq(Queries)
      /\ Len(Tail(s)) = Len(s) - 1
      /\ \A n \in 1 .. Len(Tail(s)) : Tail(s)[n] = s[n + 1]
  BY HeadTailProperties
<1>2. Len(s) \in Nat \ {0}
  BY EmptySeq
<1>3. Head(s) = s[1]
  BY <1>2
<1> QED
  BY <1>1, <1>2, <1>3

LEMMA InitAnswers == Init => Answers
<1> SUFFICES ASSUME Init PROVE Answers
  OBVIOUS
<1>1. \A c \in Clients : replies[c] = <<>>
  BY DEF Init
<1>2. <<>> \in Seq(Queries) /\ Len(<<>>) = 0
  BY EmptySeq
<1>3. replies \in [Clients -> Seq(Queries)]
  BY <1>2 DEF Init
<1>4. drops \in 0 .. MaxDrops
  BY RpcAssumption DEF Init
<1>5. TypeOK
  <2>1. /\ executed \in [Queries -> Nat]
        /\ afterStop \in [Loops -> Nat]
    BY DEF Init
  <2>2. /\ status \in [Queries -> {"idle", "waiting", "returned", "failed"}]
        /\ answer \in [Queries -> Queries \cup {Nobody}]
        /\ loop \in [Loops -> Running \cup {"off", "ended"}]
        /\ held \in [Loops -> Queries \cup {Nobody}]
    BY DEF Init
  <2> QED
    BY <1>3, <1>4, <2>1, <2>2 DEF Init, TypeOK
<1>6. Handled
  BY <1>1, <1>2 DEF Init, Handled
<1> QED
  BY <1>5, <1>6 DEF Init, Answers, Typed, Handling, OwnAnswer

LEMMA TypeStep == TypeOK /\ Handling /\ [Next]_vars => TypeOK'
<1> SUFFICES ASSUME TypeOK, Handling, [Next]_vars PROVE TypeOK'
  OBVIOUS
<1> USE RpcAssumption
        DEF TypeOK, Running, Goto, ghosts, clientVars, brokerVars, serverVars
<1>1. ASSUME NEW q \in Queries, Ask(q) PROVE TypeOK'
  BY <1>1 DEF Ask, Rivals
<1>2. ASSUME NEW q \in Queries, Take(q) PROVE TypeOK'
  <2> DEFINE c == ClientOf[q]
  <2>1. c \in Clients /\ replies[c] \in Seq(Queries) /\ replies[c] # <<>>
    BY <1>2 DEF Take
  <2>2. /\ replies' = [replies EXCEPT ![c] = Tail(replies[c])]
        /\ UNCHANGED <<closed, requests, declared, serverVars, ghosts>>
        /\ \/ UNCHANGED <<status, answer>>
           \/ /\ status' = [status EXCEPT ![q] = "returned"]
              /\ answer' = [answer EXCEPT ![q] = q]
    BY <1>2 DEF Take
  <2>3. Tail(replies[c]) \in Seq(Queries)
    BY <2>1, TailFacts
  <2>4. replies' \in [Clients -> Seq(Queries)]
    BY <2>1, <2>2, <2>3
  <2>5. status' \in [Queries -> {"idle", "waiting", "returned", "failed"}]
    BY <2>2
  <2>6. answer' \in [Queries -> Queries \cup {Nobody}]
    BY <2>2
  <2> QED
    BY <2>2, <2>4, <2>5, <2>6
<1>3. ASSUME NEW q \in Queries, Abort(q) PROVE TypeOK'
  BY <1>3 DEF Abort
<1>4. ASSUME NEW c \in Clients, Dispose(c) PROVE TypeOK'
  BY <1>4 DEF Dispose
<1>5. ASSUME NEW l \in Loops, Run(l) PROVE TypeOK'
  BY <1>5 DEF Run
<1>6. ASSUME NEW l \in Loops, Open(l) PROVE TypeOK'
  BY <1>6 DEF Open
<1>7. ASSUME NEW l \in Loops, Deliver(l) PROVE TypeOK'
  BY <1>7 DEF Deliver
<1>8. ASSUME NEW l \in Loops, CheckStop(l) PROVE TypeOK'
  <2>1. Requeued(l) \subseteq Queries
    BY DEF Requeued
  <2>2. /\ loop' \in [Loops -> Running \cup {"off", "ended"}]
        /\ held' \in [Loops -> Queries \cup {Nobody}]
        /\ requests' \subseteq Queries
    BY <1>8, <2>1 DEF CheckStop
  <2> QED
    BY <1>8, <2>2 DEF CheckStop
<1>9. ASSUME NEW l \in Loops, Dequeue(l) PROVE TypeOK'
  BY <1>9 DEF Dequeue
<1>10. ASSUME NEW l \in Loops, Execute(l) PROVE TypeOK'
  <2>1. executed' \in [Queries -> Nat]
    BY <1>10 DEF Execute, Handling
  <2>2. loop' \in [Loops -> Running \cup {"off", "ended"}]
    BY <1>10 DEF Execute
  <2> QED
    BY <1>10, <2>1, <2>2 DEF Execute
<1>11. ASSUME NEW l \in Loops, Reply(l) PROVE TypeOK'
  <2> DEFINE c == ClientOf[held[l]]
  <2>1. held[l] \in Queries /\ c \in Clients
    BY <1>11 DEF Reply, Handling
  <2>2. Append(replies[c], held[l]) \in Seq(Queries)
    BY <2>1, AppendFacts
  <2>3. \/ replies' = replies
        \/ replies' = [replies EXCEPT ![c] = Append(replies[c], held[l])]
    BY <1>11 DEF Reply
  <2>4. replies' \in [Clients -> Seq(Queries)]
    <3>1. CASE replies' = replies
      BY <3>1
    <3>2. CASE replies' = [replies EXCEPT ![c] = Append(replies[c], held[l])]
      BY <2>1, <2>2, <3>2
    <3> QED
      BY <2>3, <3>1, <3>2
  <2>5. loop' \in [Loops -> Running \cup {"off", "ended"}]
    BY <1>11 DEF Reply
  <2> QED
    BY <1>11, <2>4, <2>5 DEF Reply
<1>12. ASSUME NEW l \in Loops, Ack(l) PROVE TypeOK'
  BY <1>12 DEF Ack
<1>13. ASSUME NEW l \in Loops, Break(l) PROVE TypeOK'
  BY <1>13 DEF Break, Requeued
<1>14. CASE Stop
  BY <1>14 DEF Stop
<1>15. CASE UNCHANGED vars
  BY <1>15 DEF vars
<1> QED
  BY <1>1, <1>2, <1>3, <1>4, <1>5, <1>6, <1>7, <1>8, <1>9, <1>10, <1>11,
     <1>12, <1>13, <1>14, <1>15 DEF Next, Call, LoopStep

LEMMA HandlingStep == Typed /\ [Next]_vars => Handling'
<1> SUFFICES ASSUME Typed, [Next]_vars PROVE Handling'
  OBVIOUS
<1>1. /\ loop \in [Loops -> Running \cup {"off", "ended"}]
      /\ held \in [Loops -> Queries \cup {Nobody}]
      /\ requests \subseteq Queries
      /\ Handling
  BY DEF Typed, TypeOK
<1> USE DEF Handling, Goto, ghosts, clientVars, brokerVars, serverVars
<1>2. ASSUME NEW l \in Loops, LoopStep(l) PROVE Handling'
  <2>1. CASE Open(l)
    BY <1>1, <2>1 DEF Open
  <2>2. CASE CheckStop(l)
    BY <1>1, <2>2 DEF CheckStop
  <2>3. CASE Dequeue(l)
    BY <1>1, <2>3 DEF Dequeue
  <2>4. CASE Execute(l)
    BY <1>1, <2>4 DEF Execute
  <2>5. CASE Reply(l)
    BY <1>1, <2>5 DEF Reply
  <2>6. CASE Ack(l)
    BY <1>1, <2>6 DEF Ack
  <2> QED
    BY <1>2, <2>1, <2>2, <2>3, <2>4, <2>5, <2>6 DEF LoopStep
<1>3. ASSUME NEW l \in Loops, Run(l) \/ Deliver(l) \/ Break(l) PROVE Handling'
  <2>1. CASE Run(l)
    BY <1>1, <2>1 DEF Run
  <2>2. CASE Deliver(l)
    BY <1>1, <2>2 DEF Deliver
  <2>3. CASE Break(l)
    BY <1>1, <2>3 DEF Break
  <2> QED
    BY <1>3, <2>1, <2>2, <2>3
<1>4. CASE UNCHANGED <<loop, held>>
  BY <1>1, <1>4
<1>5. ASSUME NEW q \in Queries, Ask(q) \/ Call(q) PROVE UNCHANGED <<loop, held>>
  BY <1>5 DEF Ask, Call, Take, Abort
<1>6. ASSUME NEW c \in Clients, Dispose(c) PROVE UNCHANGED <<loop, held>>
  BY <1>6 DEF Dispose
<1>7. ASSUME Stop \/ UNCHANGED vars PROVE UNCHANGED <<loop, held>>
  BY <1>7 DEF Stop, vars
<1> QED
  BY <1>2, <1>3, <1>4, <1>5, <1>6, <1>7 DEF Next

LEMMA AnswersStep == Answers /\ [Next]_vars => Handled' /\ OwnAnswer'
<1> DEFINE Goal == Handled /\ OwnAnswer
<1> SUFFICES ASSUME Answers, [Next]_vars PROVE Goal'
  OBVIOUS
<1>a. /\ status \in [Queries -> {"idle", "waiting", "returned", "failed"}]
      /\ answer \in [Queries -> Queries \cup {Nobody}]
      /\ loop \in [Loops -> Running \cup {"off", "ended"}]
      /\ held \in [Loops -> Queries \cup {Nobody}]
      /\ executed \in [Queries -> Nat]
      /\ ClientOf \in [Queries -> Clients]
      /\ Handling
  BY RpcAssumption DEF Answers, Typed, TypeOK
<1>b. \A c \in Clients : /\ replies[c] \in Seq(Queries)
                         /\ Len(replies[c]) \in Nat
                         /\ \A n \in 1 .. Len(replies[c]) :
                              replies[c][n] \in Queries
  BY SeqFacts DEF Answers, Typed, TypeOK
<1>c. DOMAIN replies = Clients
  BY DEF Answers, Typed, TypeOK
<1>d. Handled /\ OwnAnswer
  BY DEF Answers
<1> USE DEF Goto, ghosts, clientVars, brokerVars, serverVars
<1>1. ASSUME NEW q \in Queries, Ask(q) PROVE Goal'
  BY <1>a, <1>d, <1>1 DEF Ask, Handled, OwnAnswer
<1>2. ASSUME NEW q \in Queries, Take(q) PROVE Goal'
  <2> DEFINE c == ClientOf[q]
  <2>1. c \in Clients /\ replies[c] \in Seq(Queries) /\ replies[c] # <<>>
    BY <1>2, <1>a, <1>b DEF Take
  <2>2. /\ replies' = [replies EXCEPT ![c] = Tail(replies[c])]
        /\ UNCHANGED <<loop, held, executed>>
        /\ \/ UNCHANGED <<status, answer>>
           \/ /\ Head(replies[c]) = q
              /\ status' = [status EXCEPT ![q] = "returned"]
              /\ answer' = [answer EXCEPT ![q] = q]
    BY <1>2 DEF Take
  <2>3. /\ Len(replies[c]) > 0
        /\ Head(replies[c]) = replies[c][1]
        /\ Len(Tail(replies[c])) = Len(replies[c]) - 1
        /\ \A n \in 1 .. Len(replies[c]) - 1 :
             Tail(replies[c])[n] = replies[c][n + 1]
    BY <2>1, TailFacts
  <2>4. ASSUME NEW d \in Clients, NEW n \in 1 .. Len(replies'[d])
        PROVE  executed[replies'[d][n]] > 0
    <3>1. CASE d # c
      BY <1>c, <1>d, <2>2, <2>4, <3>1 DEF Handled
    <3>2. CASE d = c
      <4>1. replies'[d] = Tail(replies[c])
        BY <1>c, <2>1, <2>2, <3>2
      <4>2. n \in 1 .. Len(replies[c]) - 1 /\ n + 1 \in 1 .. Len(replies[c])
        BY <1>b, <2>1, <2>3, <2>4, <4>1
      <4>3. replies'[d][n] = replies[c][n + 1]
        BY <2>3, <4>1, <4>2
      <4> QED
        BY <1>d, <2>1, <4>2, <4>3 DEF Handled
    <3> QED
      BY <3>1, <3>2
  <2>5. Handled'
    BY <1>d, <2>2, <2>4 DEF Handled
  <2>6. Head(replies[c]) = q => executed[q] > 0
    <3>1. 1 \in 1 .. Len(replies[c])
      BY <1>b, <2>1, <2>3
    <3> QED
      BY <1>d, <2>1, <2>3, <3>1 DEF Handled
  <2>7. OwnAnswer'
    BY <1>a, <1>d, <2>2, <2>6 DEF OwnAnswer
  <2> QED
    BY <2>5, <2>7
<1>3. ASSUME NEW q \in Queries, Abort(q) PROVE Goal'
  BY <1>a, <1>d, <1>3 DEF Abort, Handled, OwnAnswer
<1>4. ASSUME NEW l \in Loops, Execute(l) PROVE Goal'
  <2>1. held[l] \in Queries
    BY <1>4, <1>a DEF Execute, Handling
  <2>2. /\ executed' = [executed EXCEPT ![held[l]] = executed[held[l]] + 1]
        /\ UNCHANGED <<status, answer, held, replies>>
        /\ loop' = [loop EXCEPT ![l] = "answering"]
    BY <1>4 DEF Execute
  <2>3. /\ \A q \in Queries : executed[q] > 0 => executed'[q] > 0
        /\ executed'[held[l]] > 0
    BY <1>a, <2>1, <2>2
  <2>4. \A k \in Loops : loop'[k] \in {"answering", "replied"}
                           => executed'[held[k]] > 0
    <3> SUFFICES ASSUME NEW k \in Loops, k # l,
                        loop'[k] \in {"answering", "replied"}
                 PROVE  executed'[held[k]] > 0
      BY <2>3
    <3>1. loop[k] \in {"answering", "replied"}
      BY <1>a, <2>2
    <3> QED
      BY <1>a, <1>d, <2>3, <3>1 DEF Handling, Handled
  <2>5. Handled'
    BY <1>b, <1>d, <2>2, <2>3, <2>4 DEF Handled
  <2>6. OwnAnswer'
    BY <1>d, <2>2, <2>3 DEF OwnAnswer
  <2> QED
    BY <2>5, <2>6
<1>5. ASSUME NEW l \in Loops, Reply(l) PROVE Goal'
  <2> DEFINE c == ClientOf[held[l]]
  <2>1. held[l] \in Queries /\ c \in Clients /\ executed[held[l]] > 0
    BY <1>5, <1>a, <1>d DEF Reply, Handling, Handled
  <2>2. /\ Len(Append(replies[c], held[l])) = Len(replies[c]) + 1
        /\ Append(replies[c], held[l])[Len(replies[c]) + 1] = held[l]
        /\ \A n \in 1 .. Len(replies[c]) :
             Append(replies[c], held[l])[n] = replies[c][n]
    BY <1>b, <2>1, AppendFacts
  <2>3. /\ \/ replies' = replies
           \/ replies' = [replies EXCEPT ![c] = Append(replies[c], held[l])]
        /\ UNCHANGED <<status, answer, held, executed>>
        /\ loop' = [loop EXCEPT ![l] = "replied"]
    BY <1>5 DEF Reply
  <2>4. ASSUME NEW d \in Clients, NEW n \in 1 .. Len(replies'[d])
        PROVE  executed[replies'[d][n]] > 0
    <3>1. CASE replies'[d] = replies[d]
      BY <1>d, <2>4, <3>1 DEF Handled
    <3>2. CASE d = c /\ replies'[c] = Append(replies[c], held[l])
      <4>1. n \in 1 .. Len(replies[c]) \/ n = Len(replies[c]) + 1
        BY <1>b, <2>1, <2>2, <2>4, <3>2
      <4>2. CASE n \in 1 .. Len(replies[c])
        BY <1>d, <2>1, <2>2, <3>2, <4>2 DEF Handled
      <4>3. CASE n = Len(replies[c]) + 1
        BY <2>1, <2>2, <3>2, <4>3
      <4> QED
        BY <4>1, <4>2, <4>3
    <3> QED
      BY <1>c, <2>1, <2>3, <3>1, <3>2
  <2>5. \A k \in Loops : loop'[k] \in {"answering", "replied"}
                           => executed[held[k]] > 0
    BY <1>a, <1>d, <2>1, <2>3 DEF Handled
  <2>6. Handled'
    BY <2>3, <2>4, <2>5 DEF Handled
  <2>7. OwnAnswer'
    BY <1>d, <2>3 DEF OwnAnswer
  <2> QED
    BY <2>6, <2>7
<1>6. CASE /\ \E l \in Loops : Ack(l) \/ Break(l) \/ Deliver(l) \/ CheckStop(l)
                               \/ Run(l) \/ Open(l) \/ Dequeue(l)
           /\ UNCHANGED <<status, answer, executed, replies>>
  <2> SUFFICES ASSUME NEW l \in Loops,
                      Ack(l) \/ Break(l) \/ Deliver(l) \/ CheckStop(l)
                        \/ Run(l) \/ Open(l) \/ Dequeue(l)
               PROVE  \A k \in Loops :
                        loop'[k] \in {"answering", "replied"}
                          => executed[held'[k]] > 0
    BY <1>d, <1>6 DEF Handled, OwnAnswer
  <2>1. \A k \in Loops : loop[k] \in {"answering", "replied"}
                           => executed[held[k]] > 0
    BY <1>d DEF Handled
  <2>2. CASE Ack(l)
    BY <1>a, <2>1, <2>2 DEF Ack
  <2>3. CASE Break(l)
    BY <1>a, <2>1, <2>3 DEF Break
  <2>4. CASE Deliver(l)
    BY <1>a, <2>1, <2>4 DEF Deliver
  <2>5. CASE CheckStop(l)
    BY <1>a, <2>1, <2>5 DEF CheckStop
  <2>6. CASE Run(l)
    BY <1>a, <2>1, <2>6 DEF Run
  <2>7. CASE Open(l)
    BY <1>a, <2>1, <2>7 DEF Open
  <2>8. CASE Dequeue(l)
    BY <1>a, <2>1, <2>8 DEF Dequeue
  <2> QED
    BY <2>2, <2>3, <2>4, <2>5, <2>6, <2>7, <2>8
<1>7. CASE UNCHANGED <<status, answer, executed, replies, loop, held>>
  BY <1>d, <1>7 DEF Handled, OwnAnswer
<1>8. ASSUME NEW c \in Clients, Dispose(c)
      PROVE  UNCHANGED <<status, answer, executed, replies, loop, held>>
  BY <1>8 DEF Dispose
<1>9. ASSUME Stop \/ UNCHANGED vars
      PROVE  UNCHANGED <<status, answer, executed, replies, loop, held>>
  BY <1>9 DEF Stop, vars
<1>10. ASSUME NEW l \in Loops,
              Ack(l) \/ Break(l) \/ Deliver(l) \/ CheckStop(l)
                \/ Run(l) \/ Open(l) \/ Dequeue(l)
       PROVE  UNCHANGED <<status, answer, executed, replies>>
  BY <1>10 DEF Ack, Break, Deliver, CheckStop, Run, Open, Dequeue
<1> HIDE DEF Goal
<1> QED
  BY <1>1, <1>2, <1>3, <1>4, <1>5, <1>6, <1>7, <1>8, <1>9, <1>10
  DEF Next, Call, LoopStep
-----------------------------------------------------------------------------
LEMMA RepeatsStep == Typed /\ Repeats /\ [Next]_vars => Repeats'
<1> SUFFICES ASSUME Typed, Repeats, [Next]_vars PROVE Repeats'
  OBVIOUS
<1>a. /\ status \in [Queries -> {"idle", "waiting", "returned", "failed"}]
      /\ requests \subseteq Queries
      /\ loop \in [Loops -> Running \cup {"off", "ended"}]
      /\ held \in [Loops -> Queries \cup {Nobody}]
      /\ drops \in Nat
      /\ executed \in [Queries -> Nat]
      /\ Nobody \notin Queries
      /\ Handling
      /\ Repeats
  BY RpcAssumption DEF Typed, TypeOK
<1> USE DEF Repeats, OnePlace, RepeatedOnlyAfterLoss, Fresh, InHands, Goto,
            ghosts, clientVars, brokerVars, serverVars
<1>1. ASSUME NEW q \in Queries, Ask(q) PROVE Repeats'
  BY <1>a, <1>1 DEF Ask
<1>2. ASSUME NEW q \in Queries, Call(q) PROVE Repeats'
  <2>1. /\ UNCHANGED <<requests, loop, held, drops, executed>>
        /\ \A p \in Queries : status'[p] = "idle" => status[p] = "idle"
    BY <1>a, <1>2 DEF Call, Take, Abort
  <2> QED
    BY <1>a, <2>1
<1>3. ASSUME NEW l \in Loops, Run(l) PROVE Repeats'
  BY <1>a, <1>3 DEF Run
<1>4. ASSUME NEW l \in Loops, Open(l) PROVE Repeats'
  BY <1>a, <1>4 DEF Open
<1>5. ASSUME NEW l \in Loops, Deliver(l) PROVE Repeats'
  BY <1>a, <1>5 DEF Deliver
<1>6. ASSUME NEW l \in Loops, CheckStop(l) PROVE Repeats'
  <2>1. CASE ~stop /\ Goto(l, "check", "waiting") /\ UNCHANGED <<held, requests>>
    BY <1>a, <1>6, <2>1 DEF CheckStop
  <2>2. CASE /\ stop /\ Goto(l, "check", "ended")
             /\ requests' = Requeued(l)
             /\ held' = [held EXCEPT ![l] = Nobody]
    BY <1>a, <1>6, <2>2 DEF CheckStop, Requeued
  <2> QED
    BY <1>6, <2>1, <2>2 DEF CheckStop
<1>7. ASSUME NEW l \in Loops, Dequeue(l) PROVE Repeats'
  BY <1>a, <1>7 DEF Dequeue
<1>8. ASSUME NEW l \in Loops, Execute(l) PROVE Repeats'
  BY <1>a, <1>8 DEF Execute, Handling
<1>9. ASSUME NEW l \in Loops, Reply(l) PROVE Repeats'
  BY <1>a, <1>9 DEF Reply
<1>10. ASSUME NEW l \in Loops, Ack(l) PROVE Repeats'
  BY <1>a, <1>10 DEF Ack
<1>11. ASSUME NEW l \in Loops, Break(l) PROVE Repeats'
  BY <1>a, <1>11 DEF Break, Requeued
<1>12. CASE UNCHANGED <<status, requests, loop, held, drops, executed>>
  BY <1>a, <1>12
<1>13. ASSUME NEW c \in Clients, Dispose(c)
       PROVE  UNCHANGED <<status, requests, loop, held, drops, executed>>
  BY <1>13 DEF Dispose
<1>14. ASSUME Stop \/ UNCHANGED vars
       PROVE  UNCHANGED <<status, requests, loop, held, drops, executed>>
  BY <1>14 DEF Stop, vars
<1> HIDE DEF Repeats
<1> QED
  BY <1>1, <1>2, <1>3, <1>4, <1>5, <1>6, <1>7, <1>8, <1>9, <1>10, <1>11,
     <1>12, <1>13, <1>14 DEF Next, LoopStep
-----------------------------------------------------------------------------
(* What Take throws away is no reply to a query that somebody promised to  *)
(* answer and that is still waiting.                                       *)
LEMMA TakeKeeps ==
  ASSUME TypeOK, Alone, NEW p \in Queries, Take(p), NEW q \in Queries \ exposed,
         status'[q] = "waiting", Queued(q)
  PROVE  Queued(q)'
<1> DEFINE c == ClientOf[p]
           s == replies[c]
<1>1. /\ c \in Clients /\ s \in Seq(Queries) /\ s # <<>>
      /\ DOMAIN replies = Clients
      /\ replies' = [replies EXCEPT ![c] = Tail(s)]
      /\ status[p] = "waiting"
      /\ status \in [Queries -> {"idle", "waiting", "returned", "failed"}]
      /\ Nobody \notin Queries
  BY RpcAssumption DEF Take, TypeOK
<1>2. Head(s) = p => status'[p] # "waiting"
  BY <1>1 DEF Take
<1>3. status[q] = "waiting"
  BY <1>1 DEF Take
<1>4. CASE ClientOf[q] # c
  <2>1. ClientOf[q] \in Clients
    BY RpcAssumption
  <2>2. replies'[ClientOf[q]] = replies[ClientOf[q]]
    BY <1>1, <1>4, <2>1
  <2> QED
    BY <2>2 DEF Queued
<1>5. CASE ClientOf[q] = c
  <2>1. q = p
    BY <1>1, <1>3, <1>5 DEF Alone
  <2>2. PICK n \in DOMAIN s : s[n] = q
    BY <1>5 DEF Queued
  <2>3. /\ Len(s) \in Nat /\ DOMAIN s = 1 .. Len(s)
        /\ Head(s) = s[1]
        /\ Tail(s) \in Seq(Queries)
        /\ Len(Tail(s)) = Len(s) - 1
        /\ \A m \in 1 .. Len(s) - 1 : Tail(s)[m] = s[m + 1]
    BY <1>1, SeqFacts, TailFacts
  <2>4. n # 1
    BY <1>2, <2>1, <2>2, <2>3
  <2>5. n - 1 \in 1 .. Len(s) - 1
    BY <2>2, <2>3, <2>4
  <2>6. DOMAIN Tail(s) = 1 .. Len(s) - 1
    BY <2>3, SeqFacts
  <2>7. n - 1 \in DOMAIN Tail(s) /\ Tail(s)[n - 1] = q
    BY <2>2, <2>3, <2>5, <2>6
  <2>8. replies'[ClientOf[q]] = Tail(s)
    BY <1>1, <1>5
  <2> HIDE DEF s
  <2> QED
    BY <2>7, <2>8 DEF Queued
<1> QED
  BY <1>4, <1>5

(* Reply puts the reply into the queue of a client that has not closed it, *)
(* and nothing is removed.                                                 *)
LEMMA ReplyKeeps ==
  ASSUME Typed, NEW l \in Loops, Reply(l)
  PROVE  /\ \A q \in Queries : Queued(q) => Queued(q)'
         /\ ClientOf[held[l]] \notin closed => \A q \in Queries :
              q = held[l] => Queued(q)'
<1> DEFINE c == ClientOf[held[l]]
           t == Append(replies[c], held[l])
<1>1. /\ held[l] \in Queries /\ c \in Clients /\ replies[c] \in Seq(Queries)
      /\ DOMAIN replies = Clients
  BY RpcAssumption DEF Typed, TypeOK, Handling, Reply, Goto
<1>2. /\ Len(replies[c]) \in Nat /\ DOMAIN replies[c] = 1 .. Len(replies[c])
      /\ t \in Seq(Queries)
      /\ Len(t) = Len(replies[c]) + 1
      /\ t[Len(replies[c]) + 1] = held[l]
      /\ \A n \in 1 .. Len(replies[c]) : t[n] = replies[c][n]
  BY <1>1, SeqFacts, AppendFacts
<1>3. DOMAIN t = 1 .. Len(replies[c]) + 1
  BY <1>2, SeqFacts
<1>4. replies' = IF c \in closed THEN replies
                 ELSE [replies EXCEPT ![c] = t]
  BY DEF Reply
<1> HIDE DEF t
<1>5. \A d \in Clients : replies'[d] = replies[d] \/ (d = c /\ replies'[d] = t)
  BY <1>1, <1>4
<1>6. ASSUME NEW q \in Queries, Queued(q) PROVE Queued(q)'
  <2>1. PICK n \in DOMAIN replies[ClientOf[q]] : replies[ClientOf[q]][n] = q
    BY <1>6 DEF Queued
  <2>2. ClientOf[q] \in Clients
    BY RpcAssumption
  <2>3. CASE replies'[ClientOf[q]] = replies[ClientOf[q]]
    BY <2>1, <2>3 DEF Queued
  <2>4. CASE ClientOf[q] = c /\ replies'[c] = t
    <3>1. n \in DOMAIN t /\ t[n] = q
      BY <1>2, <1>3, <2>1, <2>4
    <3> QED
      BY <2>4, <3>1 DEF Queued
  <2> QED
    BY <1>5, <2>2, <2>3, <2>4
<1>7. ASSUME c \notin closed, NEW q \in Queries, q = held[l] PROVE Queued(q)'
  <2>1. replies'[ClientOf[q]] = t
    BY <1>1, <1>4, <1>7
  <2>2. Len(replies[c]) + 1 \in DOMAIN t /\ t[Len(replies[c]) + 1] = q
    BY <1>2, <1>3, <1>7
  <2> QED
    BY <2>1, <2>2 DEF Queued
<1> QED
  BY <1>6, <1>7

LEMMA ServiceStep == Typed /\ Repeats /\ Service /\ [Next]_vars => Service'
<1> SUFFICES ASSUME Typed, Repeats, Service, [Next]_vars PROVE Service'
  OBVIOUS
<1>a. /\ status \in [Queries -> {"idle", "waiting", "returned", "failed"}]
      /\ requests \subseteq Queries
      /\ loop \in [Loops -> Running \cup {"off", "ended"}]
      /\ held \in [Loops -> Queries \cup {Nobody}]
      /\ Nobody \notin Queries
      /\ Handling
      /\ Service
      /\ TypeOK
  BY RpcAssumption DEF Typed, TypeOK
<1>b. \A q \in Queries : status[q] = "idle" => ~InHands(q)
  BY DEF Repeats, OnePlace
<1> USE DEF Service, Alone, Replied, WaitingIsServed, InHands, Goto,
            ghosts, clientVars, brokerVars, serverVars
<1>c. replies' = replies => \A q \in Queries : Queued(q)' <=> Queued(q)
  BY DEF Queued
<1>1. ASSUME NEW q \in Queries, Ask(q) PROVE Service'
  BY <1>a, <1>b, <1>c, <1>1 DEF Ask, Rivals
<1>2. ASSUME NEW q \in Queries, Take(q) PROVE Service'
  <2>1. /\ UNCHANGED <<closed, requests, loop, held, exposed>>
        /\ \A p \in Queries : status'[p] = "waiting" => status[p] = "waiting"
    BY <1>a, <1>2 DEF Take
  <2>2. \A p \in Queries \ exposed :
          status'[p] = "waiting" /\ Queued(p) => Queued(p)'
    BY <1>a, <1>2, TakeKeeps
  <2> QED
    BY <1>a, <2>1, <2>2
<1>3. ASSUME NEW q \in Queries, Abort(q) PROVE Service'
  BY <1>a, <1>c, <1>3 DEF Abort
<1>4. ASSUME NEW c \in Clients, Dispose(c) PROVE Service'
  BY <1>a, <1>c, <1>4 DEF Dispose
<1>5. ASSUME NEW l \in Loops, Run(l) \/ Open(l) \/ Dequeue(l) \/ Execute(l)
      PROVE  Service'
  <2>1. /\ UNCHANGED <<status, closed, requests, replies, held, exposed>>
        /\ \A k \in Loops : loop'[k] = "replied" => loop[k] = "replied"
    BY <1>a, <1>5 DEF Run, Open, Dequeue, Execute
  <2> QED
    BY <1>a, <1>c, <2>1
<1>6. ASSUME NEW l \in Loops, Deliver(l) PROVE Service'
  BY <1>a, <1>c, <1>6 DEF Deliver
<1>7. ASSUME NEW l \in Loops, CheckStop(l) PROVE Service'
  <2>1. CASE ~stop /\ Goto(l, "check", "waiting") /\ UNCHANGED <<held, requests>>
    BY <1>a, <1>c, <1>7, <2>1 DEF CheckStop
  <2>2. CASE /\ stop /\ Goto(l, "check", "ended")
             /\ requests' = Requeued(l)
             /\ held' = [held EXCEPT ![l] = Nobody]
    BY <1>a, <1>c, <1>7, <2>2 DEF CheckStop, Requeued
  <2> QED
    BY <1>7, <2>1, <2>2 DEF CheckStop
<1>8. ASSUME NEW l \in Loops, Reply(l) PROVE Service'
  <2>1. /\ UNCHANGED <<status, closed, requests, held, exposed>>
        /\ loop' = [loop EXCEPT ![l] = "replied"]
    BY <1>8 DEF Reply
  <2>2. /\ \A q \in Queries : Queued(q) => Queued(q)'
        /\ ClientOf[held[l]] \notin closed => \A q \in Queries :
             q = held[l] => Queued(q)'
    BY <1>8, ReplyKeeps
  <2> QED
    BY <1>a, <2>1, <2>2
<1>9. ASSUME NEW l \in Loops, Ack(l) PROVE Service'
  BY <1>a, <1>c, <1>9 DEF Ack
<1>10. ASSUME NEW l \in Loops, Break(l) PROVE Service'
  BY <1>a, <1>c, <1>10 DEF Break, Requeued
<1>11. ASSUME Stop \/ UNCHANGED vars PROVE Service'
  BY <1>a, <1>c, <1>11 DEF Stop, vars
<1> HIDE DEF Service
<1> QED
  BY <1>1, <1>2, <1>3, <1>4, <1>5, <1>6, <1>7, <1>8, <1>9, <1>10, <1>11
  DEF Next, Call, LoopStep
-----------------------------------------------------------------------------
LEMMA PromptStep == TypeOK /\ Prompt /\ [Next]_vars => Prompt'
<1> SUFFICES ASSUME TypeOK, Prompt, [Next]_vars PROVE Prompt'
  OBVIOUS
<1>a. /\ loop \in [Loops -> Running \cup {"off", "ended"}]
      /\ afterStop \in [Loops -> Nat]
      /\ stop \in BOOLEAN
      /\ Prompt
  BY DEF TypeOK
<1> USE DEF Prompt, StopIsPrompt, Goto, ghosts, clientVars, brokerVars,
            serverVars
<1>1. ASSUME NEW l \in Loops, Run(l) PROVE Prompt'
  BY <1>a, <1>1 DEF Run
<1>2. ASSUME NEW l \in Loops, Open(l) PROVE Prompt'
  BY <1>a, <1>2 DEF Open
<1>3. ASSUME NEW l \in Loops, CheckStop(l) PROVE Prompt'
  BY <1>a, <1>3 DEF CheckStop
<1>4. ASSUME NEW l \in Loops, Dequeue(l) PROVE Prompt'
  BY <1>a, <1>4 DEF Dequeue
<1>5. ASSUME NEW l \in Loops, Execute(l) \/ Reply(l) \/ Ack(l) PROVE Prompt'
  BY <1>a, <1>5 DEF Execute, Reply, Ack
<1>6. ASSUME NEW l \in Loops, Break(l) PROVE Prompt'
  BY <1>a, <1>6 DEF Break
<1>7. CASE Stop
  BY <1>a, <1>7 DEF Stop
<1>8. CASE UNCHANGED <<loop, afterStop, stop>>
  BY <1>a, <1>8
<1>9. ASSUME NEW q \in Queries, Ask(q) \/ Call(q)
      PROVE  UNCHANGED <<loop, afterStop, stop>>
  BY <1>9 DEF Ask, Call, Take, Abort
<1>10. ASSUME NEW c \in Clients, Dispose(c)
       PROVE  UNCHANGED <<loop, afterStop, stop>>
  BY <1>10 DEF Dispose
<1>11. ASSUME NEW l \in Loops, Deliver(l)
       PROVE  UNCHANGED <<loop, afterStop, stop>>
  BY <1>11 DEF Deliver
<1>12. ASSUME UNCHANGED vars PROVE UNCHANGED <<loop, afterStop, stop>>
  BY <1>12 DEF vars
<1> HIDE DEF Prompt
<1> QED
  BY <1>1, <1>2, <1>3, <1>4, <1>5, <1>6, <1>7, <1>8, <1>9, <1>10, <1>11, <1>12
  DEF Next, LoopStep
-----------------------------------------------------------------------------
LEMMA Answered == Spec => []Answers
<1>1. Answers /\ [Next]_vars => Answers'
  BY TypeStep, HandlingStep, AnswersStep DEF Answers, Typed
<1> QED
  BY InitAnswers, <1>1, PTL DEF Spec

(* Every variable keeps its type; in particular the handler is called and  *)
(* a reply is published only for a request that the loop holds.            *)
THEOREM TypeCorrect == Spec => []TypeOK
<1>1. Answers => TypeOK
  BY DEF Answers, Typed
<1> QED
  BY <1>1, Answered, PTL

(* However many calls share a client and however often servers die and     *)
(* requests are delivered again, Query returns the reply to its own        *)
(* request and never before the handler ran it.                            *)
THEOREM OwnAnswers == Spec => []OwnAnswer
<1>1. Answers => OwnAnswer
  BY DEF Answers
<1> QED
  BY <1>1, Answered, PTL

LEMMA Repeated == Spec => [](Typed /\ Repeats)
<1>1. Init => Repeats
  BY RpcAssumption DEF Init, Repeats, OnePlace, InHands, RepeatedOnlyAfterLoss
<1>2. Answers => Typed
  BY DEF Answers
<1> QED
  BY <1>1, <1>2, RepeatsStep, Answered, PTL DEF Spec

(* A query is executed at most once more than connections are lost, however *)
(* many loops serve the queue.                                             *)
THEOREM Repetitions == Spec => []RepeatedOnlyAfterLoss
<1>1. Repeats => RepeatedOnlyAfterLoss
  BY DEF Repeats
<1> QED
  BY <1>1, Repeated, PTL

(* A query that has its client to itself, and was asked after the request  *)
(* queue existed, is never lost, whatever loops stop or die in between.    *)
THEOREM Served == Spec => []WaitingIsServed
<1>1. Init => Service
  BY DEF Init, Service, Alone, Replied, WaitingIsServed
<1>2. Service => WaitingIsServed
  BY DEF Service
<1> QED
  BY <1>1, <1>2, ServiceStep, Repeated, PTL DEF Spec

(* After Stop every loop takes at most one more request, for any number of *)
(* calls of Run on the server object.                                      *)
THEOREM Promptness == Spec => []StopIsPrompt
<1>1. Init => Prompt
  BY DEF Init, Prompt, StopIsPrompt
<1>2. Prompt => StopIsPrompt
  BY DEF Prompt
<1> QED
  BY <1>1, <1>2, PromptStep, TypeCorrect, PTL DEF Spec
=============================================================================
