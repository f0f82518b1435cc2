-------------------------- MODULE Delivery_proofs --------------------------
(***************************************************************************)
(* Proofs about Delivery: for any messages and any number of connections   *)
(* lost on either side, a message that has reached the queue is not lost   *)
(* before it was processed, and only a connection that the receiver lost   *)
(* repeats one.                                                            *)
(***************************************************************************)
EXTENDS Delivery, TLAPS

LEMMA SetOfNone == ToSet(<<>>) = {}
  BY DEF ToSet

LEMMA SetOfOne == ASSUME NEW m PROVE ToSet(<<m>>) = {m} /\ Head(<<m>>) = m
  BY DEF ToSet

LEMMA SetOfAppend ==
  ASSUME NEW M, NEW s \in Seq(M), NEW m \in M
  PROVE  ToSet(Append(s, m)) = ToSet(s) \cup {m}
PROOF
  <1>1. /\ DOMAIN Append(s, m) = DOMAIN s \cup {Len(s) + 1}
        /\ \A i \in DOMAIN s : Append(s, m)[i] = s[i]
        /\ Append(s, m)[Len(s) + 1] = m
    OBVIOUS
  <1> QED
    BY <1>1 DEF ToSet

LEMMA SetOfTail ==
  ASSUME NEW M, NEW s \in Seq(M), s # <<>>
  PROVE  ToSet(s) = {Head(s)} \cup ToSet(Tail(s))
PROOF
  <1>1. /\ DOMAIN Tail(s) = 1 .. Len(s) - 1 /\ DOMAIN s = 1 .. Len(s)
        /\ Len(s) \in Nat \ {0} /\ Head(s) = s[1]
        /\ \A i \in DOMAIN Tail(s) : Tail(s)[i] = s[i + 1]
    OBVIOUS
  <1>2. \A i \in DOMAIN s : i = 1 \/ (i - 1 \in DOMAIN Tail(s) /\ s[i] = Tail(s)[i - 1])
    BY <1>1
  <1>3. \A i \in DOMAIN Tail(s) : i + 1 \in DOMAIN s
    BY <1>1
  <1>4. 1 \in DOMAIN s
    BY <1>1
  <1> QED
    BY <1>1, <1>2, <1>3, <1>4 DEF ToSet

-----------------------------------------------------------------------------
Shapes ==
  /\ queue \subseteq Messages /\ stuck \subseteq Messages
  /\ travelling \subseteq Messages
  /\ inbox \in Seq(Messages)
  /\ hand = <<>> \/ \E m \in Messages : hand = <<m>>

LEMMA UnackedMessages == Shapes => Unacked \subseteq Messages
PROOF
  <1> SUFFICES ASSUME Shapes PROVE Unacked \subseteq Messages
    OBVIOUS
  <1>1. InboxSet \subseteq Messages
    BY DEF Shapes, InboxSet, ToSet
  <1>2. ToSet(hand) \subseteq Messages
    BY SetOfNone, SetOfOne DEF Shapes
  <1> QED
    BY <1>1, <1>2 DEF Shapes, Unacked

LEMMA ShapesNext ==
  ASSUME Shapes, [Next]_vars
  PROVE  Shapes'
PROOF
  <1> USE DEF Shapes
  <1>1. ASSUME NEW m \in Messages,
               SetupFails(m) \/ Publish(m) \/ PublishThrows(m) \/ Arrive(m)
                 \/ Expire(m)
        PROVE  Shapes'
    BY <1>1 DEF SetupFails, Publish, PublishThrows, Arrive, Expire, wayVars,
                receiverVars
  <1>2. ASSUME NEW m \in Messages, Deliver(m) PROVE Shapes'
    BY <1>2 DEF Deliver, wayVars
  <1>3. CASE Begin
    <2>1. /\ inbox \in Seq(Messages) /\ inbox # <<>>
          /\ inbox' = Tail(inbox) /\ hand' = <<Head(inbox)>>
          /\ UNCHANGED <<queue, stuck, travelling>>
      BY <1>3 DEF Begin, wayVars
    <2>2. Head(inbox) \in Messages /\ Tail(inbox) \in Seq(Messages)
      BY <2>1
    <2> QED
      BY <2>1, <2>2
  <1>4. CASE Throws
    <2>1. ToSet(hand) \subseteq Messages
      BY SetOfNone, SetOfOne
    <2> QED
      BY <1>4, <2>1 DEF Throws, wayVars
  <1>5. CASE Close
    BY <1>5, UnackedMessages DEF Close, wayVars
  <1>6. CASE \/ Setup \/ LoseSender \/ RecoverSender \/ DisposeSender \/ Connect
             \/ Processed \/ Ack \/ UNCHANGED vars
    BY <1>6 DEF Setup, LoseSender, RecoverSender, DisposeSender, Connect,
                Processed, Ack, wayVars, receiverVars, vars
  <1> QED
    BY <1>1, <1>2, <1>3, <1>4, <1>5, <1>6 DEF Next, Lose, Dispose

-----------------------------------------------------------------------------
Held == queue \cup Unacked \cup expired \cup processed

(* Where a published message can be before it is in the queue, and what it *)
(* means that it is not.                                                   *)
OnTheWay ==
  /\ channel = "null" => \A m \in Messages : sent[m] # "ok"
  /\ sent \in [Messages -> {"no", "ok", "failed"}]
  /\ \A m \in Messages :
       sent[m] = "ok" /\ bound => m \in travelling \cup reached \cup cutOff

LEMMA OnTheWayNext ==
  ASSUME OnTheWay, [Next]_vars
  PROVE  OnTheWay'
PROOF
  <1> USE DEF OnTheWay
  <1>1. CASE Setup
    BY <1>1 DEF Setup, wayVars
  <1>2. ASSUME NEW m \in Messages,
               SetupFails(m) \/ PublishThrows(m)
        PROVE  OnTheWay'
    BY <1>2 DEF SetupFails, PublishThrows, wayVars
  <1>3. ASSUME NEW m \in Messages, Publish(m) PROVE OnTheWay'
    BY <1>3 DEF Publish
  <1>4. ASSUME NEW m \in Messages, Arrive(m) PROVE OnTheWay'
    BY <1>4 DEF Arrive, senderVars
  <1>5. CASE LoseSender
    BY <1>5 DEF LoseSender
  <1>6. CASE RecoverSender \/ DisposeSender
    BY <1>6 DEF RecoverSender, DisposeSender, wayVars
  <1>7. CASE \/ \E m \in Messages : Expire(m) \/ Deliver(m)
             \/ Connect \/ Begin \/ Processed \/ Ack \/ Throws \/ Close
             \/ UNCHANGED vars
    <2>1. UNCHANGED <<senderVars, wayVars>>
      BY <1>7 DEF Expire, Deliver, Connect, Begin, Processed, Ack, Throws, Close,
                  vars
    <2> QED
      BY <2>1 DEF senderVars, wayVars
  <1> QED
    BY <1>1, <1>2, <1>3, <1>4, <1>5, <1>6, <1>7 DEF Next, Lose, Dispose

(* Only what was processed is acknowledged. *)
Kept ==
  /\ acked \subseteq processed
  /\ hand # <<>> /\ returned => ToSet(hand) \subseteq processed
  /\ reached \subseteq Held

LEMMA KeptNext ==
  ASSUME Shapes, Kept, [Next]_vars
  PROVE  Kept'
PROOF
  <1> USE DEF Kept
  <1>1. CASE \/ Setup \/ LoseSender \/ RecoverSender \/ DisposeSender \/ Connect
             \/ UNCHANGED vars
             \/ \E m \in Messages : SetupFails(m) \/ Publish(m) \/ PublishThrows(m)
    <2>1. UNCHANGED <<inbox, hand, returned, live, stuck, processed, queue, acked,
                      expired, reached>>
      BY <1>1 DEF Setup, LoseSender, RecoverSender, DisposeSender, Connect,
                  SetupFails, Publish, PublishThrows, vars, wayVars, receiverVars
    <2> QED
      BY <2>1 DEF Held, Unacked, InboxSet
  <1>2. ASSUME NEW m \in Messages, Arrive(m) PROVE Kept'
    <2>1. /\ UNCHANGED <<inbox, hand, returned, live, stuck, processed, acked,
                         expired>>
          /\ \/ queue' = queue \cup {m} /\ reached' = reached \cup {m}
             \/ queue' = queue /\ reached' = reached
      BY <1>2 DEF Arrive, receiverVars
    <2> QED
      BY <2>1 DEF Held, Unacked, InboxSet
  <1>3. ASSUME NEW m \in Messages, Expire(m) PROVE Kept'
    BY <1>3 DEF Expire, wayVars, receiverVars, Held, Unacked, InboxSet
  <1>4. ASSUME NEW m \in Messages, Deliver(m) PROVE Kept'
    <2>1. InboxSet' = InboxSet \cup {m}
      BY <1>4, SetOfAppend DEF Deliver, Shapes, InboxSet
    <2>2. Held \subseteq Held'
      BY <1>4, <2>1 DEF Deliver, Held, Unacked
    <2> QED
      BY <1>4, <2>2 DEF Deliver, wayVars
  <1>5. CASE Begin
    <2>1. InboxSet = {Head(inbox)} \cup InboxSet'
      BY <1>5, SetOfTail DEF Begin, Shapes, InboxSet
    <2>2. live' /\ ~returned' /\ ToSet(hand') = {Head(inbox)} /\ ToSet(hand) = {}
      BY <1>5, SetOfOne, SetOfNone DEF Begin
    <2>3. Held \subseteq Held'
      BY <1>5, <2>1, <2>2 DEF Begin, Held, Unacked
    <2> QED
      BY <1>5, <2>2, <2>3 DEF Begin, wayVars
  <1>6. CASE Processed
    <2>1. Held \subseteq Held' /\ processed' = processed \cup ToSet(hand)
      BY <1>6 DEF Processed, Held, Unacked, InboxSet
    <2> QED
      BY <1>6, <2>1 DEF Processed, wayVars
  <1>7. CASE Ack
    <2>1. acked' \subseteq processed' /\ processed' = processed /\ hand' = <<>>
      BY <1>7 DEF Ack
    <2>2. Held \subseteq Held'
      BY <1>7 DEF Ack, Held, Unacked, InboxSet
    <2> QED
      BY <1>7, <2>1, <2>2 DEF Ack, wayVars
  <1>8. CASE Throws
    <2>1. Held \subseteq Held' /\ hand' = <<>>
      BY <1>8 DEF Throws, Held, Unacked, InboxSet
    <2> QED
      BY <1>8, <2>1 DEF Throws, wayVars
  <1>9. CASE Close
    <2>1. Held \subseteq Held'
      BY <1>9 DEF Close, Held
    <2> QED
      BY <1>9, <2>1 DEF Close, wayVars
  <1> QED
    BY <1>1, <1>2, <1>3, <1>4, <1>5, <1>6, <1>7, <1>8, <1>9
       DEF Next, Lose, Dispose

LEMMA AlwaysShapes == Spec => []Shapes
PROOF
  <1>1. Init => Shapes
    BY DEF Init, Shapes
  <1> QED
    BY <1>1, ShapesNext, PTL DEF Spec

(* A message that has reached the queue is in the broker until Process has *)
(* returned for it or it has expired (Receiver.cs:73); one that was        *)
(* published over a bound channel reaches it unless the sender's           *)
(* connection is lost first (Sender.cs:84).                                *)
THEOREM NotLost == Spec => []KeptUntilProcessed
PROOF
  <1>1. Init => OnTheWay /\ Kept
    BY DEF Init, OnTheWay, Kept
  <1>2. Spec => [](OnTheWay /\ Kept)
    BY <1>1, AlwaysShapes, OnTheWayNext, KeptNext, PTL DEF Spec
  <1>3. OnTheWay /\ Kept => KeptUntilProcessed
    BY DEF OnTheWay, Kept, Held, KeptUntilProcessed
  <1> QED
    BY <1>2, <1>3, PTL
-----------------------------------------------------------------------------
Present == queue \cup InboxSet \cup stuck \cup ToSet(hand)

(* What is not sent or on its way was never in the broker, and never tried. *)
Unseen == {m \in Messages : sent[m] = "no"} \cup travelling

Fresh ==
  /\ \A m \in travelling : m \in Messages /\ sent[m] # "no"
  /\ \A m \in Unseen : m \notin Present /\ tries[m] = 0

(* A message that waits to be delivered or handled has been tried once for *)
(* each lost connection at most, and waits in one place.                   *)
Tried ==
  /\ tries \in [Messages -> Nat] /\ losses \in Nat
  /\ sent \in [Messages -> {"no", "ok", "failed"}]
  /\ receiver \in {"new", "connected", "lost", "disposed"}
  /\ receiver # "disposed" => \A m \in queue : tries[m] <= losses
  /\ \A m \in InboxSet : tries[m] <= losses
  /\ \A i, j \in DOMAIN inbox : inbox[i] = inbox[j] => i = j
  /\ queue \cap InboxSet = {}
  /\ Fresh
  /\ TriedAgainOnlyAfterLoss

LEMMA FreshStep ==
  ASSUME Tried, UNCHANGED <<sent, wayVars>>, Present' \subseteq Present,
         \A m \in Unseen : tries'[m] = tries[m]
  PROVE  Fresh'
  BY DEF Tried, Fresh, Unseen, wayVars

LEMMA TriedStep ==
  ASSUME Tried, UNCHANGED <<tries, losses, receiver, inbox, sent, wayVars>>,
         queue' \subseteq queue, Present' \subseteq Present
  PROVE  Tried'
PROOF
  <1>1. InboxSet' = InboxSet
    BY DEF InboxSet
  <1>2. queue' \cap InboxSet' = {}
    BY <1>1 DEF Tried
  <1>3. Fresh'
    BY FreshStep
  <1> QED
    BY <1>1, <1>2, <1>3 DEF Tried, TriedAgainOnlyAfterLoss

(* The sender's side leaves the broker and the receiver alone. *)
LEMMA TriedSender ==
  ASSUME Tried, UNCHANGED <<receiverVars, queue>>,
         sent' \in [Messages -> {"no", "ok", "failed"}],
         Unseen' \subseteq Unseen,
         \A m \in travelling' : m \in Messages /\ sent'[m] # "no"
  PROVE  Tried'
PROOF
  <1>1. /\ UNCHANGED <<tries, losses, receiver, inbox, stuck, hand, queue>>
        /\ InboxSet' = InboxSet /\ Present' = Present
    BY DEF receiverVars, InboxSet, Present
  <1>2. Fresh'
    BY <1>1 DEF Tried, Fresh
  <1> QED
    BY <1>1, <1>2 DEF Tried, TriedAgainOnlyAfterLoss

LEMMA TriedArrive ==
  ASSUME Tried, NEW m \in Messages, Arrive(m)
  PROVE  Tried'
PROOF
  <1>1. /\ UNCHANGED <<sent, tries, losses, receiver, inbox, stuck, hand>>
        /\ m \in travelling /\ travelling' = travelling \ {m}
        /\ queue' \subseteq queue \cup {m}
        /\ InboxSet' = InboxSet
    BY DEF Arrive, senderVars, receiverVars, InboxSet
  <1>2. sent[m] # "no" /\ m \notin Present /\ tries[m] = 0
    BY <1>1 DEF Tried, Fresh, Unseen
  <1>3. Present' \subseteq Present \cup {m} /\ m \notin InboxSet
    BY <1>1, <1>2 DEF Present
  <1>4. Unseen' \subseteq Unseen /\ m \notin Unseen'
    BY <1>1, <1>2 DEF Unseen
  <1>5. Fresh'
    BY <1>1, <1>3, <1>4 DEF Tried, Fresh
  <1>6. queue' \cap InboxSet' = {}
    BY <1>1, <1>3 DEF Tried
  <1>7. receiver' # "disposed" => \A n \in queue' : tries'[n] <= losses'
    <2>1. tries[m] <= losses
      BY <1>2 DEF Tried
    <2> QED
      BY <1>1, <2>1 DEF Tried
  <1> QED
    BY <1>1, <1>5, <1>6, <1>7 DEF Tried, TriedAgainOnlyAfterLoss

LEMMA TriedClose ==
  ASSUME Shapes, Tried, Close, receiver' \in {"lost", "disposed"},
         losses' \in Nat, losses' >= losses,
         receiver' # "disposed" => losses' = losses + 1
  PROVE  Tried'
PROOF
  <1>1. /\ queue' = queue \cup Unacked /\ inbox' = <<>> /\ stuck' = {}
        /\ UNCHANGED <<sent, wayVars, hand, tries>>
    BY DEF Close, senderVars
  <1>2. InboxSet' = {}
    BY <1>1, SetOfNone DEF InboxSet
  <1>3. Present' \subseteq Present
    BY <1>1, <1>2 DEF Present, Unacked
  <1>4. queue' \subseteq Messages
    BY <1>1, UnackedMessages DEF Shapes
  <1>5. \A m \in Messages : tries[m] \in Nat /\ tries[m] <= 1 + losses
    BY DEF Tried, TriedAgainOnlyAfterLoss
  <1>6. receiver' # "disposed" => \A m \in queue' : tries'[m] <= losses'
    <2>1. ASSUME receiver' # "disposed", NEW m \in queue'
          PROVE  tries'[m] <= losses'
      <3>1. losses \in Nat /\ losses' = losses + 1
        BY <2>1 DEF Tried
      <3> QED
        BY <1>1, <1>4, <1>5, <2>1, <3>1
    <2> QED
      BY <2>1
  <1>7. TriedAgainOnlyAfterLoss'
    <2>1. losses \in Nat
      BY DEF Tried
    <2> QED
      BY <1>1, <1>5, <2>1 DEF TriedAgainOnlyAfterLoss
  <1>8. Fresh'
    BY <1>1, <1>3, FreshStep
  <1>9. \A i, j \in DOMAIN inbox' : inbox'[i] = inbox'[j] => i = j
    BY <1>1
  <1>10. /\ tries' \in [Messages -> Nat]
         /\ sent' \in [Messages -> {"no", "ok", "failed"}]
    BY <1>1 DEF Tried
  <1> QED
    BY <1>2, <1>6, <1>7, <1>8, <1>9, <1>10 DEF Tried

LEMMA TriedDeliver ==
  ASSUME Shapes, Tried, NEW m \in Messages, Deliver(m)
  PROVE  Tried'
PROOF
  <1>1. /\ m \in queue /\ queue' = queue \ {m} /\ inbox' = Append(inbox, m)
        /\ receiver = "connected"
        /\ UNCHANGED <<sent, wayVars, stuck, hand, tries, losses, receiver>>
    BY DEF Deliver, senderVars
  <1>2. inbox \in Seq(Messages)
    BY DEF Shapes
  <1>3. InboxSet' = InboxSet \cup {m}
    BY <1>1, <1>2, SetOfAppend DEF InboxSet
  <1>4. m \notin InboxSet /\ tries[m] <= losses
    BY <1>1 DEF Tried
  <1>5. \A i, j \in DOMAIN inbox' : inbox'[i] = inbox'[j] => i = j
    <2>1. /\ DOMAIN inbox' = DOMAIN inbox \cup {Len(inbox) + 1}
          /\ \A i \in DOMAIN inbox : inbox'[i] = inbox[i]
          /\ inbox'[Len(inbox) + 1] = m
      BY <1>1, <1>2
    <2>2. \A i \in DOMAIN inbox : inbox[i] # m
      BY <1>4 DEF InboxSet, ToSet
    <2> QED
      BY <2>1, <2>2 DEF Tried
  <1>6. queue' \cap InboxSet' = {}
    BY <1>1, <1>3 DEF Tried
  <1>7. Present' \subseteq Present
    BY <1>1, <1>3 DEF Present
  <1>8. Fresh'
    BY <1>1, <1>7, FreshStep
  <1>9. \A n \in InboxSet' : tries'[n] <= losses'
    BY <1>1, <1>3, <1>4 DEF Tried
  <1> QED
    BY <1>1, <1>5, <1>6, <1>8, <1>9 DEF Tried, TriedAgainOnlyAfterLoss

LEMMA TriedBegin ==
  ASSUME Shapes, Tried, Begin
  PROVE  Tried'
PROOF
  <1>1. PICK m : m = Head(inbox)
    OBVIOUS
  <1>2. /\ inbox # <<>> /\ inbox' = Tail(inbox) /\ hand' = <<m>>
        /\ tries' = [tries EXCEPT ![m] = @ + 1]
        /\ UNCHANGED <<sent, wayVars, stuck, queue, losses, receiver>>
    BY <1>1 DEF Begin, senderVars
  <1>3. inbox \in Seq(Messages)
    BY DEF Shapes
  <1>4. InboxSet = {m} \cup InboxSet'
    BY <1>1, <1>2, <1>3, SetOfTail DEF InboxSet
  <1>5. m \in Messages
    BY <1>1, <1>2, <1>3
  <1>6. /\ DOMAIN inbox' = 1 .. Len(inbox) - 1 /\ DOMAIN inbox = 1 .. Len(inbox)
        /\ Len(inbox) \in Nat \ {0} /\ m = inbox[1]
        /\ \A i \in DOMAIN inbox' : inbox'[i] = inbox[i + 1]
    BY <1>1, <1>2, <1>3
  <1>7. \A i, j \in DOMAIN inbox : inbox[i] = inbox[j] => i = j
    BY DEF Tried
  <1>8. \A i, j \in DOMAIN inbox' : inbox'[i] = inbox'[j] => i = j
    BY <1>6, <1>7
  <1>9. \A i \in DOMAIN inbox' : inbox'[i] # m
    BY <1>6, <1>7
  <1>10. m \notin InboxSet'
    BY <1>9 DEF InboxSet, ToSet
  <1>11. m \notin queue /\ tries[m] <= losses
    BY <1>4 DEF Tried
  <1>12. /\ tries' \in [Messages -> Nat]
         /\ tries'[m] = tries[m] + 1
         /\ \A n \in Messages : n # m => tries'[n] = tries[n]
    <2>1. tries \in [Messages -> Nat] /\ tries[m] + 1 \in Nat
      BY <1>5 DEF Tried
    <2> QED
      BY <1>2, <1>5, <2>1
  <1>13. queue \subseteq Messages /\ InboxSet' \subseteq Messages
    BY <1>3, <1>4 DEF Shapes, InboxSet, ToSet
  <1>14. TriedAgainOnlyAfterLoss'
    <2>1. tries'[m] <= 1 + losses'
      BY <1>2, <1>5, <1>11, <1>12 DEF Tried
    <2>2. \A n \in Messages : n # m => tries'[n] <= 1 + losses'
      BY <1>2, <1>12 DEF Tried, TriedAgainOnlyAfterLoss
    <2> QED
      BY <2>1, <2>2 DEF TriedAgainOnlyAfterLoss
  <1>15. receiver' # "disposed" => \A n \in queue' : tries'[n] <= losses'
    BY <1>2, <1>11, <1>12, <1>13 DEF Tried
  <1>16. \A n \in InboxSet' : tries'[n] <= losses'
    BY <1>2, <1>4, <1>10, <1>12, <1>13 DEF Tried
  <1>17. Present' \subseteq Present /\ m \in Present
    BY <1>2, <1>4, SetOfOne DEF Present
  <1>18. Fresh'
    <2>1. Unseen \subseteq Messages /\ m \notin Unseen
      BY <1>17 DEF Tried, Fresh, Unseen
    <2> QED
      BY <1>2, <1>12, <1>17, <2>1, FreshStep
  <1>19. queue' \cap InboxSet' = {}
    BY <1>2, <1>4 DEF Tried
  <1> QED
    BY <1>2, <1>8, <1>12, <1>14, <1>15, <1>16, <1>18, <1>19 DEF Tried

LEMMA TriedNext ==
  ASSUME Shapes, Tried, [Next]_vars
  PROVE  Tried'
PROOF
  <1>1. CASE Setup \/ LoseSender \/ RecoverSender \/ DisposeSender
    <2>1. /\ UNCHANGED <<receiverVars, queue, sent>>
          /\ travelling' \subseteq travelling
      BY <1>1 DEF Setup, LoseSender, RecoverSender, DisposeSender, wayVars
    <2> QED
      BY <2>1, TriedSender DEF Tried, Fresh, Unseen
  <1>2. ASSUME NEW m \in Messages,
               SetupFails(m) \/ Publish(m) \/ PublishThrows(m)
        PROVE  Tried'
    <2>1. /\ UNCHANGED <<receiverVars, queue>> /\ sent[m] = "no"
          /\ \/ sent' = [sent EXCEPT ![m] = "ok"] /\ travelling' = travelling \cup {m}
             \/ sent' = [sent EXCEPT ![m] = "failed"] /\ travelling' = travelling
      BY <1>2 DEF SetupFails, Publish, PublishThrows, wayVars
    <2>2. /\ sent' \in [Messages -> {"no", "ok", "failed"}]
          /\ sent'[m] # "no" /\ \A n \in Messages : n # m => sent'[n] = sent[n]
      BY <2>1 DEF Tried
    <2>3. Unseen' \subseteq Unseen
      BY <2>1, <2>2 DEF Unseen
    <2>4. \A n \in travelling' : n \in Messages /\ sent'[n] # "no"
      BY <2>1, <2>2 DEF Tried, Fresh
    <2> QED
      BY <2>1, <2>2, <2>3, <2>4, TriedSender
  <1>3. ASSUME NEW m \in Messages, Arrive(m) PROVE Tried'
    BY <1>3, TriedArrive
  <1>4. ASSUME NEW m \in Messages, Expire(m) PROVE Tried'
    <2>1. /\ UNCHANGED <<tries, losses, receiver, inbox, stuck, hand, sent, wayVars>>
          /\ queue' \subseteq queue
      BY <1>4 DEF Expire, receiverVars, senderVars
    <2>2. Present' \subseteq Present
      BY <2>1 DEF Present, InboxSet
    <2> QED
      BY <2>1, <2>2, TriedStep
  <1>5. ASSUME NEW m \in Messages, Deliver(m) PROVE Tried'
    BY <1>5, TriedDeliver
  <1>6. CASE Begin
    BY <1>6, TriedBegin
  <1>7. CASE Throws \/ Ack
    <2>1. /\ UNCHANGED <<tries, losses, receiver, inbox, sent, wayVars, queue>>
          /\ stuck' \subseteq stuck \cup ToSet(hand) /\ hand' = <<>>
      BY <1>7 DEF Throws, Ack, senderVars
    <2>2. Present' \subseteq Present
      BY <2>1, SetOfNone DEF Present, InboxSet
    <2> QED
      BY <2>1, <2>2, TriedStep
  <1>8. CASE Lose
    BY <1>8, TriedClose DEF Lose, Tried
  <1>9. CASE Dispose
    BY <1>9, TriedClose DEF Dispose, Tried
  <1>10. CASE Connect
    <2>1. /\ UNCHANGED <<tries, losses, inbox, sent, wayVars, queue, stuck, hand>>
          /\ receiver # "disposed" /\ receiver' = "connected"
      BY <1>10 DEF Connect, senderVars
    <2>2. Present' = Present
      BY <2>1 DEF Present, InboxSet
    <2>3. Fresh'
      BY <2>1, <2>2, FreshStep
    <2> QED
      BY <2>1, <2>3 DEF Tried, InboxSet, TriedAgainOnlyAfterLoss
  <1>11. CASE Processed \/ UNCHANGED vars
    <2>1. UNCHANGED <<tries, losses, receiver, inbox, sent, wayVars, queue, stuck,
                      hand>>
      BY <1>11 DEF Processed, vars, receiverVars, senderVars
    <2>2. Present' = Present
      BY <2>1 DEF Present, InboxSet
    <2> QED
      BY <2>1, <2>2, TriedStep
  <1> QED
    BY <1>1, <1>2, <1>3, <1>4, <1>5, <1>6, <1>7, <1>8, <1>9, <1>10, <1>11 DEF Next

(* Process is called for a message at most once more than the receiver     *)
(* loses connections: an exception (Receiver.cs:76) does not bring it back. *)
THEOREM NoOtherRetry == Spec => []TriedAgainOnlyAfterLoss
PROOF
  <1>1. Init => Tried
    BY SetOfNone DEF Init, Tried, Fresh, Unseen, Present, InboxSet, TriedAgainOnlyAfterLoss
  <1>2. Spec => []Tried
    BY <1>1, AlwaysShapes, TriedNext, PTL DEF Spec
  <1>3. Tried => TriedAgainOnlyAfterLoss
    BY DEF Tried
  <1> QED
    BY <1>2, <1>3, PTL
=============================================================================
