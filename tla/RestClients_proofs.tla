------------------------- MODULE RestClients_proofs -------------------------
(***************************************************************************)
(* Proofs about the REST clients.  For any topic, any number of messages   *)
(* in an answer and any calls of stopConsumer: one GET is in flight at a   *)
(* time, the first error is the end of the reading, the handler gets the   *)
(* messages of a partition in their order and none twice, and misses none  *)
(* without an error but those in an answer that nobody could read.  The    *)
(* scripts together keep to that and handle no command twice.              *)
(***************************************************************************)
EXTENDS RestClients, TLAPS

(* There is one place from which the consumer reads on. *)
Reading ==
  /\ join \in {"none", "asked", "failed", "joined"}
  /\ errors \in Nat
  /\ reads = <<>> \/ \E g : reads = <<g>>
  /\ join # "joined" => reads = <<>>
  /\ join \in {"none", "asked"} => errors = 0
  /\ errors > 0 => reads = <<>>

LEMMA OneGet ==
  ASSUME NEW g, NEW i \in DOMAIN <<g>>
  PROVE  i = 1 /\ <<g>>[i] = g /\ RemoveAt(<<g>>, i) = <<>>
  BY DEF RemoveAt

-----------------------------------------------------------------------------
LEMMA Single ==
  ASSUME Reading, NEW i \in DOMAIN reads
  PROVE  /\ i = 1 /\ reads = <<reads[i]>>
         /\ RemoveAt(reads, i) = <<>>
         /\ ReadNext(i) = <<Asked>>
         /\ join = "joined" /\ errors = 0
PROOF
  <1>1. reads # <<>>
    OBVIOUS
  <1>2. PICK g : reads = <<g>>
    BY <1>1 DEF Reading
  <1>3. i = 1 /\ reads[i] = g /\ RemoveAt(reads, i) = <<>>
    BY <1>2, OneGet
  <1>4. ReadNext(i) = <<Asked>>
    <2>1. Append(<<>>, Asked) = <<Asked>>
      OBVIOUS
    <2> QED
      BY <1>3, <2>1 DEF ReadNext
  <1>5. join = "joined" /\ errors = 0
    BY <1>1 DEF Reading
  <1> QED
    BY <1>2, <1>3, <1>4, <1>5

LEMMA ReadingInit == Init => Reading
  BY DEF Init, Reading

LEMMA ReadingNext ==
  ASSUME Reading, [Next \/ TopicGrows]_vars
  PROVE  Reading'
PROOF
  <1> USE DEF Reading
  <1>1. CASE Consume
    BY <1>1 DEF Consume
  <1>2. CASE Joined
    <2>1. reads = <<>> /\ reads' = <<Asked>>
      BY <1>2 DEF Joined
    <2>2. errors = 0 /\ errors' = 0 /\ join' = "joined"
      BY <1>2 DEF Joined
    <2> QED
      BY <2>1, <2>2
  <1>3. CASE JoinFailed \/ JoinThrows
    BY <1>3 DEF JoinFailed, JoinThrows
  <1>4. CASE StopConsumer
    BY <1>4 DEF StopConsumer
  <1>5. CASE EmitEnd
    BY <1>5 DEF EmitEnd
  <1>6. ASSUME NEW i \in DOMAIN reads, Serve(i)
        PROVE  Reading'
    <2>1. reads = <<reads[1]>> /\ i = 1 /\ join = "joined" /\ errors = 0
      BY Single
    <2>2. PICK g : reads' = [reads EXCEPT ![i] = g]
      BY <1>6 DEF Serve
    <2>3. reads' = <<g>>
      BY <2>1, <2>2
    <2>4. UNCHANGED <<join, errors>>
      BY <1>6 DEF Serve
    <2> QED
      BY <2>1, <2>3, <2>4
  <1>7. ASSUME NEW i \in DOMAIN reads, ReadAnswered(i)
        PROVE  Reading'
    <2>1. /\ reads = <<reads[i]>> /\ join = "joined" /\ errors = 0
          /\ RemoveAt(reads, i) = <<>> /\ ReadNext(i) = <<Asked>>
      BY Single
    <2>3. UNCHANGED join
      BY <1>7 DEF ReadAnswered
    <2>4. CASE Data(i, reads[i])
      BY <2>1, <2>3, <2>4 DEF Data
    <2>5. CASE PushAfterEnd(i, reads[i])
      BY <2>1, <2>3, <2>5 DEF PushAfterEnd, Report
    <2>6. CASE Nothing(i)
      <3>1. errors' = 0 /\ (reads' = <<>> \/ reads' = <<Asked>>)
        BY <2>1, <2>6 DEF Nothing
      <3> QED
        BY <2>1, <2>3, <3>1
    <2> QED
      BY <1>7, <2>4, <2>5, <2>6 DEF ReadAnswered
  <1>8. ASSUME NEW i \in DOMAIN reads,
               ReadUnreadable(i) \/ ReadThrows(i) \/ ReadFailed(i)
        PROVE  Reading'
    <2>1. /\ RemoveAt(reads, i) = <<>> /\ join = "joined" /\ errors = 0
          /\ ReadNext(i) = <<Asked>>
      BY Single
    <2>2. CASE ReadUnreadable(i)
      <3>1. errors' = 0 /\ join' = join /\ (reads' = <<>> \/ reads' = <<Asked>>)
        BY <2>1, <2>2 DEF ReadUnreadable, Nothing
      <3> QED
        BY <2>1, <3>1
    <2>3. CASE ReadThrows(i) \/ ReadFailed(i)
      BY <2>1, <2>3 DEF ReadThrows, ReadFailed, Report
    <2> QED
      BY <1>8, <2>2, <2>3
  <1>9. ASSUME NEW k \in DOMAIN shutdowns, Deleted(k) \/ DeleteFailed(k)
        PROVE  Reading'
    BY <1>9 DEF Deleted, DeleteFailed
  <1>10. CASE TopicGrows \/ UNCHANGED vars
    BY <1>10 DEF TopicGrows, vars, local
  <1> QED
    BY <1>1, <1>2, <1>3, <1>4, <1>5, <1>6, <1>7, <1>8, <1>9, <1>10 DEF Next

LEMMA AlwaysReading == Spec => []Reading
  BY ReadingInit, ReadingNext, PTL DEF Spec

(* Never two GETs in flight, whichever of push, the read callback and the  *)
(* first 'data' listener starts them (my-kafka-helper.js:1848, 1854).      *)
THEOREM OneAtATime == Spec => []OneReadAtATime
PROOF
  <1>1. ASSUME Reading PROVE OneReadAtATime
    <2>1. CASE reads = <<>>
      BY <2>1 DEF OneReadAtATime
    <2>2. ASSUME NEW g, reads = <<g>> PROVE OneReadAtATime
      <3>1. Len(<<g>>) = 1
        OBVIOUS
      <3> QED
        BY <2>2, <3>1 DEF OneReadAtATime
    <2> QED
      BY <1>1, <2>1, <2>2 DEF Reading
  <1> QED
    BY <1>1, AlwaysReading, PTL

(* After one failed read nothing is asked for again (kafkaHelper.js:74).   *)
THEOREM ErrorIsEnd == Spec => []ErrorEndsReading
PROOF
  <1>1. Reading => ErrorEndsReading
    BY DEF Reading, ErrorEndsReading
  <1> QED
    BY <1>1, AlwaysReading, PTL
-----------------------------------------------------------------------------
(* What the handler has got lies below what the group has been given, and  *)
(* below the answer on its way.                                            *)
Below(g) == /\ g.partition \in Partitions
            /\ g.from \in Nat \ {0} /\ g.to \in Nat
            /\ g.to <= position[g.partition]
            /\ \A n \in DOMAIN delivered[g.partition] :
                 delivered[g.partition][n] < g.from

Ordered ==
  /\ position \in [Partitions -> Nat]
  /\ delivered \in [Partitions -> Seq(Nat \ {0})]
  /\ \A p \in Partitions : \A n \in DOMAIN delivered[p] :
       delivered[p][n] <= position[p]
  /\ \A i \in DOMAIN reads : reads[i] # Asked => Below(reads[i])
  /\ InOrderOnce

LEMMA Extended ==
  ASSUME NEW d \in Seq(Nat \ {0}), NEW a \in Nat \ {0}, NEW b \in Nat, NEW c \in Nat,
         a <= b, b <= c,
         \A m \in DOMAIN d : d[m] < a /\ d[m] <= c,
         \A m, n \in DOMAIN d : m < n => d[m] < d[n],
         NEW o, o = [n \in 1 .. b - a + 1 |-> a + n - 1]
  PROVE  /\ d \o o \in Seq(Nat \ {0})
         /\ \A m \in DOMAIN (d \o o) : (d \o o)[m] <= c
         /\ \A m, n \in DOMAIN (d \o o) : m < n => (d \o o)[m] < (d \o o)[n]
PROOF
  <1>1. o \in Seq(Nat \ {0}) /\ Len(o) = b - a + 1
    <2>1. b - a + 1 \in Nat /\ \A n \in 1 .. b - a + 1 : a + n - 1 \in Nat \ {0}
      OBVIOUS
    <2> QED
      BY <2>1
  <1>2. d \o o \in Seq(Nat \ {0}) /\ Len(d \o o) = Len(d) + Len(o)
    BY <1>1
  <1>3. \A m \in 1 .. Len(d) : m \in DOMAIN d /\ (d \o o)[m] = d[m]
    BY <1>1
  <1>4. ASSUME NEW m \in DOMAIN (d \o o), m > Len(d)
        PROVE  (d \o o)[m] = a + (m - Len(d)) - 1 /\ m - Len(d) \in 1 .. b - a + 1
    <2>1. m \in 1 .. Len(d) + Len(o) /\ m - Len(d) \in 1 .. Len(o)
      BY <1>1, <1>2, <1>4
    <2>2. (d \o o)[m] = o[m - Len(d)]
      BY <1>1, <1>4, <2>1
    <2> QED
      BY <1>1, <2>1, <2>2
  <1>5. DOMAIN (d \o o) = 1 .. Len(d) + Len(o) /\ Len(d) \in Nat
    BY <1>1, <1>2
  <1>6. ASSUME NEW m \in DOMAIN (d \o o)
        PROVE  (d \o o)[m] <= c
    <2>1. m \in Nat /\ m >= 1
      BY <1>1, <1>5
    <2>2. CASE m <= Len(d)
      BY <1>3, <1>5, <2>1, <2>2
    <2>3. CASE m > Len(d)
      BY <1>4, <1>5, <2>1, <2>3
    <2> QED
      BY <1>5, <2>1, <2>2, <2>3
  <1>7. ASSUME NEW m \in DOMAIN (d \o o), NEW n \in DOMAIN (d \o o), m < n
        PROVE  (d \o o)[m] < (d \o o)[n]
    <2>1. m \in Nat /\ m >= 1 /\ n \in Nat
      BY <1>1, <1>5
    <2>2. CASE n <= Len(d)
      BY <1>3, <1>5, <1>7, <2>1, <2>2
    <2>3. CASE m <= Len(d) /\ n > Len(d)
      <3>1. (d \o o)[m] < a /\ (d \o o)[m] \in Nat
        BY <1>3, <1>5, <2>1, <2>3
      <3>2. (d \o o)[n] >= a /\ (d \o o)[n] \in Nat
        BY <1>4, <1>5, <2>1, <2>3
      <3>3. \A x, y \in Nat : x < a /\ y >= a => x < y
        OBVIOUS
      <3> QED
        BY <3>1, <3>2, <3>3
    <2>4. CASE m > Len(d)
      BY <1>4, <1>5, <1>7, <2>1, <2>4
    <2> QED
      BY <1>5, <1>7, <2>1, <2>2, <2>3, <2>4
  <1> QED
    BY <1>2, <1>6, <1>7

LEMMA OrderedKept ==
  ASSUME Ordered, UNCHANGED <<position, delivered>>,
         reads' \in {reads, <<>>, <<Asked>>}
  PROVE  Ordered'
PROOF
  <1>1. \A i \in DOMAIN reads' : reads'[i] # Asked => Below(reads[i]) /\ reads'[i] = reads[i]
    <2>1. CASE reads' = reads
      BY <2>1 DEF Ordered
    <2>2. CASE reads' = <<>>
      BY <2>2
    <2>3. CASE reads' = <<Asked>>
      BY <2>3
    <2> QED
      BY <2>1, <2>2, <2>3
  <1> QED
    BY <1>1 DEF Ordered, Below, InOrderOnce

LEMMA OrderedServe ==
  ASSUME Reading, Ordered, NEW i \in DOMAIN reads, Serve(i), MaxBatch \in Nat
  PROVE  Ordered'
PROOF
  <1>1. PICK p \in Partitions, n \in 0 .. MaxBatch :
          /\ position' = [position EXCEPT ![p] = @ + n]
          /\ reads' = [reads EXCEPT ![i] = Given(p, position[p] + 1,
                                                 position[p] + n)]
    BY DEF Serve
  <1>2. reads = <<reads[i]>> /\ i = 1
    BY Single
  <1>3. PICK g : g = Given(p, position[p] + 1, position[p] + n) /\ reads' = <<g>>
    BY <1>1, <1>2
  <1>4. /\ g.partition = p /\ g.from = position[p] + 1
        /\ g.to = position[p] + n
    BY <1>3 DEF Given
  <1>5. delivered' = delivered
    BY DEF Serve
  <1>6. /\ position' \in [Partitions -> Nat]
        /\ position'[p] = position[p] + n
        /\ position[p] \in Nat /\ n \in Nat
        /\ \A q \in Partitions : position[q] <= position'[q]
    BY <1>1 DEF Ordered
  <1>7. \A q \in Partitions : \A m \in DOMAIN delivered[q] :
          delivered[q][m] \in Nat
    BY DEF Ordered
  <1>8. \A q \in Partitions : \A m \in DOMAIN delivered[q] :
          delivered[q][m] <= position'[q]
    BY <1>6, <1>7 DEF Ordered
  <1>9. Below(g)'
    <2>1. \A m \in DOMAIN delivered[p] : delivered[p][m] < position[p] + 1
      BY <1>6, <1>7 DEF Ordered
    <2> QED
      BY <1>1, <1>4, <1>5, <1>6, <2>1 DEF Below
  <1>10. \A k \in DOMAIN reads' : reads'[k] = g
    BY <1>3
  <1> QED
    <2>1. (\A k \in DOMAIN reads : reads[k] # Asked => Below(reads[k]))'
      BY <1>9, <1>10 DEF Below
    <2>2. InOrderOnce'
      BY <1>5 DEF Ordered, InOrderOnce
    <2> QED
      BY <1>5, <1>6, <1>8, <2>1, <2>2 DEF Ordered

LEMMA OrderedData ==
  ASSUME Reading, Ordered, NEW i \in DOMAIN reads, reads[i] # Asked,
         IsBatch(reads[i]), Data(i, reads[i]), UNCHANGED position
  PROVE  Ordered'
PROOF
  <1> DEFINE g == reads[i]
             p == g.partition
  <1>1. reads' = <<Asked>>
    BY Single DEF Data
  <1>2. CASE closed
    BY <1>1, <1>2, OrderedKept DEF Data
  <1>3. CASE ~closed
    <2>1. delivered' = [delivered EXCEPT ![p] = @ \o Offsets(g)]
      BY <1>3 DEF Data
    <2>2. /\ p \in Partitions /\ g.from \in Nat \ {0} /\ g.to \in Nat
          /\ g.to <= position[p] /\ g.from <= g.to
          /\ position[p] \in Nat /\ delivered[p] \in Seq(Nat \ {0})
          /\ \A n \in DOMAIN delivered[p] : delivered[p][n] < g.from
          /\ \A n \in DOMAIN delivered[p] : delivered[p][n] <= position[p]
          /\ \A m, n \in DOMAIN delivered[p] :
               m < n => delivered[p][m] < delivered[p][n]
      BY DEF Ordered, Below, IsBatch, InOrderOnce
    <2>3. Offsets(g) = [n \in 1 .. g.to - g.from + 1 |-> g.from + n - 1]
      BY DEF Offsets
    <2> HIDE DEF g, p
    <2>4. /\ delivered[p] \o Offsets(g) \in Seq(Nat \ {0})
          /\ \A m \in DOMAIN (delivered[p] \o Offsets(g)) :
               (delivered[p] \o Offsets(g))[m] <= position[p]
          /\ \A m, n \in DOMAIN (delivered[p] \o Offsets(g)) :
               m < n => (delivered[p] \o Offsets(g))[m]
                          < (delivered[p] \o Offsets(g))[n]
      BY <2>2, <2>3, Extended
    <2>5. /\ delivered' \in [Partitions -> Seq(Nat \ {0})]
          /\ delivered'[p] = delivered[p] \o Offsets(g)
          /\ \A q \in Partitions : q # p => delivered'[q] = delivered[q]
      BY <2>1, <2>2, <2>4 DEF Ordered
    <2>6. \A q \in Partitions : \A n \in DOMAIN delivered'[q] :
            delivered'[q][n] <= position'[q]
      BY <2>4, <2>5 DEF Ordered
    <2>7. InOrderOnce'
      BY <2>4, <2>5 DEF Ordered, InOrderOnce
    <2>8. \A k \in DOMAIN reads' : reads'[k] = Asked
      BY <1>1
    <2> QED
      BY <2>5, <2>6, <2>7, <2>8 DEF Ordered
  <1> QED
    BY <1>2, <1>3

LEMMA OrderedNext ==
  ASSUME Reading, Ordered, [Next \/ TopicGrows]_vars
  PROVE  Ordered'
PROOF
  <1>1. CASE Consume \/ JoinFailed \/ JoinThrows \/ StopConsumer \/ EmitEnd
    BY <1>1, OrderedKept DEF Consume, JoinFailed, JoinThrows, StopConsumer, EmitEnd
  <1>2. CASE Joined
    <2>1. reads = <<>>
      BY <1>2 DEF Reading, Joined
    <2> QED
      BY <1>2, <2>1, OrderedKept DEF Joined
  <1>3. ASSUME NEW i \in DOMAIN reads, Serve(i) PROVE Ordered'
    BY <1>3, OrderedServe, RestAssumption
  <1>4. ASSUME NEW i \in DOMAIN reads, ReadAnswered(i) PROVE Ordered'
    <2>1. reads[i] # Asked /\ UNCHANGED position
      BY <1>4 DEF ReadAnswered
    <2>2. RemoveAt(reads, i) = <<>> /\ ReadNext(i) = <<Asked>>
      BY Single
    <2>3. CASE IsBatch(reads[i]) /\ Data(i, reads[i])
      BY <2>1, <2>3, OrderedData
    <2>4. CASE PushAfterEnd(i, reads[i])
      BY <2>1, <2>2, <2>4, OrderedKept DEF PushAfterEnd
    <2>5. CASE Nothing(i)
      BY <2>1, <2>2, <2>5, OrderedKept DEF Nothing
    <2> QED
      BY <1>4, <2>3, <2>4, <2>5 DEF ReadAnswered
  <1>5. ASSUME NEW i \in DOMAIN reads,
               ReadUnreadable(i) \/ ReadThrows(i) \/ ReadFailed(i)
        PROVE  Ordered'
    <2>1. RemoveAt(reads, i) = <<>> /\ ReadNext(i) = <<Asked>>
      BY Single
    <2>2. UNCHANGED <<position, delivered>> /\ reads' \in {<<>>, <<Asked>>}
      BY <1>5, <2>1 DEF ReadUnreadable, Nothing, ReadThrows, ReadFailed
    <2> QED
      BY <2>2, OrderedKept
  <1>6. ASSUME NEW k \in DOMAIN shutdowns, Deleted(k) \/ DeleteFailed(k)
        PROVE  Ordered'
    BY <1>6, OrderedKept DEF Deleted, DeleteFailed
  <1>7. CASE TopicGrows \/ UNCHANGED vars
    BY <1>7, OrderedKept DEF TopicGrows, vars, local
  <1> QED
    BY <1>1, <1>2, <1>3, <1>4, <1>5, <1>6, <1>7 DEF Next

LEMMA AlwaysOrdered == Spec => []Ordered
PROOF
  <1>1. Init => Ordered
    BY DEF Init, Ordered, InOrderOnce
  <1> QED
    BY <1>1, AlwaysReading, OrderedNext, PTL DEF Spec

(* The handler gets the messages of a partition in the order of the topic  *)
(* and none twice, whatever fails or is stopped in between                 *)
(* (kafkaHelper.js:69).                                                    *)
THEOREM DeliveredInOrder == Spec => []InOrderOnce
PROOF
  <1>1. Ordered => InOrderOnce
    BY DEF Ordered
  <1> QED
    BY <1>1, AlwaysOrdered, PTL
-----------------------------------------------------------------------------
(* What the group has been given is accounted for. *)
Complete ==
  /\ \A g \in unread : g.partition \in Partitions /\ g.to \in Nat
                       /\ g.to <= position[g.partition]
  /\ LossIsReported
  /\ NoOtherGap

LEMMA NoneOnItsWay ==
  ASSUME NEW p, NEW n
  PROVE  /\ reads = <<>> => ~OnItsWay(p, n)
         /\ reads = <<Asked>> => ~OnItsWay(p, n)
PROOF
  <1>1. ASSUME reads = <<Asked>>, NEW i \in DOMAIN reads PROVE reads[i] = Asked
    BY <1>1
  <1> QED
    BY <1>1 DEF OnItsWay

LEMMA CompleteKept ==
  ASSUME Complete, UNCHANGED <<position, delivered, unread>>,
         errors' = 0 /\ ~closed' =>
           errors = 0 /\ ~closed /\ \A p, n : OnItsWay(p, n) => OnItsWay(p, n)'
  PROVE  Complete'
PROOF
  <1>1. \A p, n : Got(p, n)' = Got(p, n) /\ Unreadable(p, n)' = Unreadable(p, n)
    BY DEF Got, Unreadable
  <1>2. LossIsReported'
    BY <1>1 DEF Complete, LossIsReported
  <1>3. NoOtherGap'
    BY <1>1 DEF Complete, NoOtherGap
  <1> QED
    BY <1>2, <1>3 DEF Complete

LEMMA CompleteServe ==
  ASSUME Reading, Ordered, Complete, NEW i \in DOMAIN reads, Serve(i)
  PROVE  Complete'
PROOF
  <1>1. PICK p \in Partitions, k \in 0 .. MaxBatch :
          /\ position' = [position EXCEPT ![p] = @ + k]
          /\ reads' = [reads EXCEPT ![i] = Given(p, position[p] + 1,
                                                 position[p] + k)]
    BY DEF Serve
  <1>2. reads = <<reads[i]>> /\ i = 1 /\ reads[i] = Asked
    BY Single DEF Serve
  <1>3. PICK g : g = Given(p, position[p] + 1, position[p] + k) /\ reads' = <<g>>
    BY <1>1, <1>2
  <1>4. /\ g.partition = p /\ g.from = position[p] + 1 /\ g.to = position[p] + k
        /\ g # Asked
    BY <1>3 DEF Given, Asked
  <1>5. /\ UNCHANGED <<delivered, unread, errors, closed>>
        /\ k \in Nat /\ position[p] \in Nat
        /\ position' \in [Partitions -> Nat]
        /\ position'[p] = position[p] + k
        /\ \A q \in Partitions : q # p => position'[q] = position[q]
    BY <1>1, RestAssumption DEF Serve, Ordered
  <1>6. \A q, n : Got(q, n)' = Got(q, n) /\ Unreadable(q, n)' = Unreadable(q, n)
    BY <1>5 DEF Got, Unreadable
  <1>7. \A q, n : ~OnItsWay(q, n)
    BY <1>2, NoneOnItsWay
  <1>8. \A n \in position[p] + 1 .. position[p] + k : OnItsWay(p, n)'
    <2>1. 1 \in DOMAIN reads' /\ reads'[1] = g
      BY <1>3
    <2> QED
      BY <1>4, <2>1 DEF OnItsWay, Covers
  <1>9. LossIsReported'
    <2>1. ASSUME errors = 0, ~closed, NEW q \in Partitions, NEW n \in 1 .. position'[q]
          PROVE  Got(q, n)' \/ OnItsWay(q, n)' \/ Unreadable(q, n)'
      <3>1. CASE n \in 1 .. position[q]
        BY <1>6, <1>7, <2>1, <3>1 DEF Complete, LossIsReported
      <3>2. CASE n \notin 1 .. position[q]
        <4>1. q = p
          BY <1>5, <2>1, <3>2
        <4>2. n \in position[p] + 1 .. position[p] + k
          BY <1>5, <2>1, <3>2, <4>1
        <4> QED
          BY <1>8, <4>1, <4>2
      <3> QED
        BY <3>1, <3>2
    <2> QED
      BY <1>5, <2>1 DEF LossIsReported
  <1>10. NoOtherGap'
    BY <1>5, <1>6 DEF Complete, NoOtherGap
  <1>11. \A h \in unread : h.to <= position'[h.partition]
    <2>1. \A q \in Partitions : position[q] \in Nat /\ position'[q] \in Nat
                                /\ position[q] <= position'[q]
      <3>1. ASSUME NEW q \in Partitions
            PROVE  /\ position[q] \in Nat /\ position'[q] \in Nat
                   /\ position[q] <= position'[q]
        <4>1. position[q] \in Nat
          BY DEF Ordered
        <4> QED
          BY <1>5, <4>1
      <3> QED
        BY <3>1
    <2> QED
      BY <2>1 DEF Complete
  <1> QED
    BY <1>5, <1>9, <1>10, <1>11 DEF Complete

(* e has the offsets of d, a .. b and no others. *)
Adds(e, d, a, b) ==
  /\ \A n \in a .. b : \E m \in DOMAIN e : e[m] = n
  /\ \A m \in DOMAIN d : m \in DOMAIN e /\ e[m] = d[m]
  /\ \A m \in DOMAIN e : (m \in DOMAIN d /\ e[m] = d[m]) \/ e[m] \in a .. b

LEMMA GotMore ==
  ASSUME NEW d \in Seq(Nat \ {0}), NEW a \in Nat \ {0}, NEW b \in Nat, a <= b,
         NEW o, o = [n \in 1 .. b - a + 1 |-> a + n - 1]
  PROVE  Adds(d \o o, d, a, b)
PROOF
  <1>1. o \in Seq(Nat \ {0}) /\ Len(o) = b - a + 1 /\ DOMAIN o = 1 .. b - a + 1
    <2>1. b - a + 1 \in Nat /\ \A n \in 1 .. b - a + 1 : a + n - 1 \in Nat \ {0}
      OBVIOUS
    <2> QED
      BY <2>1
  <1>2. /\ DOMAIN (d \o o) = 1 .. Len(d) + Len(o) /\ Len(d) \in Nat
        /\ DOMAIN d = 1 .. Len(d)
        /\ \A m \in 1 .. Len(d) : (d \o o)[m] = d[m]
        /\ \A m \in 1 .. Len(d) + Len(o) : m > Len(d) => (d \o o)[m] = o[m - Len(d)]
    BY <1>1
  <1>3. ASSUME NEW n \in a .. b
        PROVE  \E m \in DOMAIN (d \o o) : (d \o o)[m] = n
    <2>1. n - a + 1 \in 1 .. b - a + 1 /\ o[n - a + 1] = n
      OBVIOUS
    <2>2. Len(d) + (n - a + 1) \in DOMAIN (d \o o)
      BY <1>1, <1>2, <2>1
    <2>3. (d \o o)[Len(d) + (n - a + 1)] = n
      BY <1>1, <1>2, <2>1, <2>2
    <2> QED
      BY <2>2, <2>3
  <1>4. ASSUME NEW m \in DOMAIN (d \o o), m \notin DOMAIN d
        PROVE  (d \o o)[m] \in a .. b
    <2>1. m - Len(d) \in 1 .. b - a + 1 /\ (d \o o)[m] = o[m - Len(d)]
      BY <1>1, <1>2, <1>4
    <2> QED
      BY <2>1
  <1>5. \A m \in DOMAIN d : m \in DOMAIN (d \o o) /\ (d \o o)[m] = d[m]
    <2>1. Len(o) \in Nat /\ \A m \in 1 .. Len(d) : m \in 1 .. Len(d) + Len(o)
      BY <1>1, <1>2
    <2> QED
      BY <1>2, <2>1
  <1> QED
    BY <1>3, <1>4, <1>5 DEF Adds

LEMMA CompleteData ==
  ASSUME Reading, Ordered, Complete, NEW i \in DOMAIN reads, reads[i] # Asked,
         IsBatch(reads[i]), Data(i, reads[i]), UNCHANGED <<position, unread>>,
         ~closed
  PROVE  Complete'
PROOF
  <1>0. PICK g, p, a, b, d, o, e :
          /\ g = reads[i] /\ p = g.partition /\ a = g.from /\ b = g.to
          /\ d = delivered[p] /\ o = Offsets(g) /\ e = d \o o
    OBVIOUS
  <1>1. /\ reads = <<g>> /\ errors = 0
        /\ delivered' = [delivered EXCEPT ![p] = e]
        /\ UNCHANGED <<errors, closed>>
    BY <1>0, Single DEF Data
  <1>2. /\ p \in Partitions /\ a \in Nat \ {0} /\ b \in Nat
        /\ b <= position[p] /\ a <= b
        /\ position[p] \in Nat /\ d \in Seq(Nat \ {0})
        /\ o = [n \in 1 .. b - a + 1 |-> a + n - 1]
    BY <1>0 DEF Ordered, Below, IsBatch, Offsets
  <1>3. \A q, n : OnItsWay(q, n) => q = p /\ n \in a .. b
    <2>1. \A j \in DOMAIN reads : reads[j] = g
      BY <1>1
    <2> QED
      BY <1>0, <2>1 DEF OnItsWay, Covers
  <1>4. Adds(e, d, a, b)
    BY <1>0, <1>2, GotMore
  <1>5. /\ delivered'[p] = e
        /\ \A q \in Partitions : q # p => delivered'[q] = delivered[q]
    BY <1>1, <1>2 DEF Ordered
  <1>6. \A n \in a .. b : Got(p, n)'
    BY <1>4, <1>5 DEF Got, Adds
  <1>7. \A q \in Partitions : \A n : Got(q, n) => Got(q, n)'
    <2>1. \A q \in Partitions : \A m \in DOMAIN delivered[q] :
            m \in DOMAIN delivered'[q] /\ delivered'[q][m] = delivered[q][m]
      <3>1. ASSUME NEW q \in Partitions, NEW m \in DOMAIN delivered[q]
            PROVE  m \in DOMAIN delivered'[q] /\ delivered'[q][m] = delivered[q][m]
        <4>1. CASE q = p
          BY <1>0, <1>4, <1>5, <3>1, <4>1 DEF Adds
        <4>2. CASE q # p
          BY <1>5, <3>1, <4>2
        <4> QED
          BY <4>1, <4>2
      <3> QED
        BY <3>1
    <2> QED
      BY <2>1 DEF Got
  <1>8. \A q, n : Unreadable(q, n)' = Unreadable(q, n)
    BY DEF Unreadable
  <1>9. \A q \in Partitions : \A n \in 1 .. position[q] :
          \/ Got(q, n) \/ Unreadable(q, n)
          \/ q = p /\ n \in a .. b
    BY <1>1, <1>3 DEF Complete, LossIsReported
  <1>10. \A q \in Partitions : \A n \in 1 .. position[q] :
           Got(q, n)' \/ Unreadable(q, n)'
    BY <1>2, <1>6, <1>7, <1>8, <1>9
  <1>11. LossIsReported'
    BY <1>10 DEF LossIsReported
  <1>12. NoOtherGap'
    <2>1. ASSUME NEW q \in Partitions, NEW m \in DOMAIN delivered'[q],
                 NEW n \in 1 .. delivered'[q][m]
          PROVE  Got(q, n)' \/ Unreadable(q, n)'
      <3>1. CASE m \in DOMAIN delivered[q] /\ delivered'[q][m] = delivered[q][m]
        BY <1>7, <1>8, <2>1, <3>1 DEF Complete, NoOtherGap
      <3>2. CASE q = p /\ delivered'[q][m] \in a .. b
        <4>1. n \in 1 .. position[q]
          BY <1>2, <2>1, <3>2
        <4> QED
          BY <1>10, <4>1
      <3>3. CASE q # p
        BY <1>5, <2>1, <3>1, <3>3
      <3>4. CASE q = p
        BY <1>0, <1>4, <1>5, <2>1, <3>1, <3>2, <3>4 DEF Adds
      <3> QED
        BY <3>3, <3>4
    <2> QED
      BY <2>1 DEF NoOtherGap
  <1> QED
    BY <1>11, <1>12 DEF Complete

LEMMA CompleteUnread ==
  ASSUME Reading, Ordered, Complete, NEW i \in DOMAIN reads, LosesBatch(i),
         UNCHANGED <<position, delivered, errors, closed>>
  PROVE  Complete'
PROOF
  <1>1. /\ reads = <<reads[i]>> /\ reads[i] # Asked
        /\ unread' = IF IsBatch(reads[i]) THEN unread \cup {reads[i]} ELSE unread
    BY Single DEF LosesBatch
  <1>2. Below(reads[i])
    BY <1>1 DEF Ordered
  <1>3. \A q, n : OnItsWay(q, n) => Covers(reads[i], q, n) /\ IsBatch(reads[i])
    <2>1. \A j \in DOMAIN reads : reads[j] = reads[i]
      BY <1>1
    <2>2. \A q, n : Covers(reads[i], q, n) => reads[i].from <= reads[i].to
      BY <1>2 DEF Covers, Below
    <2> QED
      BY <1>1, <2>1, <2>2 DEF OnItsWay, IsBatch
  <1>4. \A q, n : Unreadable(q, n) \/ OnItsWay(q, n) => Unreadable(q, n)'
    BY <1>1, <1>3 DEF Unreadable
  <1>5. \A q, n : Got(q, n)' = Got(q, n)
    BY DEF Got
  <1>6. LossIsReported' /\ NoOtherGap'
    BY <1>4, <1>5 DEF Complete, LossIsReported, NoOtherGap
  <1>7. \A g \in unread' : g.partition \in Partitions /\ g.to \in Nat
                           /\ g.to <= position[g.partition]
    BY <1>1, <1>2 DEF Complete, Below
  <1> QED
    BY <1>6, <1>7 DEF Complete

LEMMA CompleteNext ==
  ASSUME Reading, Ordered, Complete, [Next \/ TopicGrows]_vars
  PROVE  Complete'
PROOF
  <1>1. CASE Consume \/ JoinFailed \/ JoinThrows \/ StopConsumer \/ EmitEnd
    <2>1. /\ UNCHANGED <<position, delivered, unread, reads>>
          /\ errors' = 0 /\ ~closed' => errors = 0 /\ ~closed
      <3>1. errors \in Nat
        BY DEF Reading
      <3>2. UNCHANGED errors \/ errors' = errors + 1
        BY <1>1 DEF Consume, JoinFailed, JoinThrows, StopConsumer, EmitEnd
      <3>3. closed => closed'
        BY <1>1 DEF Consume, JoinFailed, JoinThrows, StopConsumer, EmitEnd
      <3>4. UNCHANGED <<position, delivered, unread, reads>>
        BY <1>1 DEF Consume, JoinFailed, JoinThrows, StopConsumer, EmitEnd
      <3>5. errors' = 0 => errors = 0
        BY <3>1, <3>2
      <3> QED
        BY <3>3, <3>4, <3>5
    <2> QED
      BY <2>1, CompleteKept DEF OnItsWay
  <1>2. CASE Joined
    <2>1. /\ UNCHANGED <<position, delivered, unread, errors, closed>>
          /\ reads = <<>>
      BY <1>2 DEF Joined, Reading
    <2> QED
      BY <2>1, NoneOnItsWay, CompleteKept
  <1>3. ASSUME NEW i \in DOMAIN reads, Serve(i) PROVE Complete'
    BY <1>3, CompleteServe
  <1>4. ASSUME NEW i \in DOMAIN reads, ReadAnswered(i) PROVE Complete'
    <2>1. /\ reads[i] # Asked /\ UNCHANGED <<position, unread>>
          /\ reads = <<reads[i]>> /\ errors = 0
      BY <1>4, Single DEF ReadAnswered
    <2>2. CASE IsBatch(reads[i]) /\ Data(i, reads[i])
      <3>1. CASE closed
        BY <2>1, <2>2, <3>1, CompleteKept DEF Data
      <3>2. CASE ~closed
        BY <2>1, <2>2, <3>2, CompleteData
      <3> QED
        BY <3>1, <3>2
    <2>3. CASE PushAfterEnd(i, reads[i])
      BY <2>1, <2>3, CompleteKept DEF PushAfterEnd, Report
    <2>4. CASE ~IsBatch(reads[i]) /\ Nothing(i)
      <3>1. \A q, n : ~OnItsWay(q, n)
        <4>1. \A j \in DOMAIN reads : reads[j] = reads[i]
          BY <2>1
        <4>2. reads[i].from \in Nat /\ reads[i].to \in Nat
          BY <2>1 DEF Ordered, Below
        <4>3. ~(reads[i].from <= reads[i].to)
          BY <2>1, <2>4 DEF IsBatch
        <4> QED
          BY <4>1, <4>2, <4>3 DEF OnItsWay, Covers
      <3> QED
        BY <2>1, <2>4, <3>1, CompleteKept DEF Nothing
    <2> QED
      BY <1>4, <2>2, <2>3, <2>4 DEF ReadAnswered
  <1>5. ASSUME NEW i \in DOMAIN reads, ReadUnreadable(i) \/ ReadThrows(i)
        PROVE  Complete'
    BY <1>5, CompleteUnread DEF ReadUnreadable, Nothing, ReadThrows
  <1>6. ASSUME NEW i \in DOMAIN reads, ReadFailed(i) PROVE Complete'
    <2>1. errors = 0
      BY Single
    <2> QED
      BY <1>6, <2>1, CompleteKept DEF ReadFailed, Report
  <1>7. ASSUME NEW k \in DOMAIN shutdowns, Deleted(k) \/ DeleteFailed(k)
        PROVE  Complete'
    <2>1. UNCHANGED <<position, delivered, unread, reads, errors, closed>>
      BY <1>7 DEF Deleted, DeleteFailed
    <2> QED
      BY <2>1, CompleteKept DEF OnItsWay
  <1>8. CASE TopicGrows \/ UNCHANGED vars
    <2>1. UNCHANGED <<position, delivered, unread, reads, errors, closed>>
      BY <1>8 DEF TopicGrows, vars, local
    <2> QED
      BY <2>1, CompleteKept DEF OnItsWay
  <1> QED
    BY <1>1, <1>2, <1>3, <1>4, <1>5, <1>6, <1>7, <1>8 DEF Next

LEMMA AlwaysComplete == Spec => []Complete
PROOF
  <1>1. Init => Complete
    BY DEF Init, Complete, LossIsReported, NoOtherGap
  <1> QED
    BY <1>1, AlwaysReading, AlwaysOrdered, CompleteNext, PTL DEF Spec

(* Until an error is reported or the observer closed, what the group has   *)
(* been given is handled, on its way, or in an answer below 400 that       *)
(* nobody could read (my-kafka-helper.js:1637).                            *)
THEOREM LostWithAnError == Spec => []LossIsReported
PROOF
  <1>1. Complete => LossIsReported
    BY DEF Complete
  <1> QED
    BY <1>1, AlwaysComplete, PTL

(* The handler skips no message of a partition but those of such answers   *)
(* (my-kafka-helper.js:1843), whatever failed, was stopped or came after   *)
(* the end.                                                                *)
THEOREM GapsAreUnread == Spec => []NoOtherGap
PROOF
  <1>1. Complete => NoOtherGap
    BY DEF Complete
  <1> QED
    BY <1>1, AlwaysComplete, PTL
-----------------------------------------------------------------------------
(* Beside the sender the consumer keeps to its specification: what the     *)
(* sender does to it is that the topic grows.                              *)
THEOREM RunsRestConsumer == ClientsSpec => Spec
PROOF
  <1>1. ClientsInit => Init
    BY DEF ClientsInit
  <1>2. ASSUME ProducerStep PROVE TopicGrows \/ UNCHANGED vars
    <2>1. CASE UNCHANGED log
      BY <1>2, <2>1 DEF ProducerStep, vars
    <2>2. ASSUME NEW s \in Sends, Producer!Arrive(s) PROVE TopicGrows
      <3>1. PICK p \in Producer!Target : log' = [log EXCEPT ![p] = Append(@, s)]
        BY <2>2 DEF Producer!Arrive
      <3>2. p \in Partitions
        BY ProducerAssumption DEF Producer!Target
      <3> QED
        BY <1>2, <3>1, <3>2 DEF ProducerStep, TopicGrows
    <2> QED
      BY <1>2, <2>1, <2>2
         DEF ProducerStep, Producer!Next, Producer!SendCommand,
             Producer!Answered, Producer!Failed
  <1>3. [ClientsNext]_clientsVars => [Next \/ TopicGrows]_vars
    BY <1>2 DEF ClientsNext, ConsumerStep, clientsVars
  <1> QED
    BY <1>1, <1>3, PTL DEF ClientsSpec, Spec

(* A command is in one place of the topic, and the group has been given    *)
(* nothing that is not there.                                              *)
InTopic(s) == \E p \in Partitions : \E n \in DOMAIN log[p] : log[p][n] = s

Stored ==
  /\ log \in [Partitions -> Seq(Sends)]
  /\ send \in [Sends -> {"none", "asked", "ok", "failed"}]
  /\ \A s \in Sends : send[s] = "none" => s \notin arriving /\ ~InTopic(s)
  /\ \A s \in arriving : ~InTopic(s)
  /\ \A p, q \in Partitions : \A m \in DOMAIN log[p], n \in DOMAIN log[q] :
       log[p][m] = log[q][n] => p = q /\ m = n

Placed == /\ position \in [Partitions -> Nat]
          /\ \A p \in Partitions : position[p] <= Len(log[p])

LEMMA Appended ==
  ASSUME Stored, Placed, NEW s \in Sends, NEW p \in Partitions, s \in arriving,
         arriving' = arriving \ {s}, log' = [log EXCEPT ![p] = Append(@, s)],
         UNCHANGED <<send, position>>
  PROVE  Stored' /\ Placed'
PROOF
  <1>1. log[p] \in Seq(Sends)
    BY DEF Stored
  <1>2. /\ Append(log[p], s) \in Seq(Sends)
        /\ Len(Append(log[p], s)) = Len(log[p]) + 1 /\ Len(log[p]) \in Nat
        /\ DOMAIN Append(log[p], s) = DOMAIN log[p] \cup {Len(log[p]) + 1}
        /\ Append(log[p], s)[Len(log[p]) + 1] = s
        /\ \A n \in DOMAIN log[p] : Append(log[p], s)[n] = log[p][n]
    BY <1>1
  <1>3. /\ log' \in [Partitions -> Seq(Sends)]
        /\ log'[p] = Append(log[p], s)
        /\ \A q \in Partitions : q # p => log'[q] = log[q]
    BY <1>2 DEF Stored
  <1> DEFINE new(q, n) == q = p /\ n = Len(log[p]) + 1
  <1>4. \A q \in Partitions : \A n \in DOMAIN log'[q] :
          \/ new(q, n) /\ log'[q][n] = s
          \/ n \in DOMAIN log[q] /\ log'[q][n] = log[q][n]
    BY <1>2, <1>3
  <1>5. \A q \in Partitions : \A n \in DOMAIN log[q] : log[q][n] # s
    BY DEF Stored, InTopic
  <1>6. \A q, r \in Partitions : \A m \in DOMAIN log'[q], n \in DOMAIN log'[r] :
          log'[q][m] = log'[r][n] => q = r /\ m = n
    <2>1. ASSUME NEW q \in Partitions, NEW r \in Partitions,
                 NEW m \in DOMAIN log'[q], NEW n \in DOMAIN log'[r],
                 log'[q][m] = log'[r][n]
          PROVE  q = r /\ m = n
      <3>1. CASE new(q, m) /\ new(r, n)
        BY <3>1
      <3>2. CASE m \in DOMAIN log[q] /\ log'[q][m] = log[q][m]
                 /\ n \in DOMAIN log[r] /\ log'[r][n] = log[r][n]
        BY <2>1, <3>2 DEF Stored
      <3> HIDE DEF new
      <3> QED
        BY <1>4, <1>5, <2>1, <3>1, <3>2
    <2> QED
      BY <2>1
  <1>7. \A t : InTopic(t)' => InTopic(t) \/ t = s
    BY <1>4 DEF InTopic
  <1>8. Stored'
    BY <1>3, <1>6, <1>7 DEF Stored
  <1>9. Placed'
    <2>1. \A q \in Partitions : Len(log'[q]) >= Len(log[q]) /\ Len(log[q]) \in Nat
      BY <1>2, <1>3 DEF Stored
    <2>2. Len(log'[p]) \in Nat /\ \A q \in Partitions : Len(log'[q]) \in Nat
      BY <1>3
    <2> QED
      BY <2>1, <2>2 DEF Placed
  <1> QED
    BY <1>8, <1>9

LEMMA StoredNext ==
  ASSUME Stored, Placed, [ClientsNext]_clientsVars
  PROVE  Stored' /\ Placed'
PROOF
  <1>1. ASSUME UNCHANGED <<log, arriving, send>> PROVE Stored'
    BY <1>1 DEF Stored, InTopic
  <1>2. ASSUME UNCHANGED <<log, position>> PROVE Placed'
    BY <1>2 DEF Placed
  <1>3. CASE ConsumerStep
    <2>1. UNCHANGED <<arriving, send>>
      BY <1>3 DEF ConsumerStep, producerVars
    <2>2. ASSUME NEW i \in DOMAIN reads, Serve(i) PROVE Stored' /\ Placed'
      <3>1. PICK p \in Partitions, n \in 0 .. MaxBatch :
              /\ position[p] + n <= Len(log[p])
              /\ position' = [position EXCEPT ![p] = @ + n]
        BY <2>2 DEF Serve
      <3>2. n \in Nat
        BY RestAssumption
      <3>3. UNCHANGED log
        BY <2>2 DEF Serve
      <3>4. /\ position' \in [Partitions -> Nat]
            /\ position'[p] = position[p] + n
            /\ \A q \in Partitions : q # p => position'[q] = position[q]
        BY <3>1, <3>2 DEF Placed
      <3>5. Placed'
        BY <3>1, <3>3, <3>4 DEF Placed
      <3> QED
        BY <1>1, <2>1, <3>3, <3>5
    <2>3. CASE UNCHANGED <<log, position>>
      BY <1>1, <1>2, <2>1, <2>3
    <2>4. ASSUME \A i \in DOMAIN reads : ~Serve(i)
          PROVE  UNCHANGED <<log, position>>
      BY <1>3, <2>4
         DEF ConsumerStep, Next, Consume, Joined, JoinFailed, JoinThrows,
             StopConsumer, EmitEnd, ReadAnswered, ReadUnreadable, ReadThrows,
             ReadFailed, Deleted, DeleteFailed
    <2> QED
      BY <2>2, <2>3, <2>4
  <1>4. CASE ProducerStep
    <2>1. UNCHANGED position
      BY <1>4 DEF ProducerStep
    <2>2. ASSUME NEW s \in Sends, Producer!SendCommand(s)
          PROVE  Stored' /\ Placed'
      <3>1. /\ send[s] = "none" /\ send' = [send EXCEPT ![s] = "asked"]
            /\ arriving' = arriving \cup {s} /\ UNCHANGED log
        BY <2>2 DEF Producer!SendCommand
      <3>2. \A t : InTopic(t)' = InTopic(t)
        BY <3>1 DEF InTopic
      <3>3. Stored'
        BY <3>1, <3>2 DEF Stored
      <3> QED
        BY <1>2, <2>1, <3>1, <3>3
    <2>3. ASSUME NEW s \in Sends, Producer!Arrive(s) PROVE Stored' /\ Placed'
      <3>1. PICK p \in Producer!Target : log' = [log EXCEPT ![p] = Append(@, s)]
        BY <2>3 DEF Producer!Arrive
      <3>2. p \in Partitions
        BY ProducerAssumption DEF Producer!Target
      <3> QED
        BY <2>1, <2>3, <3>1, <3>2, Appended DEF Producer!Arrive
    <2>4. ASSUME NEW s \in Sends, Producer!Answered(s) \/ Producer!Failed(s)
          PROVE  Stored' /\ Placed'
      <3>1. /\ \/ send' = [send EXCEPT ![s] = "ok"]
               \/ send' = [send EXCEPT ![s] = "failed"]
            /\ arriving' \subseteq arriving /\ UNCHANGED log
        BY <2>4 DEF Producer!Answered, Producer!Failed
      <3>2. \A t : InTopic(t)' = InTopic(t)
        BY <3>1 DEF InTopic
      <3>3. Stored'
        BY <3>1, <3>2 DEF Stored
      <3> QED
        BY <1>2, <2>1, <3>1, <3>3
    <2> QED
      BY <1>4, <2>2, <2>3, <2>4 DEF ProducerStep, Producer!Next
  <1>5. CASE UNCHANGED clientsVars
    BY <1>1, <1>2, <1>5 DEF clientsVars, vars, producerVars
  <1> QED
    BY <1>3, <1>4, <1>5 DEF ClientsNext

(* A command is handled once at most, over all partitions: a post given up *)
(* by its sender (my-kafka-helper.js:1590) is still one post, and what was *)
(* read is not read again.                                                 *)
THEOREM HandledOnce == ClientsSpec => []CommandHandledOnce
PROOF
  <1>1. ClientsInit => Stored /\ Placed
    BY DEF ClientsInit, Init, Producer!Init, Stored, Placed, InTopic
  <1>2. ClientsSpec => [](Stored /\ Placed)
    BY <1>1, StoredNext, PTL DEF ClientsSpec
  <1>3. ASSUME Stored, Placed, Ordered PROVE CommandHandledOnce
    <2>1. \A p \in Partitions : \A n \in DOMAIN delivered[p] :
            delivered[p][n] \in DOMAIN log[p]
      <3>1. ASSUME NEW p \in Partitions, NEW n \in DOMAIN delivered[p]
            PROVE  delivered[p][n] \in DOMAIN log[p]
        <4>1. /\ delivered[p][n] \in Nat \ {0}
              /\ delivered[p][n] <= position[p] /\ position[p] \in Nat
              /\ position[p] <= Len(log[p])
          BY <1>3 DEF Ordered, Placed
        <4>2. DOMAIN log[p] = 1 .. Len(log[p]) /\ Len(log[p]) \in Nat
          BY <1>3 DEF Stored
        <4> QED
          BY <4>1, <4>2
      <3> QED
        BY <3>1
    <2>2. \A p \in Partitions : \A m, n \in DOMAIN delivered[p] :
            delivered[p][m] = delivered[p][n] => m = n
      <3>1. ASSUME NEW p \in Partitions, NEW m \in DOMAIN delivered[p],
                   NEW n \in DOMAIN delivered[p],
                   delivered[p][m] = delivered[p][n]
            PROVE  m = n
        <4>1. /\ m < n => delivered[p][m] < delivered[p][n]
              /\ n < m => delivered[p][n] < delivered[p][m]
          BY <1>3 DEF Ordered, InOrderOnce
        <4>2. m \in Nat /\ n \in Nat /\ delivered[p][m] \in Nat
          BY <1>3 DEF Ordered
        <4> QED
          BY <3>1, <4>1, <4>2
      <3> QED
        BY <3>1
    <2> QED
      BY <1>3, <2>1, <2>2 DEF Stored, CommandHandledOnce
  <1> QED
    BY <1>2, <1>3, RunsRestConsumer, AlwaysOrdered, PTL

-----------------------------------------------------------------------------
(* The flags and the calls of shutdown; what TypeOK says of the topic, the *)
(* position and the reads follows from the invariants above.               *)
Shutdown == [by : {"stop", "error"}, state : {"waiting", "deleting", "called"}]

Flags ==
  /\ style \in {"callbacks", "observable"}
  /\ registered \in BOOLEAN /\ active \in BOOLEAN /\ reading \in BOOLEAN
  /\ ended \in BOOLEAN /\ endEmitted \in BOOLEAN /\ closed \in BOOLEAN
  /\ crashed \in BOOLEAN
  /\ shutdowns \in Seq(Shutdown)

LEMMA Reported == ASSUME Flags, Report
                  PROVE  /\ active' \in BOOLEAN /\ closed' \in BOOLEAN
                         /\ shutdowns' \in Seq(Shutdown)
PROOF
  <1>1. Call("error") \in Shutdown
    BY DEF Call, Shutdown
  <1>2. shutdowns \in Seq(Shutdown)
    BY DEF Flags
  <1>3. shutdowns' \in Seq(Shutdown)
    BY <1>1, <1>2 DEF Report
  <1> QED
    BY <1>3 DEF Report, Flags

LEMMA Advanced ==
  ASSUME Flags, NEW k \in DOMAIN shutdowns,
         NEW a \in {"waiting", "deleting", "called"}
  PROVE  [shutdowns[k] EXCEPT !.state = a] \in Shutdown
PROOF
  <1>1. shutdowns[k] \in Shutdown
    BY DEF Flags
  <1> QED
    BY <1>1 DEF Shutdown

LEMMA FlagsNext ==
  ASSUME Flags, [Next \/ TopicGrows]_vars
  PROVE  Flags'
PROOF
  <1>1. CASE Consume \/ Joined \/ JoinFailed \/ JoinThrows
    BY <1>1 DEF Consume, Joined, JoinFailed, JoinThrows, stream, Flags
  <1>2. CASE StopConsumer
    <2>1. Call("stop") \in Shutdown
      BY DEF Call, Shutdown
    <2>2. \/ shutdowns' = Append(shutdowns, Call("stop")) /\ active' = FALSE
          \/ UNCHANGED <<shutdowns, active>>
      BY <1>2 DEF StopConsumer
    <2>3. shutdowns \in Seq(Shutdown) /\ active \in BOOLEAN
      BY DEF Flags
    <2>4. CASE shutdowns' = Append(shutdowns, Call("stop")) /\ active' = FALSE
      <3>1. shutdowns' \in Seq(Shutdown)
        BY <2>1, <2>3, <2>4
      <3> QED
        BY <1>2, <2>4, <3>1 DEF StopConsumer, Flags
    <2>5. CASE UNCHANGED <<shutdowns, active>>
      BY <1>2, <2>3, <2>5 DEF StopConsumer, Flags
    <2> QED
      BY <2>2, <2>4, <2>5
  <1>3. CASE EmitEnd
    <2>1. \A k \in DOMAIN shutdowns :
            [shutdowns[k] EXCEPT !.state = "deleting"] \in Shutdown
      BY Advanced
    <2>2. shutdowns' \in Seq(Shutdown)
      <3>1. /\ Len(shutdowns) \in Nat
            /\ DOMAIN shutdowns = 1 .. Len(shutdowns)
        BY DEF Flags
      <3>2. shutdowns' \in [1 .. Len(shutdowns) -> Shutdown]
        BY <1>3, <2>1, <3>1 DEF EmitEnd
      <3> QED
        BY <3>1, <3>2
    <2> QED
      BY <1>3, <2>2 DEF EmitEnd, Flags
  <1>4. ASSUME NEW i \in DOMAIN reads, Serve(i) PROVE Flags'
    BY <1>4 DEF Serve, stream, Flags
  <1>5. ASSUME NEW i \in DOMAIN reads, ReadAnswered(i) PROVE Flags'
    <2>1. UNCHANGED <<style, registered, endEmitted, crashed>>
      BY <1>5 DEF ReadAnswered
    <2>2. CASE Data(i, reads[i]) \/ Nothing(i)
      BY <2>1, <2>2 DEF Data, Nothing, Finish, Flags
    <2>3. CASE PushAfterEnd(i, reads[i])
      <3>1. ended' \in BOOLEAN /\ reading' \in BOOLEAN
        BY <2>3 DEF PushAfterEnd, Finish, Flags
      <3> QED
        BY <2>1, <2>3, <3>1, Reported DEF PushAfterEnd, Flags
    <2> QED
      BY <1>5, <2>2, <2>3 DEF ReadAnswered
  <1>6. ASSUME NEW i \in DOMAIN reads,
               ReadUnreadable(i) \/ ReadThrows(i) \/ ReadFailed(i)
        PROVE  Flags'
    <2>1. CASE ReadUnreadable(i)
      BY <2>1 DEF ReadUnreadable, Nothing, Finish, Flags
    <2>2. CASE ReadThrows(i)
      BY <2>2 DEF ReadThrows, stream, Flags
    <2>3. CASE ReadFailed(i)
      BY <2>3, Reported DEF ReadFailed, Flags
    <2> QED
      BY <1>6, <2>1, <2>2, <2>3
  <1>7. ASSUME NEW k \in DOMAIN shutdowns, Deleted(k) \/ DeleteFailed(k)
        PROVE  Flags'
    <2>1. [shutdowns[k] EXCEPT !.state = "called"] \in Shutdown
      BY <1>7, Advanced
    <2>2. /\ shutdowns \in Seq(Shutdown)
          /\ shutdowns' = [shutdowns EXCEPT ![k] =
                             [shutdowns[k] EXCEPT !.state = "called"]]
      BY <1>7 DEF Deleted, DeleteFailed, CalledBack, Flags
    <2>3. shutdowns' \in Seq(Shutdown)
      BY <2>1, <2>2
    <2>4. crashed' \in BOOLEAN
      BY <1>7 DEF Deleted, DeleteFailed, Flags
    <2>5. registered' \in BOOLEAN
      BY <1>7 DEF Deleted, DeleteFailed
    <2> QED
      BY <1>7, <2>3, <2>4, <2>5 DEF Deleted, DeleteFailed, stream, Flags
  <1>8. CASE TopicGrows \/ UNCHANGED vars
    BY <1>8 DEF TopicGrows, vars, local, stream, Flags
  <1> QED
    BY <1>1, <1>2, <1>3, <1>4, <1>5, <1>6, <1>7, <1>8 DEF Next

(* The proxy's group is never given an offset the topic does not have, and *)
(* no answer holds one the group was not given (kafkaHelper.js:60).        *)
THEOREM ConsumerTypeCorrect == ClientsSpec => []TypeOK
PROOF
  <1>1. Init => Flags
    <2>1. <<>> \in Seq(Shutdown)
      OBVIOUS
    <2> QED
      BY <2>1 DEF Init, Flags
  <1>2. Spec => []Flags
    BY <1>1, FlagsNext, PTL DEF Spec
  <1>3. ClientsInit => Stored /\ Placed
    BY DEF ClientsInit, Init, Producer!Init, Stored, Placed, InTopic
  <1>4. ClientsSpec => [](Stored /\ Placed)
    BY <1>3, StoredNext, PTL DEF ClientsSpec
  <1>5. ASSUME Flags, Placed, Ordered, Complete, Reading PROVE TypeOK
    <2>1. \A k \in DOMAIN shutdowns : shutdowns[k] \in Shutdown
      BY <1>5 DEF Flags
    <2>2. \A i \in DOMAIN reads :
            reads[i] = Asked \/ reads[i].to <= position[reads[i].partition]
      BY <1>5 DEF Ordered, Below
    <2>3. \A g \in unread : g.to <= position[g.partition]
      BY <1>5 DEF Complete
    <2> QED
      BY <1>5, <2>1, <2>2, <2>3 DEF TypeOK, Flags, Placed, Reading, Shutdown
  <1> QED
    BY <1>2, <1>4, <1>5, RunsRestConsumer, AlwaysOrdered, AlwaysComplete,
       AlwaysReading, PTL
=============================================================================
