-------------------------- MODULE EventStore_proofs --------------------------
(***************************************************************************)
(* Proofs about the event store, for any number of requests, aggregates    *)
(* and versions: type correctness, and the guarantee for lists on which    *)
(* no two Saves overlapped.                                                *)
(*                                                                         *)
(* The guarantee is not inductive: it says nothing of a Save between its   *)
(* version check and its write.  The invariant adds that an untainted list *)
(* has at most one such Save, and that the version this Save was checked   *)
(* against, and the slot it read, still fit the size of the list.          *)
(***************************************************************************)
EXTENDS EventStoreLog, FiniteSetTheorems, TLAPS

(* A list is known to the dictionary and to calls only once it was opened, *)
(* and until then it is empty.                                             *)
Opened(l) == l \in Requests /\ target[l] = l

Refs ==
  /\ \A k \in Slots : current[k] # NoRequest => Opened(current[k])
  /\ \A r \in Requests : target[r] # NoRequest => Opened(target[r])
  /\ \A r \in Requests :
       target[r] = NoRequest
         <=> stage[r] \in {"idle", "saving", "opening", "rejected", "lost"}
  /\ \A r \in Requests : stage[r] = "inserting" => target[r] = r
  /\ \A l \in Requests : ~Opened(l) => size[l] = 0 /\ l \notin tainted

Writes(r, l) == target[r] = l /\ stage[r] \in Writing
Fills(r, l)  == target[r] = l /\ stage[r] = "bumped"

OneWriter(l) ==
  \A r, s \in Requests : Writes(r, l) /\ Writes(s, l) => r = s

(* A writer was checked against the last version, and its slot is the next *)
(* one (the last one, once it has been counted).                           *)
WriterFits(l) ==
  \A r \in Requests : Writes(r, l) =>
    /\ stage[r] # "bumped" => call[r].expected = call[l].expected + size[l]
    /\ stage[r] = "adding" => slot[r] = size[l]
    /\ stage[r] = "bumped" => /\ size[l] = slot[r] + 1
                              /\ call[r].expected = call[l].expected + slot[r]

(* The slots below the size hold consecutive versions, but for the one a   *)
(* writer has counted and not filled.                                      *)
Numbered(l) ==
  \A k \in Slots :
    k < size[l] /\ (\A s \in Requests : Fills(s, l) => slot[s] # k)
      => /\ items[l][k].req # NoRequest
         /\ items[l][k].version = call[l].expected + k + 1

Kept(l) ==
  \A r \in Accepted : target[r] = l =>
    /\ slot[r] < size[l]
    /\ \A s \in Requests : Fills(s, l) => slot[s] # slot[r]
    /\ items[l][slot[r]] = [req |-> r, version |-> call[r].expected + 1]

Sound(l) == OneWriter(l) /\ WriterFits(l) /\ Numbered(l) /\ Kept(l)

Base == TypeOK /\ Refs
Safe == \A l \in Requests : Opened(l) /\ l \notin tainted => Sound(l)
IInv == Base /\ Safe
-----------------------------------------------------------------------------
LEMMA SlotFacts == /\ 0 \in Slots /\ 0 \in 0 .. Capacity
                   /\ \A k \in Slots : k \in Nat /\ k + 1 \in 0 .. Capacity
                   /\ \A n \in 0 .. Capacity : n < Capacity => n \in Slots
BY StoreAssumption DEF Slots

LEMMA InitBase == Init => Base
<1> SUFFICES ASSUME Init PROVE Base
  OBVIOUS
<1> USE StoreAssumption, SlotFacts DEF Init
<1>1. NoCall \in Call
  BY DEF NoCall, Call
<1>2. Blank \in Descriptor
  BY DEF Blank, Descriptor, ListRefs
<1>3. items \in [Requests -> [Slots -> Descriptor]]
  BY <1>2
<1>4. TypeOK
  BY <1>1, <1>3 DEF TypeOK, Stages, ListRefs
<1>5. Refs
  BY DEF Refs, Opened
<1> QED
  BY <1>4, <1>5 DEF Base

(* The lists that steps touch are lists: a call past the check has one. *)
LEMMA TargetIsList ==
  ASSUME Base, NEW r \in Requests,
         stage[r] \notin {"idle", "saving", "opening", "rejected", "lost"}
  PROVE  target[r] \in Requests /\ Opened(target[r])
BY DEF Base, TypeOK, Refs, Opened, ListRefs

LEMMA StepBase == Base /\ [Next]_vars => Base'
<1> SUFFICES ASSUME Base, [Next]_vars PROVE Base'
  OBVIOUS
<1> USE StoreAssumption, SlotFacts
        DEF Base, TypeOK, Refs, Opened, Stages, ListRefs, Goto,
            locals, dict, lists, ghosts
<1>1. ASSUME NEW r \in Requests, NEW id \in Guids, NEW v \in Versions,
             Save(r, id, v)
      PROVE  Base'
  BY <1>1 DEF Save, Call
<1>2. ASSUME NEW r \in Requests, OpenStream(r) PROVE Base'
  <2>1. count \in Slots
    BY <1>2 DEF OpenStream
  <2>2. target[r] = NoRequest
    BY <1>2 DEF OpenStream
  <2> QED
    BY <1>2, <2>1, <2>2 DEF OpenStream
<1>3. ASSUME NEW r \in Requests, Insert(r) PROVE Base'
  <2>1. target[r] = r
    BY <1>3 DEF Insert
  <2> QED
    BY <1>3, <2>1 DEF Insert
<1>4. ASSUME NEW r \in Requests, PassCheck(r) PROVE Base'
  <2>1. PICK l \in Lookup(call[r].id) :
          /\ target' = [target EXCEPT ![r] = l]
          /\ tainted' \in {tainted, tainted \cup {l}}
    BY <1>4 DEF PassCheck
  <2>2. l \in Requests /\ Opened(l) /\ l # r
    BY <1>4, <2>1 DEF Lookup, PassCheck
  <2> QED
    BY <1>4, <2>1, <2>2 DEF PassCheck
<1>5. ASSUME NEW r \in Requests, FailCheck(r) PROVE Base'
  BY <1>5 DEF FailCheck
<1>6. ASSUME NEW r \in Requests, Miss(r) \/ AddDuplicate(r) PROVE Base'
  BY <1>6 DEF Miss, AddDuplicate
<1>7. ASSUME NEW r \in Requests, ReadSize(r) PROVE Base'
  <2>1. target[r] \in Requests /\ size[target[r]] \in Slots
    BY <1>7, TargetIsList DEF ReadSize
  <2> QED
    BY <1>7, <2>1 DEF ReadSize
<1>8. ASSUME NEW r \in Requests, BumpSize(r) PROVE Base'
  <2>1. target[r] \in Requests /\ Opened(target[r])
    BY <1>8, TargetIsList DEF BumpSize
  <2>2. slot[r] + 1 \in 0 .. Capacity
    OBVIOUS
  <2> QED
    BY <1>8, <2>1, <2>2 DEF BumpSize
<1>9. ASSUME NEW r \in Requests, WriteItem(r) PROVE Base'
  <2>1. target[r] \in Requests
    BY <1>9, TargetIsList DEF WriteItem
  <2>2. [req |-> r, version |-> call[r].expected + 1] \in Descriptor
    BY DEF Descriptor, Call
  <2>3. items' \in [Requests -> [Slots -> Descriptor]]
    BY <1>9, <2>1, <2>2 DEF WriteItem
  <2> QED
    BY <1>9, <2>3 DEF WriteItem
<1>10. ASSUME NEW r \in Requests, Publish(r) PROVE Base'
  BY <1>10 DEF Publish
<1>11. CASE Restart
  <2>1. NoCall \in Call
    BY DEF NoCall, Call
  <2>2. Blank \in Descriptor
    BY DEF Blank, Descriptor
  <2>3. items' \in [Requests -> [Slots -> Descriptor]]
    BY <1>11, <2>2 DEF Restart
  <2>4. TypeOK'
    BY <1>11, <2>1, <2>3 DEF Restart
  <2>5. Refs'
    BY <1>11 DEF Restart
  <2> QED
    BY <2>4, <2>5
<1>12. CASE UNCHANGED vars
  BY <1>12 DEF vars
<1> QED
  BY <1>1, <1>2, <1>3, <1>4, <1>5, <1>6, <1>7, <1>8, <1>9, <1>10, <1>11,
     <1>12
     DEF Next, SaveStep

(* The variables of the store always have their types. *)
THEOREM TypeCorrect == Spec => []TypeOK
<1>1. Base => TypeOK
  BY DEF Base
<1> QED
  BY <1>1, InitBase, StepBase, PTL DEF Spec
-----------------------------------------------------------------------------
LEMMA InitSafe == Init => Safe
<1> SUFFICES ASSUME Init, NEW l \in Requests PROVE ~Opened(l)
  BY DEF Safe
<1> QED
  BY StoreAssumption DEF Init, Opened

(* Opening a list: it is empty, and its creator is the only writer. *)
LEMMA OpenSafe ==
  ASSUME IInv, Base', NEW r \in Requests, OpenStream(r)
  PROVE  Safe'
<1> SUFFICES ASSUME NEW l \in Requests, Opened(l)', l \notin tainted'
             PROVE  Sound(l)'
  BY DEF Safe
<1> USE StoreAssumption, SlotFacts
        DEF IInv, Base, TypeOK, Call, OpenStream, Goto, lists, dict, Opened
<1>1. CASE l = r
  <2>1. \A s \in Requests : target'[s] = l => s = r
    BY <1>1 DEF Refs
  <2>2. size[l] = 0
    BY <1>1 DEF Refs
  <2> QED
    BY <1>1, <2>1, <2>2
       DEF Sound, OneWriter, WriterFits, Numbered, Kept, Writes, Fills,
           Accepted, Stages, Writing
<1>2. CASE l # r
  <2>1. Sound(l)
    BY <1>2 DEF Safe
  <2> QED
    BY <1>2, <2>1
       DEF Sound, OneWriter, WriterFits, Numbered, Kept, Writes, Fills,
           Accepted, Stages, Writing
<1> QED
  BY <1>1, <1>2

(* Passing the check on a list left untainted: nobody else is writing it,  *)
(* so its last slot is filled, and the version found there is the one the  *)
(* call expected.                                                          *)
LEMMA PassSafe ==
  ASSUME IInv, Base', NEW r \in Requests, PassCheck(r)
  PROVE  Safe'
<1> SUFFICES ASSUME NEW l \in Requests, Opened(l)', l \notin tainted'
             PROVE  Sound(l)'
  BY DEF Safe
<1> USE StoreAssumption, SlotFacts DEF IInv, Base, TypeOK, Call, Goto, lists, dict
<1>1. PICK m \in Lookup(call[r].id) :
        /\ Acceptable(m, call[r].expected)
        /\ target' = [target EXCEPT ![r] = m]
        /\ tainted' = IF Writers(m) # {} \/ call[r].expected = -1
                        THEN tainted \cup {m} ELSE tainted
  BY DEF PassCheck
<1>2. m \in Requests /\ Opened(m) /\ target[r] = NoRequest
  BY DEF Lookup, Refs, PassCheck, Opened
<1>3. Opened(l) /\ l \notin tainted
  BY <1>1, <1>2 DEF Opened
<1>4. Sound(l)
  BY <1>3 DEF Safe
<1>5. CASE l # m
  <2>1. /\ stage' = [stage EXCEPT ![r] = "checked"] /\ stage[r] = "saving"
        /\ call' = call /\ slot' = slot /\ items' = items /\ size' = size
    BY DEF PassCheck
  <2>2. \A s \in Requests : Writes(s, l)' => Writes(s, l)
    BY <1>1, <1>2, <1>5, <2>1 DEF Writes
  <2>3. \A s \in Requests : Fills(s, l)' <=> Fills(s, l)
    BY <1>1, <1>2, <1>5, <2>1 DEF Fills
  <2>4. \A s \in Accepted' : target'[s] = l => s \in Accepted /\ target[s] = l
    BY <1>1, <1>2, <1>5, <2>1 DEF Accepted
  <2>5. OneWriter(l)' /\ WriterFits(l)'
    BY <1>1, <1>2, <1>4, <1>5, <2>1, <2>2
       DEF Sound, OneWriter, WriterFits, Writes
  <2>6. Numbered(l)' /\ Kept(l)'
    BY <1>4, <2>1, <2>3, <2>4 DEF Sound, Numbered, Kept
  <2> QED
    BY <2>5, <2>6 DEF Sound
<1>6. CASE l = m
  <2>1. Writers(l) = {} /\ call[r].expected # -1
    BY <1>1, <1>6
  <2>2. \A s \in Requests : ~Writes(s, l) /\ ~Fills(s, l)
    BY <2>1 DEF Writers, Writes, Fills, Writing
  <2>3. size[l] > 0 /\ items[l][size[l] - 1].version = call[r].expected
    BY <1>1, <1>6, <2>1 DEF Acceptable, LastVersion
  <2>4. size[l] - 1 \in Slots
    BY <2>3 DEF Slots
  <2>5. items[l][size[l] - 1].version = call[l].expected + (size[l] - 1) + 1
    <3> DEFINE k == size[l] - 1
    <3>1. k \in Slots /\ k < size[l]
      BY <2>4
    <3> HIDE DEF k
    <3>2. items[l][k].version = call[l].expected + k + 1
      BY <1>4, <2>2, <3>1 DEF Sound, Numbered
    <3> QED
      BY <3>2 DEF k
  <2>6. call[r].expected = call[l].expected + size[l]
    BY <2>3, <2>5
  <2> QED
    BY <1>1, <1>2, <1>4, <1>6, <2>2, <2>6
       DEF Sound, OneWriter, WriterFits, Numbered, Kept, Writes, Fills,
           Accepted, Stages, Writing, PassCheck
<1> QED
  BY <1>5, <1>6

(* Steps that change no list object and open none. *)
LEMMA OtherSafe ==
  ASSUME IInv, Base', NEW r \in Requests,
         \/ \E id \in Guids, v \in Versions : Save(r, id, v)
         \/ Miss(r) \/ AddDuplicate(r) \/ Insert(r)
         \/ FailCheck(r) \/ ReadSize(r) \/ Publish(r)
  PROVE  Safe'
<1> SUFFICES ASSUME NEW l \in Requests, Opened(l)', l \notin tainted'
             PROVE  Sound(l)'
  BY DEF Safe
<1> USE StoreAssumption, SlotFacts
        DEF IInv, Base, TypeOK, Call, Goto, lists, dict, ghosts, locals,
            Sound, OneWriter, WriterFits, Numbered, Kept, Writes, Fills,
            Accepted, Stages, Writing, Opened
<1>1. Opened(l) /\ l \notin tainted
  BY DEF Save, Miss, AddDuplicate, Insert, FailCheck, ReadSize, Publish
<1>2. Sound(l)
  BY <1>1 DEF Safe
<1>3. ASSUME NEW id \in Guids, NEW v \in Versions, Save(r, id, v)
      PROVE  Sound(l)'
  <2>1. target[r] = NoRequest /\ l # r
    BY <1>1, <1>3 DEF Save, Refs
  <2> QED
    BY <1>2, <1>3, <2>1 DEF Save
<1>4. CASE Insert(r)
  BY <1>2, <1>4 DEF Insert
<1>5. CASE Miss(r) \/ AddDuplicate(r) \/ FailCheck(r)
  <2>1. target[r] = NoRequest
    BY <1>5 DEF Miss, AddDuplicate, FailCheck, Refs
  <2> QED
    <3>1. /\ stage' \in {[stage EXCEPT ![r] = "opening"],
                        [stage EXCEPT ![r] = "rejected"]}
          /\ UNCHANGED <<call, target, slot, items, size>>
      BY <1>5 DEF Miss, AddDuplicate, FailCheck
    <3>2. \A s \in Requests : target[s] = l => stage'[s] = stage[s]
      BY <1>1, <2>1, <3>1
    <3> QED
      BY <1>2, <3>1, <3>2
<1>6. CASE ReadSize(r)
  <2>1. /\ slot' = [slot EXCEPT ![r] = size[target[r]]]
        /\ stage' = [stage EXCEPT ![r] = "adding"] /\ stage[r] = "checked"
        /\ UNCHANGED <<call, target, items, size>>
    BY <1>6 DEF ReadSize
  <2>2. OneWriter(l)'
    BY <1>2, <2>1
  <2>3. WriterFits(l)'
    BY <1>2, <2>1
  <2>4. Numbered(l)'
    BY <1>2, <2>1
  <2>5. Kept(l)'
    BY <1>2, <2>1
  <2> QED
    BY <2>2, <2>3, <2>4, <2>5
<1>7. CASE Publish(r)
  BY <1>2, <1>7 DEF Publish
<1> QED
  BY <1>3, <1>4, <1>5, <1>6, <1>7

(* The only writer counts the slot it read: the old size. *)
LEMMA BumpSafe ==
  ASSUME IInv, Base', NEW r \in Requests, BumpSize(r)
  PROVE  Safe'
<1> SUFFICES ASSUME NEW l \in Requests, Opened(l)', l \notin tainted'
             PROVE  Sound(l)'
  BY DEF Safe
<1> USE StoreAssumption, SlotFacts
        DEF IInv, Base, TypeOK, Call, Goto, dict, ghosts, locals, BumpSize
<1>1. Opened(l) /\ l \notin tainted
  BY DEF Opened
<1>2. Sound(l)
  BY <1>1 DEF Safe
<1>3. target[r] \in Requests
  BY TargetIsList
<1>4. CASE target[r] # l
  BY <1>2, <1>3, <1>4
     DEF Sound, OneWriter, WriterFits, Numbered, Kept, Writes, Fills,
         Accepted, Stages, Writing
<1>5. CASE target[r] = l
  <2>1. Writes(r, l) /\ slot[r] = size[l] /\ size'[l] = size[l] + 1
    BY <1>2, <1>5 DEF Sound, WriterFits, Writes, Writing
  <2>2. \A s \in Requests : Writes(s, l) => s = r
    BY <1>2, <2>1 DEF Sound, OneWriter
  <2>3. OneWriter(l)' /\ WriterFits(l)'
    BY <1>2, <1>5, <2>1, <2>2
       DEF Sound, OneWriter, WriterFits, Writes, Stages, Writing
  <2>4. Numbered(l)'
    <3> SUFFICES ASSUME NEW k \in Slots, k < size'[l],
                        \A s \in Requests : Fills(s, l)' => slot[s] # k
                 PROVE  /\ items[l][k].req # NoRequest
                        /\ items[l][k].version = call[l].expected + k + 1
      BY DEF Numbered
    <3>1. Fills(r, l)'
      BY <1>5 DEF Fills, Stages
    <3>2. k # slot[r] /\ k < size[l]
      BY <2>1, <3>1 DEF Slots
    <3>3. \A s \in Requests : ~Fills(s, l)
      BY <2>2 DEF Fills, Writes, Writing
    <3> QED
      BY <1>2, <3>2, <3>3 DEF Sound, Numbered
  <2>5. Kept(l)'
    BY <1>2, <1>5, <2>1, <2>2
       DEF Sound, Kept, Writes, Fills, Stages, Writing, Accepted, Slots
  <2> QED
    BY <2>3, <2>4, <2>5 DEF Sound
<1> QED
  BY <1>4, <1>5

(* The only writer fills the last slot with the version that follows. *)
LEMMA WriteSafe ==
  ASSUME IInv, Base', NEW r \in Requests, WriteItem(r)
  PROVE  Safe'
<1> SUFFICES ASSUME NEW l \in Requests, Opened(l)', l \notin tainted'
             PROVE  Sound(l)'
  BY DEF Safe
<1> USE StoreAssumption, SlotFacts
        DEF IInv, Base, TypeOK, Call, Goto, dict, ghosts, locals, WriteItem
<1>1. Opened(l) /\ l \notin tainted
  BY DEF Opened
<1>2. Sound(l)
  BY <1>1 DEF Safe
<1>3. target[r] \in Requests
  BY TargetIsList
<1>4. CASE target[r] # l
  <2>1. items'[l] = items[l]
    BY <1>3, <1>4
  <2> QED
    BY <1>2, <1>4, <2>1
       DEF Sound, OneWriter, WriterFits, Numbered, Kept, Writes, Fills,
           Accepted, Stages, Writing
<1>5. CASE target[r] = l
  <2>1. /\ Writes(r, l) /\ Fills(r, l)
        /\ size[l] = slot[r] + 1
        /\ call[r].expected = call[l].expected + slot[r]
    BY <1>2, <1>5 DEF Sound, WriterFits, Writes, Fills, Writing
  <2>2. \A s \in Requests : Writes(s, l) => s = r
    BY <1>2, <2>1 DEF Sound, OneWriter
  <2>3. items'[l][slot[r]] = [req |-> r, version |-> call[r].expected + 1]
    BY <1>3, <1>5
  <2>4. \A k \in Slots : k # slot[r] => items'[l][k] = items[l][k]
    BY <1>3, <1>5
  <2>5. \A s \in Requests : ~Writes(s, l)' /\ ~Fills(s, l)'
    BY <1>5, <2>2 DEF Writes, Fills, Stages, Writing
  <2>6. OneWriter(l)' /\ WriterFits(l)'
    BY <2>5 DEF OneWriter, WriterFits
  <2>7. Numbered(l)'
    <3> SUFFICES ASSUME NEW k \in Slots, k < size[l]
                 PROVE  /\ items'[l][k].req # NoRequest
                        /\ items'[l][k].version = call[l].expected + k + 1
      BY DEF Numbered
    <3>1. CASE k = slot[r]
      BY <2>1, <2>3, <3>1
    <3>2. CASE k # slot[r]
      BY <1>2, <2>2, <2>4, <3>2
         DEF Sound, Numbered, Fills, Writes, Writing
    <3> QED
      BY <3>1, <3>2
  <2>8. Kept(l)'
    <3> SUFFICES ASSUME NEW s \in Accepted', target[s] = l
                 PROVE  /\ slot[s] < size[l]
                        /\ items'[l][slot[s]] =
                             [req |-> s, version |-> call[s].expected + 1]
      BY <2>5 DEF Kept, Accepted
    <3>1. CASE s = r
      BY <2>1, <2>3, <3>1
    <3>2. CASE s # r
      BY <1>2, <2>1, <2>4, <3>2 DEF Sound, Kept, Accepted
    <3> QED
      BY <3>1, <3>2
  <2> QED
    BY <2>6, <2>7, <2>8 DEF Sound
<1> QED
  BY <1>4, <1>5

LEMMA StepIInv == IInv /\ [Next]_vars => IInv'
<1> SUFFICES ASSUME IInv, [Next]_vars PROVE IInv'
  OBVIOUS
<1>1. Base'
  BY StepBase DEF IInv
<1>2. ASSUME Restart PROVE Safe'
  BY <1>2, StoreAssumption DEF Restart, Safe, Opened
<1>3. ASSUME UNCHANGED vars PROVE Safe'
  BY <1>3
     DEF vars, locals, dict, lists, ghosts, IInv, Safe, Opened, Sound,
         OneWriter, WriterFits, Numbered, Kept, Writes, Fills, Accepted
<1> QED
  BY <1>1, <1>2, <1>3, OpenSafe, PassSafe, OtherSafe, BumpSafe, WriteSafe
     DEF IInv, Next, SaveStep

LEMMA Invariance == Spec => []IInv
<1>1. Init => IInv
  BY InitBase, InitSafe DEF IInv
<1> QED
  BY <1>1, StepIInv, PTL DEF Spec

LEMMA PendingFacts ==
  ASSUME Base, NEW l \in Requests
  PROVE  \A k : k \in Pending(l) <=>
                \E s \in Requests : Fills(s, l) /\ slot[s] = k
BY DEF Pending, Writers, Fills, Writing

(* Lists whose Saves never overlapped, and never used the wildcard, are    *)
(* numbered without gaps (EventStore.Save, lines 43-58).                   *)
THEOREM GapFree == Spec => []UntaintedIsGapFree
<1>1. ASSUME IInv PROVE UntaintedIsGapFree
  <2> SUFFICES ASSUME NEW l \in Created \ tainted, NEW k \in Committed(l)
               PROVE  /\ items[l][k].req # NoRequest
                      /\ items[l][k].version = call[l].expected + k + 1
    BY DEF UntaintedIsGapFree
  <2>1. l \in Requests /\ Sound(l)
    BY <1>1 DEF IInv, Safe, Created, Opened
  <2>2. k \in Slots /\ k < size[l]
    BY <1>1, <2>1, StoreAssumption DEF IInv, Base, TypeOK, Committed, Slots
  <2>3. \A s \in Requests : Fills(s, l) => slot[s] # k
    BY <1>1, <2>1, PendingFacts DEF Committed, IInv
  <2> QED
    BY <2>1, <2>2, <2>3 DEF Sound, Numbered
<1> QED
  BY <1>1, Invariance, PTL

(* On such lists accepted events stay, and of the Saves that named one     *)
(* version only one is accepted.                                           *)
THEOREM AcceptedStays == Spec => []AcceptedIsKept
<1>1. ASSUME IInv PROVE AcceptedIsKept
  <2> SUFFICES ASSUME NEW r \in Accepted, target[r] \notin tainted
               PROVE  /\ slot[r] \in Committed(target[r])
                      /\ items[target[r]][slot[r]] =
                           [req |-> r, version |-> call[r].expected + 1]
                      /\ \A s \in Accepted \ {r} : target[s] = target[r]
                           => call[s].expected # call[r].expected
    BY DEF AcceptedIsKept
  <2>0. PICK l : l = target[r]
    OBVIOUS
  <2>1. r \in Requests /\ l \in Requests /\ Opened(l)
    BY <1>1, <2>0, TargetIsList DEF Accepted, IInv
  <2>2. Sound(l)
    BY <1>1, <2>0, <2>1 DEF IInv, Safe
  <2>3. \A s \in Accepted : target[s] = l =>
          /\ s \in Requests /\ slot[s] \in Slots /\ slot[s] \in Nat
          /\ slot[s] < size[l]
          /\ items[l][slot[s]].req = s
          /\ items[l][slot[s]].version = call[s].expected + 1
    <3> SUFFICES ASSUME NEW s \in Accepted, target[s] = l
                 PROVE  /\ s \in Requests /\ slot[s] \in Slots
                        /\ slot[s] \in Nat /\ slot[s] < size[l]
                        /\ items[l][slot[s]].req = s
                        /\ items[l][slot[s]].version = call[s].expected + 1
      OBVIOUS
    <3>1. s \in Requests /\ slot[s] \in Slots
      BY <1>1 DEF Accepted, IInv, Base, TypeOK
    <3>2. /\ slot[s] < size[l]
          /\ items[l][slot[s]] = [req |-> s, version |-> call[s].expected + 1]
      BY <2>2 DEF Sound, Kept
    <3> QED
      BY <3>1, <3>2, SlotFacts
  <2>4. slot[r] \in Committed(l)
    <3>1. \A q \in Requests : Fills(q, l) => slot[q] # slot[r]
      BY <2>0, <2>2 DEF Sound, Kept
    <3>2. slot[r] \notin Pending(l)
      BY <1>1, <2>1, <3>1, PendingFacts DEF IInv
    <3>3. slot[r] \in 0 .. size[l] - 1
      BY <1>1, <2>0, <2>1, <2>3 DEF IInv, Base, TypeOK
    <3> QED
      BY <3>2, <3>3 DEF Committed
  <2>5. ASSUME NEW s \in Accepted \ {r}, target[s] = l,
               call[s].expected = call[r].expected
        PROVE  FALSE
    <3>1. ASSUME NEW t \in Accepted, target[t] = l
          PROVE  call[t].expected + 1 = call[l].expected + slot[t] + 1
      <4>1. \A q \in Requests : Fills(q, l) => slot[q] # slot[t]
        BY <2>2, <3>1 DEF Sound, Kept
      <4>2. items[l][slot[t]].version = call[l].expected + slot[t] + 1
        BY <2>2, <2>3, <3>1, <4>1 DEF Sound, Numbered
      <4> QED
        BY <2>3, <3>1, <4>2
    <3>2. slot[s] = slot[r]
      <4>1. /\ slot[s] \in Int /\ slot[r] \in Int
            /\ call[l].expected \in Int /\ call[r].expected \in Int
        BY <1>1, <2>0, <2>1, <2>3, <2>5 DEF IInv, Base, TypeOK, Call
      <4> QED
        BY <2>0, <2>5, <3>1, <4>1
    <3> QED
      BY <2>0, <2>3, <2>5, <3>2
  <2> QED
    BY <2>0, <2>1, <2>2, <2>4, <2>5 DEF Sound, Kept
<1> QED
  BY <1>1, Invariance, PTL
-----------------------------------------------------------------------------
(* The dictionary, as long as no two inserts overlap: one insert at most   *)
(* is under way and it has claimed the next slot, the slots before that    *)
(* hold the inserted lists, and no aggregate has two lists.                *)
Inserting == {r \in Requests : stage[r] = "inserting"}
Inserted(l) == Opened(l) /\ l \notin Inserting

OneInsert == /\ \A r, s \in Inserting : r = s
             /\ \A r \in Inserting : slot[r] = count
InUse     == /\ \A k \in Slots : k >= count => current[k] = NoRequest
             /\ \A k \in Slots : current[k] \notin Inserting
             /\ \A l \in Requests : Inserted(l) => \E k \in Slots : current[k] = l
OneList   == \A l, m \in Requests :
               Opened(l) /\ Opened(m) /\ call[l].id = call[m].id => l = m

Dictionary == ~clobbered => OneInsert /\ InUse /\ OneList

LEMMA LookupFinds ==
  ASSUME Base, Dictionary, ~clobbered, NEW l \in Requests, Inserted(l)
  PROVE  Lookup(call[l].id) = {l}
PROOF
  <1>1. \A k \in Slots : current[k] # NoRequest => Opened(current[k])
    BY DEF Base, Refs
  <1>2. PICK k \in Slots : current[k] = l
    BY DEF Dictionary, InUse
  <1>3. l # NoRequest
    BY StoreAssumption
  <1>4. l \in Lookup(call[l].id)
    BY <1>2, <1>3 DEF Lookup
  <1>5. ASSUME NEW m \in Lookup(call[l].id) PROVE m = l
    <2>1. Opened(m) /\ call[m].id = call[l].id
      BY <1>1 DEF Lookup
    <2> QED
      BY <2>1 DEF Dictionary, OneList, Inserted, Opened
  <1> QED
    BY <1>4, <1>5

(* An insert leaves the slots of the other lists alone, because it writes  *)
(* the first one that is not in use.                                       *)
LEMMA DictInsert ==
  ASSUME Base, Base', Dictionary, NEW r \in Requests, Insert(r)
  PROVE  Dictionary'
PROOF
  <1> SUFFICES ASSUME ~clobbered PROVE OneInsert' /\ InUse' /\ OneList'
    BY DEF Dictionary, Insert, ghosts
  <1> USE StoreAssumption, SlotFacts DEF Insert, Goto, locals, lists, ghosts
  <1>1. OneInsert /\ InUse /\ OneList
    BY DEF Dictionary
  <1>2. Inserting = {r} /\ slot[r] = count /\ Inserting' = {}
    BY <1>1 DEF Inserting, OneInsert, Base, TypeOK
  <1>3. count \in Slots /\ count \in Nat /\ count' = count + 1
    BY <1>2 DEF Base, TypeOK
  <1>4. current[count] = NoRequest /\ current' = [current EXCEPT ![count] = r]
    BY <1>1, <1>2, <1>3 DEF InUse
  <1>5. OneInsert'
    BY <1>2 DEF OneInsert
  <1>6. InUse'
    <2>1. \A k \in Slots : k >= count' => current'[k] = NoRequest
      BY <1>1, <1>3, <1>4 DEF InUse, Base, TypeOK, Slots
    <2>2. ASSUME NEW l \in Requests, Inserted(l)'
          PROVE  \E k \in Slots : current'[k] = l
      <3>1. CASE l = r
        BY <1>3, <1>4, <3>1 DEF Base, TypeOK
      <3>2. CASE l # r
        <4>1. Inserted(l)
          BY <1>2, <2>2, <3>2 DEF Inserted, Opened, Inserting
        <4>2. PICK k \in Slots : current[k] = l
          BY <1>1, <4>1 DEF InUse
        <4>3. k # count
          BY <1>4, <4>2
        <4> QED
          BY <1>4, <4>2, <4>3 DEF Base, TypeOK
      <3> QED
        BY <3>1, <3>2
    <2> QED
      BY <1>2, <2>1, <2>2 DEF InUse
  <1>7. OneList'
    BY <1>1 DEF OneList, Opened
  <1> QED
    BY <1>5, <1>6, <1>7

(* A list is opened only for an aggregate that has none: the lookup found  *)
(* none, and no other insert is under way.                                 *)
LEMMA DictOpen ==
  ASSUME Base, Base', Dictionary, NEW r \in Requests, OpenStream(r)
  PROVE  Dictionary'
PROOF
  <1> SUFFICES ASSUME ~clobbered' PROVE OneInsert' /\ InUse' /\ OneList'
    BY DEF Dictionary
  <1> USE StoreAssumption, SlotFacts DEF OpenStream, Goto, dict, lists
  <1>1. /\ ~clobbered /\ Inserting = {}
        /\ OneInsert /\ InUse /\ OneList
    BY DEF Dictionary, Inserting
  <1>2. Inserting' = {r} /\ slot'[r] = count
    BY <1>1 DEF Inserting, Base, TypeOK
  <1>3. target[r] = NoRequest /\ \A k \in Slots : current[k] # r
    <2>1. target[r] = NoRequest
      BY DEF Base, Refs
    <2> QED
      BY <2>1 DEF Base, Refs, Opened
  <1>4. \A l \in Requests : Opened(l)' => l = r \/ Opened(l)
    BY DEF Opened, Base, TypeOK
  <1>5. InUse'
    <2>1. \A l \in Requests : Inserted(l)' => Inserted(l)
      BY <1>1, <1>2, <1>4 DEF Inserted
    <2> QED
      BY <1>1, <1>2, <1>3, <2>1 DEF InUse
  <1>6. OneList'
    <2>1. ASSUME NEW l \in Requests, Opened(l), call[l].id = call[r].id
          PROVE  FALSE
      <3>1. Lookup(call[l].id) = {l}
        BY <1>1, <2>1, LookupFinds DEF Inserted
      <3> QED
        BY <2>1, <3>1
    <2> QED
      BY <1>1, <1>4, <2>1 DEF OneList
  <1> QED
    BY <1>2, <1>5, <1>6 DEF OneInsert

LEMMA DictStep == Base /\ Base' /\ Dictionary /\ [Next]_vars => Dictionary'
PROOF
  <1> SUFFICES ASSUME Base, Base', Dictionary, [Next]_vars PROVE Dictionary'
    OBVIOUS
  <1> USE DEF OneInsert, InUse, OneList, Inserting, Inserted, Opened, Goto,
              locals, dict, lists, ghosts
  <1>1. ASSUME NEW r \in Requests, NEW id \in Guids, NEW v \in Versions,
               Save(r, id, v)
        PROVE  Dictionary'
    <2>1. target[r] # r
      BY <1>1, StoreAssumption DEF Save, Base, Refs
    <2>2. /\ \A s \in Requests : s # r => call'[s] = call[s]
          /\ \A s \in Requests : stage'[s] = "inserting" <=> stage[s] = "inserting"
          /\ UNCHANGED <<target, slot, current, count, clobbered>>
      BY <1>1 DEF Save, Base, TypeOK
    <2> QED
      BY <2>1, <2>2 DEF Dictionary
  <1>2. ASSUME NEW r \in Requests, PassCheck(r)
        PROVE  Dictionary'
    <2>1. PICK l \in Lookup(call[r].id) : target' = [target EXCEPT ![r] = l]
      BY <1>2 DEF PassCheck
    <2>2. target[r] = NoRequest /\ l # r
      BY <1>2, <2>1 DEF PassCheck, Lookup, Base, Refs
    <2>3. \A m \in Requests : (target'[m] = m) <=> (target[m] = m)
      BY <2>1, <2>2, StoreAssumption DEF Base, TypeOK
    <2>4. /\ \A s \in Requests : stage'[s] = "inserting" <=> stage[s] = "inserting"
          /\ UNCHANGED <<call, slot, current, count, clobbered>>
      BY <1>2 DEF PassCheck, Base, TypeOK
    <2> QED
      BY <2>3, <2>4 DEF Dictionary
  <1>3. ASSUME NEW r \in Requests, ReadSize(r)
        PROVE  Dictionary'
    <2>1. /\ \A s \in Requests : stage'[s] = "inserting" <=> stage[s] = "inserting"
          /\ \A s \in Requests : stage[s] = "inserting" => slot'[s] = slot[s]
          /\ UNCHANGED <<call, target, current, count, clobbered>>
      BY <1>3 DEF ReadSize, Base, TypeOK
    <2> QED
      BY <2>1 DEF Dictionary
  <1>4. ASSUME NEW r \in Requests,
               \/ Miss(r) \/ AddDuplicate(r) \/ FailCheck(r)
               \/ BumpSize(r) \/ WriteItem(r) \/ Publish(r)
        PROVE  Dictionary'
    <2>1. /\ \A s \in Requests : stage'[s] = "inserting" <=> stage[s] = "inserting"
          /\ UNCHANGED <<call, target, slot, current, count, clobbered>>
      BY <1>4 DEF Miss, AddDuplicate, FailCheck, BumpSize, WriteItem, Publish,
                  Base, TypeOK
    <2> QED
      BY <2>1 DEF Dictionary
  <1>5. CASE Restart
    <2>1. \A r \in Requests : target'[r] # r /\ stage'[r] # "inserting"
      BY <1>5, StoreAssumption DEF Restart
    <2> QED
      BY <1>5, <2>1, StoreAssumption DEF Restart, Dictionary
  <1>6. CASE UNCHANGED vars
    BY <1>6 DEF vars, Dictionary
  <1> QED
    BY <1>1, <1>2, <1>3, <1>4, <1>5, <1>6, DictInsert, DictOpen
       DEF Next, SaveStep

LEMMA Looked == Spec => [](IInv /\ Dictionary)
PROOF
  <1>1. Init => Dictionary
    BY StoreAssumption
       DEF Init, Dictionary, OneInsert, InUse, OneList, Inserting, Inserted,
           Opened
  <1>2. Base /\ Base' /\ Dictionary /\ [Next]_vars => Dictionary'
    BY DictStep
  <1>3. IInv => Base
    BY DEF IInv
  <1> QED
    BY <1>1, <1>2, <1>3, Invariance, PTL DEF Spec

(* Unless two dictionary inserts overlapped, a list that was inserted      *)
(* stays the one its aggregate is found by (EventStore.Save, lines 36-41).  *)
THEOREM DictionaryKept == Spec => []DictionaryIntact
PROOF
  <1>1. ASSUME IInv, Dictionary PROVE DictionaryIntact
    BY <1>1, LookupFinds
       DEF DictionaryIntact, Created, Inserted, Inserting, Opened, IInv
  <1> QED
    BY <1>1, Looked, PTL
-----------------------------------------------------------------------------
(* The store implements AggregateLog.  The log of an aggregate is as long  *)
(* as the committed part of its list: the event that a writer has counted  *)
(* and not yet written does not belong to it.                              *)
Filling(l) == \E r \in Requests : Fills(r, l)
Length(l)  == IF Filling(l) THEN size[l] - 1 ELSE size[l]

(* An event is where its request put it, and only if it was accepted. *)
Authors == \A l \in Requests, k \in Slots, q \in Requests :
             items[l][k].req = q
               => q \in Accepted /\ target[q] = l /\ slot[q] = k

(* Below its size a list holds events, but for those still to be written,  *)
(* even if writers raced for a slot.                                       *)
Filled(l, k) == \/ items[l][k].req # NoRequest
                \/ \E s \in Requests : Fills(s, l) /\ slot[s] = k
NoHoles ==
  /\ \A l \in Requests, k \in Slots : k < size[l] => Filled(l, k)
  /\ \A r \in Requests, k \in Slots :
       stage[r] = "adding" /\ k < slot[r] => Filled(target[r], k)

RefInv == IInv /\ Dictionary /\ Authors /\ NoHoles

LEMMA AuthorsStep == Base /\ Authors /\ [Next]_vars => Authors'
PROOF
  <1> SUFFICES ASSUME Base, Authors, [Next]_vars PROVE Authors'
    OBVIOUS
  <1> USE DEF Goto, locals, dict, lists, ghosts
  <1>1. ASSUME NEW r \in Requests, WriteItem(r)
        PROVE  Authors'
    <2>1. target[r] \in Requests /\ slot[r] \in Slots
      BY <1>1, TargetIsList DEF WriteItem, Base, TypeOK
    <2>2. r \in Accepted' /\ Accepted \subseteq Accepted'
      BY <1>1 DEF WriteItem, Accepted, Base, TypeOK
    <2>3. \A l \in Requests, k \in Slots :
            \/ items'[l][k] = items[l][k]
            \/ items'[l][k].req = r /\ l = target[r] /\ k = slot[r]
      BY <1>1, <2>1 DEF WriteItem, Base, TypeOK
    <2>4. UNCHANGED <<target, slot>>
      BY <1>1 DEF WriteItem
    <2> QED
      BY <2>2, <2>3, <2>4 DEF Authors
  <1>2. ASSUME NEW r \in Requests,
               \/ \E id \in Guids, v \in Versions : Save(r, id, v)
               \/ Miss(r) \/ OpenStream(r) \/ AddDuplicate(r) \/ Insert(r)
               \/ PassCheck(r) \/ FailCheck(r) \/ ReadSize(r) \/ BumpSize(r)
               \/ Publish(r)
        PROVE  Authors'
    <2>1. items' = items
      BY <1>2 DEF Save, Miss, OpenStream, AddDuplicate, Insert, PassCheck,
                  FailCheck, ReadSize, BumpSize, Publish
    <2>2. \A q \in Accepted :
            q \in Accepted' /\ target'[q] = target[q] /\ slot'[q] = slot[q]
      <3>1. CASE r \notin Accepted
        <4>1. \A q \in Accepted : /\ stage'[q] = stage[q]
                                 /\ target'[q] = target[q] /\ slot'[q] = slot[q]
          BY <1>2, <3>1
             DEF Save, Miss, OpenStream, AddDuplicate, Insert, PassCheck,
                 FailCheck, ReadSize, BumpSize, Publish, Accepted, Base, TypeOK
        <4> QED
          BY <4>1 DEF Accepted
      <3>2. CASE r \in Accepted
        BY <1>2, <3>2
           DEF Save, Miss, OpenStream, AddDuplicate, Insert, PassCheck,
               FailCheck, ReadSize, BumpSize, Publish, Accepted, Base, TypeOK
      <3> QED
        BY <3>1, <3>2
    <2> QED
      BY <2>1, <2>2 DEF Authors
  <1>3. CASE Restart
    BY <1>3, StoreAssumption DEF Restart, Authors, Blank
  <1>4. CASE UNCHANGED vars
    BY <1>4 DEF vars, Authors, Accepted
  <1> QED
    BY <1>1, <1>2, <1>3, <1>4 DEF Next, SaveStep

LEMMA NoHolesStep == Base /\ NoHoles /\ [Next]_vars => NoHoles'
PROOF
  <1> SUFFICES ASSUME Base, NoHoles, [Next]_vars PROVE NoHoles'
    OBVIOUS
  <1> USE StoreAssumption DEF Goto, locals, dict, lists, ghosts
  <1>1. ASSUME NEW r \in Requests,
               \/ \E id \in Guids, v \in Versions : Save(r, id, v)
               \/ Miss(r) \/ OpenStream(r) \/ AddDuplicate(r) \/ Insert(r)
               \/ PassCheck(r) \/ FailCheck(r) \/ Publish(r)
        PROVE  NoHoles'
    <2>1. /\ UNCHANGED lists
          /\ stage[r] \notin {"adding", "bumped"}
          /\ stage'[r] \notin {"adding", "bumped"}
          /\ \A s \in Requests \ {r} :
               /\ stage'[s] = stage[s] /\ target'[s] = target[s]
               /\ slot'[s] = slot[s]
      BY <1>1 DEF Save, Miss, OpenStream, AddDuplicate, Insert, PassCheck,
                  FailCheck, Publish, Base, TypeOK
    <2>2. \A l, k : Filled(l, k) => Filled(l, k)'
      BY <2>1 DEF Filled, Fills
    <2> QED
      BY <2>1, <2>2 DEF NoHoles
  <1>2. ASSUME NEW r \in Requests, ReadSize(r)
        PROVE  NoHoles'
    <2>1. target[r] \in Requests /\ size[target[r]] \in Slots
      BY <1>2, TargetIsList, SlotFacts DEF ReadSize, Base, TypeOK
    <2>2. /\ UNCHANGED <<lists, target>>
          /\ stage'[r] = "adding" /\ stage[r] = "checked"
          /\ slot'[r] = size[target[r]]
          /\ \A s \in Requests \ {r} :
               stage'[s] = stage[s] /\ slot'[s] = slot[s]
      BY <1>2, <2>1 DEF ReadSize, Base, TypeOK
    <2>3. \A l, k : Filled(l, k) => Filled(l, k)'
      BY <2>2 DEF Filled, Fills
    <2> QED
      BY <2>1, <2>2, <2>3 DEF NoHoles
  <1>3. ASSUME NEW r \in Requests, BumpSize(r)
        PROVE  NoHoles'
    <2>1. target[r] \in Requests /\ slot[r] \in Slots
      BY <1>3, TargetIsList DEF BumpSize, Base, TypeOK
    <2>2. /\ UNCHANGED <<items, target, slot>>
          /\ stage'[r] = "bumped" /\ stage[r] = "adding"
          /\ \A s \in Requests \ {r} : stage'[s] = stage[s]
          /\ size'[target[r]] = slot[r] + 1
          /\ \A l \in Requests \ {target[r]} : size'[l] = size[l]
      BY <1>3, <2>1 DEF BumpSize, Base, TypeOK
    <2>3. \A l, k : Filled(l, k) => Filled(l, k)'
      BY <2>2 DEF Filled, Fills
    <2>4. Filled(target[r], slot[r])'
      BY <2>2 DEF Filled, Fills
    <2>5. \A k \in Slots : k < slot[r] + 1 => k < slot[r] \/ k = slot[r]
      BY <2>1 DEF Slots
    <2>6. \A k \in Slots : k < size'[target[r]] => Filled(target[r], k)'
      BY <2>2, <2>3, <2>4, <2>5 DEF NoHoles
    <2> QED
      BY <2>2, <2>3, <2>6 DEF NoHoles
  <1>4. ASSUME NEW r \in Requests, WriteItem(r)
        PROVE  NoHoles'
    <2>1. target[r] \in Requests /\ slot[r] \in Slots
      BY <1>4, TargetIsList DEF WriteItem, Base, TypeOK
    <2>2. /\ UNCHANGED <<size, target, slot>>
          /\ stage'[r] = "stored"
          /\ \A s \in Requests \ {r} : stage'[s] = stage[s]
          /\ \A l \in Requests, k \in Slots :
               items'[l][k] = IF l = target[r] /\ k = slot[r]
                                THEN [req |-> r, version |-> call[r].expected + 1]
                                ELSE items[l][k]
      BY <1>4, <2>1 DEF WriteItem, Base, TypeOK
    <2>3. ASSUME NEW l \in Requests, NEW k \in Slots, Filled(l, k)
          PROVE  Filled(l, k)'
      <3>1. CASE l = target[r] /\ k = slot[r]
        BY <2>2, <3>1 DEF Filled
      <3>2. CASE ~(l = target[r] /\ k = slot[r])
        BY <2>2, <2>3, <3>2 DEF Filled, Fills
      <3> QED
        BY <3>1, <3>2
    <2>4. \A s \in Requests : stage[s] = "adding" => target[s] \in Requests
      BY TargetIsList
    <2>5. \A s \in Requests : stage'[s] = "adding" => stage[s] = "adding"
      BY <2>2
    <2> QED
      BY <2>2, <2>3, <2>4, <2>5 DEF NoHoles
  <1>5. CASE Restart
    BY <1>5, SlotFacts DEF Restart, NoHoles, Base, TypeOK
  <1>6. CASE UNCHANGED vars
    BY <1>6 DEF vars, NoHoles, Filled, Fills
  <1> QED
    BY <1>1, <1>2, <1>3, <1>4, <1>5, <1>6 DEF Next, SaveStep

LEMMA RefInvariant == Spec => []RefInv
PROOF
  <1>1. Init => Authors /\ NoHoles
    BY StoreAssumption, SlotFacts DEF Init, Authors, NoHoles, Blank
  <1>2. Base /\ Authors /\ NoHoles /\ [Next]_vars => Authors' /\ NoHoles'
    BY AuthorsStep, NoHolesStep
  <1>3. IInv => Base
    BY DEF IInv
  <1>4. RefInv <=> IInv /\ Dictionary /\ Authors /\ NoHoles
    BY DEF RefInv
  <1> QED
    BY <1>1, <1>2, <1>3, <1>4, Looked, PTL DEF Spec

LEMMA CommittedRange ==
  ASSUME Base, NEW l \in Requests, Sound(l)
  PROVE  /\ Length(l) \in 0 .. Capacity
         /\ Length(l) <= size[l]
         /\ Committed(l) = 0 .. Length(l) - 1
         /\ Cardinality(Committed(l)) = Length(l)
PROOF
  <1>1. size[l] \in 0 .. Capacity /\ size[l] \in Nat
    BY StoreAssumption DEF Base, TypeOK
  <1>2. CASE ~Filling(l)
    <2>1. Pending(l) = {}
      BY <1>2, PendingFacts DEF Filling
    <2>2. Committed(l) = 0 .. size[l] - 1
      BY <2>1 DEF Committed
    <2> QED
      BY <1>1, <1>2, <2>2, FS_Interval DEF Length
  <1>3. CASE Filling(l)
    <2>1. PICK r \in Requests : Fills(r, l)
      BY <1>3 DEF Filling
    <2>2. \A s \in Requests : Fills(s, l) => s = r
      BY <2>1 DEF Sound, OneWriter, Writes, Fills, Writing
    <2>3. size[l] = slot[r] + 1 /\ slot[r] \in Nat
      BY <2>1, SlotFacts DEF Sound, WriterFits, Writes, Fills, Writing, Base, TypeOK
    <2>4. \A k : k \in Pending(l) <=> k = slot[r]
      BY <2>1, <2>2, PendingFacts
    <2>5. Committed(l) = 0 .. slot[r] - 1
      BY <2>3, <2>4 DEF Committed
    <2>6. Length(l) = slot[r]
      BY <1>3, <2>3 DEF Length
    <2>7. Cardinality(0 .. slot[r] - 1) = slot[r]
      BY <2>3, FS_Interval
    <2> QED
      BY <1>1, <2>3, <2>5, <2>6, <2>7, StoreAssumption
  <1> QED
    BY <1>2, <1>3

(* What the mapping says of the aggregates that are not void. *)
LogMeaning ==
  \A id \in Guids \ VoidIds :
    /\ ~clobbered
    /\ Lookup(id) = {} => LogOf(id) = <<>>
    /\ \A l \in Lookup(id) :
         /\ l \in Requests /\ Inserted(l) /\ l \notin tainted /\ call[l].id = id
         /\ Lookup(id) = {l} /\ Sound(l)
         /\ LogOf(id) = [n \in 1 .. Length(l) |-> items[l][n - 1]]

LEMMA LogFacts == RefInv => LogMeaning
PROOF
  <1> SUFFICES ASSUME RefInv, NEW id \in Guids \ VoidIds
               PROVE  /\ ~clobbered
                      /\ Lookup(id) = {} => LogOf(id) = <<>>
                      /\ \A l \in Lookup(id) :
                           /\ l \in Requests /\ Inserted(l) /\ l \notin tainted
                           /\ call[l].id = id
                           /\ Lookup(id) = {l} /\ Sound(l)
                           /\ LogOf(id) = [n \in 1 .. Length(l) |-> items[l][n - 1]]
    BY DEF LogMeaning
  <1>1. ~clobbered /\ Lookup(id) \cap tainted = {}
    BY DEF VoidIds
  <1>2. ASSUME NEW l \in Lookup(id)
        PROVE  /\ l \in Requests /\ Inserted(l) /\ l \notin tainted
               /\ call[l].id = id /\ Lookup(id) = {l} /\ Sound(l)
               /\ LogOf(id) = [n \in 1 .. Length(l) |-> items[l][n - 1]]
    <2>1. l \in Requests /\ Inserted(l) /\ call[l].id = id
      BY <1>1 DEF RefInv, IInv, Base, Refs, Opened, Inserted, Inserting,
                  Dictionary, InUse, Lookup
    <2>2. Lookup(id) = {l}
      BY <1>1, <2>1, LookupFinds DEF RefInv, IInv
    <2>3. l \notin tainted /\ Sound(l)
      BY <1>1, <2>1 DEF RefInv, IInv, Safe, Inserted
    <2>4. Cardinality(Committed(l)) = Length(l)
      BY <2>1, <2>3, CommittedRange DEF RefInv, IInv
    <2>5. (CHOOSE m \in Lookup(id) : TRUE) = l
      BY <2>2
    <2>6. LogOf(id) = ListLog(l)
      BY <2>2, <2>5 DEF LogOf
    <2> QED
      BY <2>1, <2>2, <2>3, <2>4, <2>6 DEF ListLog
  <1> QED
    BY <1>1, <1>2 DEF LogOf

LEMMA LogFactsNext == RefInv' => LogMeaning'
  BY LogFacts, PTL

(* Every step but a restart leaves the dictionary, or adds the one list    *)
(* that is being inserted.                                                 *)
LEMMA LookupSame ==
  ASSUME Base, NEW r \in Requests, NEW id,
         \/ \E i \in Guids, v \in Versions : Save(r, i, v)
         \/ Miss(r) \/ OpenStream(r) \/ AddDuplicate(r) \/ PassCheck(r)
         \/ FailCheck(r) \/ ReadSize(r) \/ BumpSize(r) \/ WriteItem(r)
         \/ Publish(r)
  PROVE  Lookup(id)' = Lookup(id)
PROOF
  <1>1. current' = current
    BY DEF Save, Miss, OpenStream, AddDuplicate, PassCheck, FailCheck, ReadSize,
           BumpSize, WriteItem, Publish, locals, dict, lists, ghosts
  <1>2. \A k \in Slots : current[k] # NoRequest => call'[current[k]] = call[current[k]]
    <2>1. ASSUME NEW i \in Guids, NEW v \in Versions, Save(r, i, v),
                 NEW k \in Slots, current[k] # NoRequest
          PROVE  current[k] # r /\ call'[current[k]] = call[current[k]]
      BY <2>1, StoreAssumption DEF Save, Goto, Base, TypeOK, Refs, Opened, ListRefs
    <2> QED
      BY <2>1 DEF Miss, OpenStream, AddDuplicate, PassCheck, FailCheck, ReadSize,
                  BumpSize, WriteItem, Publish, locals
  <1> QED
    BY <1>1, <1>2 DEF Lookup

LEMMA LookupInserted ==
  ASSUME RefInv, RefInv', ~clobbered, NEW r \in Requests, Insert(r)
  PROVE  /\ \A id : id # call[r].id => Lookup(id)' = Lookup(id)
         /\ \A id : id = call[r].id => Lookup(id) = {} /\ Lookup(id)' = {r}
PROOF
  <1> USE StoreAssumption, SlotFacts DEF Insert, Goto, locals, ghosts
  <1>1. Base /\ Base' /\ OneInsert /\ InUse /\ OneList
    BY DEF RefInv, IInv, Dictionary
  <1>2. r \in Inserting /\ slot[r] = count /\ count \in Slots
    BY <1>1 DEF Inserting, OneInsert, Base, TypeOK
  <1>3. /\ current[count] = NoRequest /\ current'[count] = r
        /\ \A k \in Slots : k # count => current'[k] = current[k]
    BY <1>1, <1>2 DEF InUse, Base, TypeOK, Slots
  <1>4. \A id : id # call[r].id => Lookup(id)' = Lookup(id)
    BY <1>2, <1>3 DEF Lookup
  <1>5. Opened(r)
    BY <1>1 DEF Base, Refs, Opened
  <1>6. Lookup(call[r].id) = {}
    <2> SUFFICES ASSUME NEW k \in Slots, current[k] # NoRequest,
                        call[current[k]].id = call[r].id
                 PROVE  FALSE
      BY DEF Lookup
    <2>1. Opened(current[k]) /\ current[k] \notin Inserting
      BY <1>1 DEF Base, Refs, InUse
    <2> QED
      BY <1>1, <1>2, <1>5, <2>1 DEF OneList, Opened
  <1>7. ASSUME NEW id, id = call[r].id PROVE Lookup(id)' = {r}
    <2>1. \A k \in Slots : current'[k] # NoRequest /\ call[current'[k]].id = id
                            => k = count
      BY <1>3, <1>6, <1>7 DEF Lookup
    <2>2. Lookup(id)' = {current'[k] : k \in {n \in Slots :
                            current'[n] # NoRequest /\ call[current'[n]].id = id}}
      BY DEF Lookup
    <2>3. {n \in Slots : current'[n] # NoRequest /\ call[current'[n]].id = id}
            = {count}
      BY <1>2, <1>3, <1>7, <2>1
    <2> QED
      BY <1>3, <2>2, <2>3
  <1> QED
    BY <1>4, <1>6, <1>7

(* Nothing but a restart makes a void aggregate whole again. *)
LEMMA VoidGrows ==
  ASSUME RefInv, RefInv', NEW r \in Requests,
         SaveStep(r) \/ \E i \in Guids, v \in Versions : Save(r, i, v)
  PROVE  VoidIds \subseteq VoidIds'
PROOF
  <1>1. (clobbered => clobbered') /\ tainted \subseteq tainted'
    <2>1. CASE PassCheck(r)
      BY <2>1 DEF PassCheck
    <2>2. CASE OpenStream(r)
      BY <2>2 DEF OpenStream
    <2>3. ASSUME ~PassCheck(r), ~OpenStream(r)
          PROVE  UNCHANGED ghosts
      BY <2>3 DEF SaveStep, Save, Miss, AddDuplicate, Insert, FailCheck, ReadSize,
                  BumpSize, WriteItem, Publish
    <2> QED
      BY <2>1, <2>2, <2>3 DEF ghosts
  <1>2. CASE clobbered'
    BY <1>2 DEF VoidIds
  <1>3. CASE ~clobbered'
    <2>1. \A id \in Guids : Lookup(id) \subseteq Lookup(id)'
      BY <1>1, <1>3, LookupSame, LookupInserted DEF SaveStep, RefInv, IInv
    <2> QED
      BY <1>1, <1>3, <2>1 DEF VoidIds
  <1> QED
    BY <1>2, <1>3

(* The log of an aggregate stays when its list and its length stay.        *)
LEMMA LogKept ==
  ASSUME RefInv, RefInv', VoidIds \subseteq VoidIds',
         NEW id \in Guids \ VoidIds', Lookup(id)' = Lookup(id),
         \A l \in Lookup(id) :
            l \in Requests /\ l \notin tainted /\ Sound(l) =>
              /\ Length(l)' = Length(l)
              /\ \A k \in 0 .. Length(l) - 1 : items'[l][k] = items[l][k]
  PROVE  LogOf(id)' = LogOf(id)
PROOF
  <1>1. LogMeaning /\ LogMeaning'
    BY LogFacts, LogFactsNext
  <1>2. CASE Lookup(id) = {}
    BY <1>1, <1>2 DEF LogMeaning
  <1>3. ASSUME NEW l \in Lookup(id)
        PROVE  LogOf(id)' = LogOf(id)
    <2>1. /\ l \in Requests /\ l \notin tainted /\ Sound(l)
          /\ LogOf(id) = [n \in 1 .. Length(l) |-> items[l][n - 1]]
      BY <1>1 DEF LogMeaning
    <2>2. Length(l)' = Length(l) /\ Length(l) \in Nat
      BY <2>1, CommittedRange, StoreAssumption DEF RefInv, IInv
    <2>3. LogOf(id)' = [n \in 1 .. Length(l) |-> items'[l][n - 1]]
      BY <1>1, <2>2 DEF LogMeaning
    <2>4. \A n \in 1 .. Length(l) : items'[l][n - 1] = items[l][n - 1]
      BY <2>1, <2>2
    <2> QED
      BY <2>1, <2>3, <2>4
  <1> QED
    BY <1>2, <1>3

(* A log with one more event. *)
LEMMA OneMore ==
  ASSUME NEW n \in Nat, NEW S, NEW f \in [0 .. n - 1 -> S], NEW e \in S,
         NEW s, s = [k \in 1 .. n |-> f[k - 1]],
         NEW t, t = [k \in 1 .. n + 1 |-> IF k = n + 1 THEN e ELSE f[k - 1]]
  PROVE  t = Append(s, e) /\ Len(s) = n /\ Len(t) = n + 1
PROOF
  <1>1. s \in Seq(S) /\ Len(s) = n
    <2>1. \A k \in 1 .. n : f[k - 1] \in S
      OBVIOUS
    <2> QED
      BY <2>1
  <1>2. t \in Seq(S) /\ Len(t) = n + 1
    <2>1. \A k \in 1 .. n + 1 : (IF k = n + 1 THEN e ELSE f[k - 1]) \in S
      OBVIOUS
    <2> QED
      BY <2>1
  <1>3. Append(s, e) \in Seq(S) /\ Len(Append(s, e)) = n + 1
    BY <1>1
  <1>4. \A k \in 1 .. n + 1 : t[k] = Append(s, e)[k]
    BY <1>1
  <1> QED
    BY <1>1, <1>2, <1>3, <1>4

(* Every step but a write or a restart leaves the logs as they are: to     *)
(* insert an empty list, or to count the slot of an event that is not      *)
(* there yet, adds nothing to a log.                                       *)
LEMMA StepDisturbs ==
  ASSUME RefInv, RefInv', NEW r \in Requests, ~WriteItem(r),
         SaveStep(r) \/ \E i \in Guids, v \in Versions : Save(r, i, v)
  PROVE  Log!Disturb
PROOF
  <1>1. VoidIds \subseteq VoidIds'
    BY VoidGrows
  <1>2. ASSUME NEW id \in Guids \ VoidIds'
        PROVE  LogOf(id)' = LogOf(id)
    <2>1. LogMeaning /\ LogMeaning' /\ id \notin VoidIds /\ ~clobbered
      BY <1>1, <1>2, LogFacts, LogFactsNext DEF LogMeaning
    <2>2. CASE Insert(r) /\ id # call[r].id
      <3>1. Lookup(id)' = Lookup(id)
        BY <2>1, <2>2, LookupInserted
      <3>2. \A l \in Requests : Length(l)' = Length(l) /\ items'[l] = items[l]
        BY <2>2 DEF Insert, Goto, locals, lists, Length, Filling, Fills, RefInv,
                    IInv, Base, TypeOK
      <3> QED
        BY <1>1, <3>1, <3>2, LogKept
    <2>3. CASE Insert(r) /\ id = call[r].id
      <3>1. Lookup(id) = {} /\ Lookup(id)' = {r}
        BY <2>1, <2>3, LookupInserted
      <3>2. Opened(r) /\ r \notin tainted
        <4>1. r \notin tainted'
          BY <2>1, <3>1 DEF LogMeaning
        <4> QED
          BY <2>3, <4>1 DEF Insert, Goto, ghosts, RefInv, IInv, Base, Refs, Opened
      <3>3. Sound(r) /\ Writes(r, r)
        BY <2>3, <3>2 DEF RefInv, IInv, Safe, Insert, Goto, Writes, Writing, Opened
      <3>4. size[r] = 0
        <4>1. call[r].expected \in Int /\ size[r] \in Int
          BY StoreAssumption DEF RefInv, IInv, Base, TypeOK, Call
        <4>2. call[r].expected = call[r].expected + size[r]
          BY <2>3, <3>3 DEF Sound, WriterFits, Insert, Goto
        <4> QED
          BY <4>1, <4>2
      <3>5. Length(r)' = 0
        <4>1. size'[r] = 0
          BY <2>3, <3>4 DEF Insert, lists
        <4>2. ~Filling(r)'
          BY <2>3, <3>3 DEF Insert, Goto, locals, Sound, OneWriter, Writes, Fills,
                            Filling, Writing, RefInv, IInv, Base, TypeOK
        <4> QED
          BY <4>1, <4>2 DEF Length
      <3>6. LogOf(id)' = [n \in 1 .. 0 |-> items'[r][n - 1]]
        BY <2>1, <3>1, <3>5 DEF LogMeaning
      <3>7. LogOf(id)' = <<>>
        BY <3>6
      <3> QED
        BY <2>1, <3>1, <3>7 DEF LogMeaning
    <2>4. CASE BumpSize(r)
      <3>1. Lookup(id)' = Lookup(id)
        BY <2>4, LookupSame DEF RefInv, IInv
      <3>2. ASSUME NEW l \in Requests, l \notin tainted, Sound(l)
            PROVE  Length(l)' = Length(l) /\ items'[l] = items[l]
        <4> USE <2>4 DEF BumpSize, Goto, locals, RefInv, IInv, Base, TypeOK
        <4>1. items'[l] = items[l]
          OBVIOUS
        <4>2. CASE target[r] # l
          BY <4>2 DEF Length, Filling, Fills
        <4>3. CASE target[r] = l
          <5>1. Writes(r, l) /\ slot[r] = size[l]
            BY <3>2, <4>3 DEF Sound, WriterFits, Writes, Writing
          <5>2. ~Filling(l)
            BY <3>2, <5>1 DEF Sound, OneWriter, Writes, Fills, Filling, Writing
          <5>3. Filling(l)' /\ size'[l] = size[l] + 1
            BY <4>3, <5>1 DEF Filling, Fills
          <5> QED
            BY <4>1, <5>2, <5>3 DEF Length
        <4> QED
          BY <4>1, <4>2, <4>3
      <3> QED
        BY <1>1, <3>1, <3>2, LogKept
    <2>5. CASE ~Insert(r) /\ ~BumpSize(r)
      <3>1. Lookup(id)' = Lookup(id)
        BY <2>5, LookupSame DEF RefInv, IInv, SaveStep
      <3>2. UNCHANGED lists
        BY <2>5 DEF SaveStep, Save, Miss, OpenStream, AddDuplicate, PassCheck,
                    FailCheck, ReadSize, Publish
      <3>3. \A l, s \in Requests : Fills(s, l)' <=> Fills(s, l)
        BY <2>5 DEF SaveStep, Save, Miss, OpenStream, AddDuplicate, PassCheck,
                    FailCheck, ReadSize, Publish, Goto, locals, Fills,
                    RefInv, IInv, Base, TypeOK
      <3>4. \A l \in Requests : Length(l)' = Length(l) /\ items'[l] = items[l]
        BY <3>2, <3>3 DEF lists, Length, Filling
      <3> QED
        BY <1>1, <3>1, <3>4, LogKept
    <2> QED
      BY <2>2, <2>3, <2>4, <2>5
  <1> QED
    BY <1>1, <1>2 DEF Log!Disturb, Log!Frame, Logs

(* A write accepts one event, with the version that follows the last one,  *)
(* unless the aggregate is void.                                           *)
LEMMA WriteAccepts ==
  ASSUME RefInv, RefInv', NEW r \in Requests, WriteItem(r)
  PROVE  Log!Next
PROOF
  <1>0. PICK l : l = target[r]
    OBVIOUS
  <1>1. VoidIds \subseteq VoidIds'
    BY VoidGrows DEF SaveStep
  <1>2. LogMeaning /\ LogMeaning'
    BY LogFacts, LogFactsNext
  <1>3. l \in Requests /\ Opened(l) /\ slot[r] \in Slots
    BY <1>0, TargetIsList DEF WriteItem, Goto, RefInv, IInv, Base, TypeOK
  <1>4. ASSUME NEW m \in Requests, m # l
        PROVE  Length(m)' = Length(m) /\ items'[m] = items[m]
    BY <1>0, <1>3, <1>4 DEF WriteItem, Goto, locals, Length, Filling, Fills, RefInv,
                      IInv, Base, TypeOK
  <1>5. ASSUME NEW id \in Guids \ VoidIds', l \notin Lookup(id)
        PROVE  LogOf(id)' = LogOf(id)
    <2>1. Lookup(id)' = Lookup(id)
      BY LookupSame DEF RefInv, IInv
    <2>2. \A m \in Lookup(id) : m # l
      BY <1>5
    <2> QED
      BY <1>1, <1>4, <2>1, <2>2, LogKept
  <1>6. CASE \A id \in Guids \ VoidIds' : l \notin Lookup(id)
    <2>1. Log!Disturb
      BY <1>1, <1>5, <1>6 DEF Log!Disturb, Log!Frame, Logs
    <2> QED
      BY <2>1 DEF Log!Next
  <1>7. ASSUME NEW id \in Guids \ VoidIds', l \in Lookup(id)
        PROVE  Log!Next
    <2> DEFINE n == slot[r]
               e == [req |-> r, version |-> call[r].expected + 1]
    <2>1. /\ id \notin VoidIds /\ call[l].id = id
          /\ Sound(l) /\ Fills(r, l) /\ Writes(r, l)
      BY <1>0, <1>1, <1>2, <1>7 DEF LogMeaning, WriteItem, Goto, Fills, Writes, Writing
    <2>2. \A s \in Requests : Fills(s, l) => s = r
      BY <2>1 DEF Sound, OneWriter, Fills, Writes, Writing
    <2>3. size[l] = n + 1 /\ call[r].expected = call[l].expected + n /\ n \in Nat
      BY <1>3, <2>1, SlotFacts DEF Sound, WriterFits, Fills
    <2>4. Length(l) = n /\ Length(l)' = n + 1
      <3>1. Filling(l) /\ ~Filling(l)'
        BY <1>0, <2>1, <2>2 DEF Filling, Fills, WriteItem, Goto, locals, RefInv, IInv,
                          Base, TypeOK
      <3> QED
        BY <2>3, <3>1 DEF Length, WriteItem
    <2>5. items'[l] = [items[l] EXCEPT ![n] = e] /\ e \in Descriptor
          /\ items[l] \in [Slots -> Descriptor]
      BY <1>0, <1>3 DEF WriteItem, RefInv, IInv, Base, TypeOK, Descriptor, ListRefs,
                        Call
    <2>6. /\ LogOf(id) = [k \in 1 .. n |-> items[l][k - 1]]
          /\ LogOf(id)' = [k \in 1 .. n + 1 |-> items'[l][k - 1]]
      <3>1. Lookup(id)' = Lookup(id)
        BY LookupSame DEF RefInv, IInv
      <3> QED
        BY <1>2, <1>7, <2>1, <2>4, <3>1 DEF LogMeaning
    <2> HIDE DEF n, e
    <2>7. \A k \in 0 .. n - 1 : k \in Slots /\ items'[l][k] = items[l][k]
      <3>1. \A k \in 0 .. n - 1 : k \in Slots /\ k # n
        BY <1>3, <2>3, StoreAssumption DEF Slots, n
      <3> QED
        BY <2>5, <3>1
    <2>8. /\ LogOf(id)' = Append(LogOf(id), e)
          /\ Len(LogOf(id)) = n /\ Len(LogOf(id)') = n + 1
      <3> DEFINE f == [k \in 0 .. n - 1 |-> items[l][k]]
      <3>1. f \in [0 .. n - 1 -> Descriptor]
        BY <2>5, <2>7
      <3>2. LogOf(id) = [k \in 1 .. n |-> f[k - 1]]
        <4>1. \A k \in 1 .. n : k - 1 \in 0 .. n - 1
          BY <2>3
        <4> QED
          BY <2>6, <4>1
      <3>3. LogOf(id)' = [k \in 1 .. n + 1 |-> IF k = n + 1 THEN e ELSE f[k - 1]]
        <4>1. \A k \in 1 .. n + 1 : k = n + 1 \/ k - 1 \in 0 .. n - 1
          BY <2>3
        <4>2. \A k \in 1 .. n + 1 :
                items'[l][k - 1] = IF k = n + 1 THEN e ELSE f[k - 1]
          BY <1>3, <2>3, <2>5, <2>7, <4>1 DEF n
        <4> QED
          BY <2>6, <4>2
      <3> HIDE DEF f
      <3> QED
        BY <2>3, <2>5, <3>1, <3>2, <3>3, OneMore
    <2>9. LogOf(id)'[Len(LogOf(id)')] = e
      <3>1. LogOf(id)'[n + 1] = items'[l][n]
        BY <2>3, <2>6
      <3> QED
        BY <1>3, <2>5, <2>8, <3>1 DEF n
    <2>10. LogOf(id) # <<>>
             => e.version = LogOf(id)[Len(LogOf(id))].version + 1
      <3> SUFFICES ASSUME n > 0
                   PROVE  e.version = items[l][n - 1].version + 1
        BY <2>3, <2>6, <2>8
      <3>1. n - 1 \in Slots /\ n - 1 < size[l] /\ slot[r] # n - 1
        BY <2>3, <2>7 DEF n
      <3>2. items[l][n - 1].version = call[l].expected + (n - 1) + 1
        BY <2>1, <2>2, <3>1 DEF Sound, Numbered
      <3>3. call[l].expected \in Int
        BY <1>3 DEF RefInv, IInv, Base, TypeOK, Call
      <3> QED
        BY <2>3, <3>2, <3>3 DEF e
    <2>11. \A k \in 1 .. Len(LogOf(id)) : LogOf(id)[k].req # e.req
      <3> SUFFICES ASSUME NEW k \in 0 .. n - 1 PROVE items[l][k].req # r
        BY <2>3, <2>6, <2>8 DEF e
      <3> QED
        BY <1>3, <2>7, StoreAssumption
           DEF RefInv, Authors, Accepted, WriteItem, Goto
    <2>12. Log!Frame({id})
      <3>1. \A i \in Guids \ VoidIds' : i # id => l \notin Lookup(i)
        BY <1>1, <1>2, <2>1 DEF LogMeaning
      <3> QED
        BY <1>1, <1>5, <3>1 DEF Log!Frame, Logs
    <2>13. Log!Accept(id, e)
      BY <1>7, <2>8, <2>10, <2>11, <2>12 DEF Log!Accept, Logs
    <2>14. Logs'[id] = LogOf(id)'
      BY <1>7 DEF Logs
    <2> QED
      BY <1>7, <2>1, <2>3, <2>8, <2>9, <2>13, <2>14 DEF Log!Next
  <1> QED
    BY <1>6, <1>7

LEMMA RestartForgets ==
  ASSUME RefInv, RefInv', Restart
  PROVE  Log!Forget
PROOF
  <1>1. \A id : Lookup(id)' = {}
    BY DEF Restart, Lookup
  <1>2. VoidIds' = {} /\ \A id \in Guids : LogOf(id)' = <<>>
    <2>1. VoidIds' = {}
      BY <1>1 DEF Restart, VoidIds
    <2> QED
      BY <1>1, <2>1, LogFactsNext DEF LogMeaning
  <1> QED
    BY <1>2 DEF Log!Forget, Logs

(* The store implements the log it promises: an aggregate whose Saves      *)
(* never raced changes only by accepting one event with the next version,  *)
(* until a restart forgets everything (EventStore.Save, lines 31-62).      *)
THEOREM StoreImplementsLog == Spec => ImplementsAggregateLog
PROOF
  <1>1. Init => Log!Init
    <2> SUFFICES ASSUME Init PROVE Log!Init
      OBVIOUS
    <2>1. \A id : Lookup(id) = {}
      BY DEF Init, Lookup
    <2>2. VoidIds = {}
      BY <2>1 DEF Init, VoidIds
    <2>3. \A id \in Guids : LogOf(id) = <<>>
      BY <2>1, <2>2 DEF LogOf
    <2> QED
      BY <2>2, <2>3 DEF Log!Init, Logs
  <1>2. RefInv /\ RefInv' /\ [Next]_vars => [Log!Next]_(Log!vars)
    <2> SUFFICES ASSUME RefInv, RefInv', [Next]_vars
                 PROVE  [Log!Next]_(Log!vars)
      OBVIOUS
    <2>1. ASSUME NEW r \in Requests,
                 SaveStep(r) \/ \E i \in Guids, v \in Versions : Save(r, i, v)
          PROVE  Log!Next
      BY <2>1, StepDisturbs, WriteAccepts DEF Log!Next
    <2>2. CASE Restart
      BY <2>2, RestartForgets DEF Log!Next
    <2>3. CASE UNCHANGED vars
      <3>1. VoidIds' = VoidIds /\ Logs' = Logs
        BY <2>3 DEF vars, locals, dict, lists, ghosts, VoidIds, Lookup, Logs,
                    LogOf, ListLog, Committed, Pending, Writers
      <3> QED
        BY <3>1 DEF Log!vars
    <2> QED
      BY <2>1, <2>2, <2>3 DEF Next
  <1> QED
    BY <1>1, <1>2, RefInvariant, PTL DEF Spec, ImplementsAggregateLog, Log!Spec
=============================================================================
