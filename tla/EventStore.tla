----------------------------- MODULE EventStore -----------------------------
(***************************************************************************)
(* CQRS.Core/EventStore.cs: the in-memory event store shared, without a    *)
(* lock, by every thread-pool task that runs a command handler.            *)
(*                                                                         *)
(* A Dictionary<Guid, List<EventDescriptor>> maps an aggregate to its      *)
(* list.  Both collections are arrays with a counter, written in several   *)
(* memory accesses, so two tasks inside Add at once may claim the same     *)
(* slot; Save is therefore cut at each access to shared memory.  A list    *)
(* object is named by the request whose Save allocated it.                 *)
(*                                                                         *)
(* Each command handler saves an aggregate with exactly one new event, so  *)
(* the loop over the events is one turn and a request names its event.     *)
(***************************************************************************)
EXTENDS Integers, FiniteSets

CONSTANTS
  Requests,    \* the calls of Save, one per command that gets that far
  NoRequest,   \* no request: an empty slot, a null reference
  Guids,       \* aggregate identifiers
  EmptyGuid,   \* default(Guid)
  Versions,    \* the expected versions callers may pass
  Capacity     \* BOUND: length of each array; growth is not modelled

ASSUME StoreAssumption ==
  /\ NoRequest \notin Requests
  /\ EmptyGuid \in Guids
  /\ Versions \subseteq Int
  /\ Capacity \in Nat \ {0}

VARIABLES
  stage,      \* stage[r]: how far request r is inside Save
  call,       \* call[r]: the arguments of r's call
  target,     \* target[r]: the list the call works on
  slot,       \* slot[r]: the array slot it has read and not yet written
  current,    \* _current: dictionary slot -> list object
  count,      \* number of dictionary slots in use
  items,      \* items[l]: the array behind list l
  size,       \* size[l]: its Count
  tainted,    \* ghost: lists written by overlapping or unchecked Saves
  clobbered   \* ghost: two dictionary inserts overlapped

locals == <<call, target, slot>>
dict   == <<current, count>>
lists  == <<items, size>>
ghosts == <<tainted, clobbered>>
vars   == <<stage, locals, dict, lists, ghosts>>

Slots    == 0 .. Capacity - 1
ListRefs == Requests \cup {NoRequest}

(* An unwritten array element is default(EventDescriptor), version 0. *)
Descriptor == [req : ListRefs, version : Int]
Blank      == [req |-> NoRequest, version |-> 0]

Call   == [id : Guids, expected : Int]
Stages == {"idle", "saving", "opening", "inserting", "checked", "adding", "bumped",
           "stored", "published", "rejected", "lost"}

TypeOK ==
  /\ stage \in [Requests -> Stages]
  /\ call \in [Requests -> Call]
  /\ target \in [Requests -> ListRefs]
  /\ slot \in [Requests -> Slots]
  /\ current \in [Slots -> ListRefs]
  /\ count \in 0 .. Capacity
  /\ items \in [Requests -> [Slots -> Descriptor]]
  /\ size \in [Requests -> 0 .. Capacity]
  /\ tainted \subseteq Requests
  /\ clobbered \in BOOLEAN
-----------------------------------------------------------------------------
(* Requests between the version check and the write, or in _current.Add. *)
Writing    == {"inserting", "checked", "adding", "bumped"}
Writers(l) == {s \in Requests : target[s] = l /\ stage[s] \in Writing}

(* The lists a lookup of id may find (more than one only if inserts raced). *)
Lookup(id) == {current[k] : k \in {n \in Slots : /\ current[n] # NoRequest
                                                 /\ call[current[n]].id = id}}

(* What Get returns from list l: the first Count elements of the array. *)
History(l) == {items[l][k] : k \in 0 .. size[l] - 1}

(* eventDescriptors[Count - 1] throws on an empty list, as a conflict does. *)
LastVersion(l) == items[l][size[l] - 1].version
(* Mutated forms of Acceptable: no comparison, and the wrong comparison.   *)
Acceptable_Always(l, expected) == size[l] > 0
Acceptable_AtLeast(l, expected) ==
  size[l] > 0 /\ (LastVersion(l) >= expected \/ expected = -1)
Acceptable(l, expected) ==
  size[l] > 0 /\ (LastVersion(l) = expected \/ expected = -1)

Goto(r, from, to) == stage[r] = from /\ stage' = [stage EXCEPT ![r] = to]
-----------------------------------------------------------------------------
NoCall == [id |-> EmptyGuid, expected |-> -1]

Init ==
  /\ stage = [r \in Requests |-> "idle"]
  /\ call = [r \in Requests |-> NoCall]
  /\ target = [r \in Requests |-> NoRequest]
  /\ slot = [r \in Requests |-> 0]
  /\ current = [k \in Slots |-> NoRequest]
  /\ count = 0
  /\ items = [l \in Requests |-> [k \in Slots |-> Blank]]
  /\ size = [l \in Requests |-> 0]
  /\ tainted = {}
  /\ clobbered = FALSE

(* A command handler calls Save(id, one event, expected). *)
Save(r, id, expected) ==
  /\ Goto(r, "idle", "saving")
  /\ call' = [call EXCEPT ![r] = [id |-> id, expected |-> expected]]
  /\ UNCHANGED <<target, slot, dict, lists, ghosts>>

(* TryGetValue misses: the call is about to add a list of its own. *)
Miss(r) ==
  /\ Goto(r, "saving", "opening")
  /\ Lookup(call[r].id) = {}
  /\ UNCHANGED <<locals, dict, lists, ghosts>>

(* _current.Add finds no such key either, and claims a slot for the list. *)
OpenStream(r) ==
  /\ Goto(r, "opening", "inserting")
  /\ Lookup(call[r].id) = {}
  /\ count < Capacity
  /\ target' = [target EXCEPT ![r] = r]
  /\ slot' = [slot EXCEPT ![r] = count]
  /\ clobbered' = (clobbered \/ \E s \in Requests : stage[s] = "inserting")
  /\ UNCHANGED <<call, dict, lists, tainted>>

(* ArgumentException: another call has added the key since it was missed. *)
AddDuplicate(r) ==
  /\ Goto(r, "opening", "rejected")
  /\ Lookup(call[r].id) # {}
  /\ UNCHANGED <<locals, dict, lists, ghosts>>

(* Mutated form of Insert: the count is not increased. *)
Insert_NoCount(r) ==
  /\ Goto(r, "inserting", "checked")
  /\ current' = [current EXCEPT ![slot[r]] = r]
  /\ UNCHANGED <<locals, count, lists, ghosts>>

(* _current.Add writes the claimed slot and the count. *)
Insert(r) ==
  /\ Goto(r, "inserting", "checked")
  /\ current' = [current EXCEPT ![slot[r]] = r]
  /\ count' = slot[r] + 1
  /\ UNCHANGED <<locals, lists, ghosts>>

(* TryGetValue hits and the last event has the expected version, or the    *)
(* caller passed the wildcard -1.                                          *)
PassCheck(r) ==
  /\ Goto(r, "saving", "checked")
  /\ \E l \in Lookup(call[r].id) :
       /\ Acceptable(l, call[r].expected)
       /\ target' = [target EXCEPT ![r] = l]
       /\ tainted' = IF Writers(l) # {} \/ call[r].expected = -1
                       THEN tainted \cup {l} ELSE tainted
  /\ UNCHANGED <<call, slot, dict, lists, clobbered>>

(* Mutated form of FailCheck: a conflict is retried with the same version. *)
FailCheck_Retries(r) ==
  /\ Goto(r, "saving", "saving")
  /\ \E l \in Lookup(call[r].id) : ~Acceptable(l, call[r].expected)
  /\ UNCHANGED <<locals, dict, lists, ghosts>>

(* ConcurrencyException. *)
FailCheck(r) ==
  /\ Goto(r, "saving", "rejected")
  /\ \E l \in Lookup(call[r].id) : ~Acceptable(l, call[r].expected)
  /\ UNCHANGED <<locals, dict, lists, ghosts>>

(* List.Add reads the size, ... *)
ReadSize(r) ==
  /\ Goto(r, "checked", "adding")
  /\ size[target[r]] < Capacity
  /\ slot' = [slot EXCEPT ![r] = size[target[r]]]
  /\ UNCHANGED <<call, target, dict, lists, ghosts>>

(* Mutated form of BumpSize: the size grows by two. *)
BumpSize_Twice(r) ==
  /\ Goto(r, "adding", "bumped")
  /\ size' = [size EXCEPT ![target[r]] = slot[r] + 2]
  /\ UNCHANGED <<locals, dict, items, ghosts>>

(* ... stores the size plus one, ... *)
BumpSize(r) ==
  /\ Goto(r, "adding", "bumped")
  /\ size' = [size EXCEPT ![target[r]] = slot[r] + 1]
  /\ UNCHANGED <<locals, dict, items, ghosts>>

(* Mutated form of WriteItem: the version is not increased (no i++). *)
WriteItem_SameVersion(r) ==
  /\ Goto(r, "bumped", "stored")
  /\ items' = [items EXCEPT ![target[r]][slot[r]] =
                 [req |-> r, version |-> call[r].expected]]
  /\ UNCHANGED <<locals, dict, size, ghosts>>

(* ... and writes the event, numbered after the version the caller named.  *)
WriteItem(r) ==
  /\ Goto(r, "bumped", "stored")
  /\ items' = [items EXCEPT ![target[r]][slot[r]] =
                 [req |-> r, version |-> call[r].expected + 1]]
  /\ UNCHANGED <<locals, dict, size, ghosts>>

(* Mutated form of Publish: the event goes out before it is written. *)
Publish_Early(r) ==
  /\ Goto(r, "bumped", "published")
  /\ UNCHANGED <<locals, dict, lists, ghosts>>

(* _publisher.Publish(event), and Save returns. *)
Publish(r) ==
  /\ Goto(r, "stored", "published")
  /\ UNCHANGED <<locals, dict, lists, ghosts>>

(* The process stops and starts again: nothing was on disk. *)
Restart ==
  /\ stage' = [r \in Requests |-> IF stage[r] = "idle" THEN "idle" ELSE "lost"]
  /\ call' = [r \in Requests |-> NoCall]
  /\ target' = [r \in Requests |-> NoRequest]
  /\ slot' = [r \in Requests |-> 0]
  /\ current' = [k \in Slots |-> NoRequest]
  /\ count' = 0
  /\ items' = [l \in Requests |-> [k \in Slots |-> Blank]]
  /\ size' = [l \in Requests |-> 0]
  /\ tainted' = {}
  /\ clobbered' = FALSE

SaveStep(r) == \/ Miss(r) \/ OpenStream(r) \/ AddDuplicate(r) \/ Insert(r)
               \/ PassCheck(r)  \/ FailCheck(r)
               \/ ReadSize(r)   \/ BumpSize(r)  \/ WriteItem(r)
               \/ Publish(r)

Next == \/ \E r \in Requests, id \in Guids, v \in Versions : Save(r, id, v)
        \/ \E r \in Requests : SaveStep(r)
        \/ Restart

Spec == Init /\ [][Next]_vars
-----------------------------------------------------------------------------
Accepted == {r \in Requests : stage[r] \in {"stored", "published"}}
Created  == {l \in Requests : target[l] = l}

(* The array slots of list l that hold an accepted event: those below its  *)
(* Count, less the one a writer has counted and not filled yet.            *)
Pending(l)   == {slot[s] : s \in {t \in Writers(l) : stage[t] = "bumped"}}
Committed(l) == (0 .. size[l] - 1) \ Pending(l)

(* Unless two Saves overlapped on a list, or one used the wildcard, its    *)
(* events are numbered without a gap or a repetition from the version its  *)
(* creator named: the check in Save is enough when Saves do not overlap.   *)
UntaintedIsGapFree ==
  \A l \in Created \ tainted : \A k \in Committed(l) :
     /\ items[l][k].req # NoRequest
     /\ items[l][k].version = call[l].expected + k + 1

(* On such a list no accepted event is ever overwritten or cut off, and of *)
(* the Saves that named one version only one is accepted.                  *)
AcceptedIsKept ==
  \A r \in Accepted : target[r] \notin tainted =>
     /\ slot[r] \in Committed(target[r])
     /\ items[target[r]][slot[r]] =
          [req |-> r, version |-> call[r].expected + 1]
     /\ \A s \in Accepted \ {r} : target[s] = target[r]
                                   => call[s].expected # call[r].expected

(* Unless two dictionary inserts overlapped, each list that was inserted   *)
(* stays reachable, and it is the only one of its aggregate.               *)
DictionaryIntact ==
  ~clobbered => \A l \in Created : stage[l] # "inserting"
                  => Lookup(call[l].id) = {l}
=============================================================================
