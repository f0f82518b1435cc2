------------------------ MODULE ClientService_proofs ------------------------
(***************************************************************************)
(* Proofs about the client service, for any number of requests and ids and *)
(* any capacity: it is well typed, its callers keep to the protocol that   *)
(* ClientCommands assumes, and what a caller can see can be loaded.        *)
(*                                                                         *)
(* The protocol is the heart of it.  A caller who renames or deletes needs *)
(* an id whose creation was published; callers have their ids from the     *)
(* list of the read side, so the invariant follows an id all the way back: *)
(* known ids were announced (Known), a row is of a request whose event was *)
(* published (Shown), and an event carries the id its Save was called with *)
(* (EventOf).  With it every step of the service is a step of the command  *)
(* side or leaves it alone, and the theorems of ClientCommands_proofs and  *)
(* EventStore_proofs hold of the service.                                  *)
(*                                                                         *)
(* That the rows are right (RowsMatchStore) is about requests that come    *)
(* one at a time.  The invariant Turn follows the one that runs: it holds  *)
(* the end of its list, no handler has missed its row, and each row is the *)
(* projection of its list up to the event that was counted and has not yet *)
(* been handled.                                                           *)
(*                                                                         *)
(* The theorems assume Versions = Int.  DELETE sends the version it finds  *)
(* in the row, and a row's version is whatever the counting has led to: a  *)
(* field of type int.  (TLC runs use a set that is closed for their size.) *)
(***************************************************************************)
EXTENDS ClientService, TLAPS

C == INSTANCE ClientCommands_proofs

(* What the theorems of the command side assume of the constants. *)
LEMMA CommandHypotheses ==
  /\ NoRequest \notin Requests /\ EmptyGuid \notin Ids /\ EmptyName \in Names
  /\ Versions \subseteq Int /\ Capacity \in Nat \ {0}
  BY ServiceAssumption

LEMMA SameTerms ==
  /\ Commands!Store!Slots = C!Store!Slots
  /\ Commands!Store!Blank = C!Store!Blank
  /\ Commands!Store!NoCall = C!Store!NoCall
  /\ \A id : Commands!Store!Lookup(id) = C!Store!Lookup(id)
  /\ \A l : Commands!Store!History(l) = C!Store!History(l)
  /\ \A l : Commands!Store!Writers(l) = C!Store!Writers(l)
  /\ \A l, v : Commands!Store!Acceptable(l, v) <=> C!Store!Acceptable(l, v)
  /\ \A l : Commands!ReplayedIds(l) = C!ReplayedIds(l)
  /\ \A l : Commands!Replayable(l) <=> C!Replayable(l)
  /\ \A c : Commands!Valid(c) <=> C!Valid(c)
  /\ Commands!CreateCommands = C!CreateCommands
  /\ Commands!ChangeCommands = C!ChangeCommands
  BY DEF Commands!Store!Slots, C!Store!Slots, Commands!Store!Blank,
         C!Store!Blank, Commands!Store!NoCall, C!Store!NoCall,
         Commands!Store!Lookup, C!Store!Lookup, Commands!Store!History,
         C!Store!History, Commands!Store!Writers, C!Store!Writers,
         Commands!Store!Writing, C!Store!Writing, Commands!Store!Acceptable,
         C!Store!Acceptable, Commands!Store!LastVersion, C!Store!LastVersion,
         Commands!ReplayedIds, C!ReplayedIds, Commands!Replayable,
         C!Replayable, Commands!Valid, C!Valid, Commands!CreateCommands,
         C!CreateCommands, Commands!ChangeCommands, C!ChangeCommands,
         Commands!Sent, C!Sent

LEMMA SameSteps ==
  /\ Commands!Init <=> C!Init
  /\ Commands!Restart <=> C!Restart
  /\ \A r, c : Commands!Send(r, c) <=> C!Send(r, c)
  /\ \A r : Commands!Handle(r) <=> C!Handle(r)
  /\ \A r : Commands!Publish(r) <=> C!Publish(r)
PROOF
  <1> USE DEF Commands!Store!locals, C!Store!locals, Commands!Store!dict,
              C!Store!dict, Commands!Store!lists, C!Store!lists,
              Commands!Store!ghosts, C!Store!ghosts, Commands!Store!Goto,
              C!Store!Goto, Commands!storeVars, C!storeVars
  <1>1. Commands!Init <=> C!Init
    BY SameTerms DEF Commands!Init, C!Init, Commands!Store!Init, C!Store!Init,
                     Commands!NoCmd, C!NoCmd
  <1>2. Commands!Restart <=> C!Restart
    BY SameTerms DEF Commands!Restart, C!Restart, Commands!Store!Restart,
                     C!Store!Restart
  <1>3. \A r, c : Commands!Send(r, c) <=> C!Send(r, c)
    BY DEF Commands!Send, C!Send
  <1>4. \A r : Commands!Publish(r) <=> C!Publish(r)
    BY DEF Commands!Publish, C!Publish, Commands!Store!Publish, C!Store!Publish
  <1>5. \A r, id, v : Commands!Begin(r, id, v) <=> C!Begin(r, id, v)
    BY DEF Commands!Begin, C!Begin, Commands!Store!Save, C!Store!Save
  <1>6. \A r : /\ Commands!Create(r) <=> C!Create(r)
               /\ Commands!Change(r) <=> C!Change(r)
               /\ Commands!Refuse(r) <=> C!Refuse(r)
    BY SameTerms, <1>5
       DEF Commands!Create, C!Create, Commands!Change, C!Change,
           Commands!Refuse, C!Refuse
  <1>7. \A r : Commands!SaveStep(r) <=> C!SaveStep(r)
    BY SameTerms
       DEF Commands!SaveStep, C!SaveStep, Commands!Store!SaveStep,
           C!Store!SaveStep, Commands!Store!Miss, C!Store!Miss,
           Commands!Store!OpenStream, C!Store!OpenStream,
           Commands!Store!AddDuplicate, C!Store!AddDuplicate,
           Commands!Store!Insert, C!Store!Insert, Commands!Store!PassCheck,
           C!Store!PassCheck, Commands!Store!FailCheck, C!Store!FailCheck,
           Commands!Store!ReadSize, C!Store!ReadSize,
           Commands!Store!BumpSize, C!Store!BumpSize,
           Commands!Store!WriteItem, C!Store!WriteItem,
           Commands!Store!Publish, C!Store!Publish
  <1>8. \A r : Commands!Handle(r) <=> C!Handle(r)
    BY <1>6, <1>7 DEF Commands!Handle, C!Handle
  <1> QED
    BY <1>1, <1>2, <1>3, <1>4, <1>8
-----------------------------------------------------------------------------
(* The read side: a task works on an event that was published, and a row   *)
(* object belongs to a creation event.                                     *)
IsCreated(q) == q \in Requests /\ event[q].type = "create"

Tasks == \A q \in Requests :
  /\ detailTask[q] # "none" \/ listTask[q] # "none" => event[q] # Rows!NoEvent
  /\ detailTask[q] = "adding" => IsCreated(q) /\ claim[q]["detail"] < Capacity
  /\ listTask[q] \in {"adding", "bumped"}
       => IsCreated(q) /\ claim[q]["list"] < Capacity
Shown == \A k \in Rows!Slots :
  /\ details[k] # NoRequest => IsCreated(details[k])
  /\ list[k] # NoRequest => IsCreated(list[k])

ReadInv == Rows!TypeOK /\ Tasks /\ Shown

LEMMA EventTypes ==
  ASSUME ReadInv, NEW q \in Requests, event[q] # Rows!NoEvent
  PROVE  /\ event[q] \in Rows!Event /\ event[q].name \in Names
         /\ event[q].version \in Int /\ event[q].id \in Guids
  BY DEF ReadInv, Rows!TypeOK, Rows!Event

LEMMA DetailReadInv ==
  ASSUME ReadInv, NEW r \in Requests, Rows!DetailStep(r)
  PROVE  ReadInv'
PROOF
  <1> USE CommandHypotheses
      DEF ReadInv, Rows!TypeOK, Tasks, Shown, IsCreated, Rows!Detail, Rows!Rows,
          Rows!listVars, Rows!TaskStages
  <1>1. detailTask[r] # "none" => /\ event[r] \in Rows!Event
                                  /\ event[r].name \in Names
                                  /\ event[r].version \in Int
    BY EventTypes
  <1>2. CASE Rows!DetailClaim(r)
    BY <1>2 DEF Rows!DetailClaim
  <1>3. CASE Rows!DetailAdd(r)
    <2>1. claim[r]["detail"] + 1 \in 0 .. Capacity
      BY <1>3 DEF Rows!DetailAdd
    <2>2. [name |-> event[r].name, version |-> 1] \in [name : Names, version : Int]
      BY <1>1, <1>3 DEF Rows!DetailAdd
    <2> QED
      BY <1>3, <2>1, <2>2 DEF Rows!DetailAdd
  <1>4. CASE Rows!DetailName(r)
    <2>1. PICK d : row' = [row EXCEPT ![d].name = event[r].name]
      BY <1>4 DEF Rows!DetailName
    <2>2. detailTask[r] # "none"
      BY <1>4 DEF Rows!DetailName
    <2>3. row' \in [Requests -> [name : Names, version : Int]]
      BY <1>1, <2>1, <2>2
    <2> QED
      BY <1>4, <2>3 DEF Rows!DetailName
  <1>5. CASE Rows!DetailVersion(r)
    <2>1. PICK d : row' = [row EXCEPT ![d].version = event[r].version]
      BY <1>5 DEF Rows!DetailVersion
    <2>2. detailTask[r] # "none"
      BY <1>5 DEF Rows!DetailVersion
    <2>3. row' \in [Requests -> [name : Names, version : Int]]
      BY <1>1, <2>1, <2>2
    <2> QED
      BY <1>5, <2>3 DEF Rows!DetailVersion
  <1>6. CASE Rows!DetailMissing(r)
    BY <1>6 DEF Rows!DetailMissing
  <1> QED
    BY <1>2, <1>3, <1>4, <1>5, <1>6 DEF Rows!DetailStep

LEMMA ListReadInv ==
  ASSUME ReadInv, NEW r \in Requests, Rows!ListStep(r)
  PROVE  ReadInv'
PROOF
  <1> USE CommandHypotheses
      DEF ReadInv, Rows!TypeOK, Tasks, Shown, IsCreated, Rows!List, Rows!Rows,
          Rows!detailVars, Rows!TaskStages
  <1>1. listTask[r] # "none" => event[r].name \in Names
    BY EventTypes
  <1>2. CASE Rows!ListRead(r)
    BY <1>2 DEF Rows!ListRead
  <1>3. CASE Rows!ListBump(r)
    BY <1>3 DEF Rows!ListBump
  <1>4. CASE Rows!ListAdd(r)
    BY <1>1, <1>4 DEF Rows!ListAdd
  <1>5. CASE Rows!ListRename(r)
    <2>1. PICK q : listName' = [listName EXCEPT ![q] = event[r].name]
      BY <1>5 DEF Rows!ListRename
    <2>2. listName' \in [Requests -> Names]
      BY <1>1, <1>5, <2>1 DEF Rows!ListRename
    <2> QED
      BY <1>5, <2>2 DEF Rows!ListRename
  <1>6. CASE Rows!ListMissing(r)
    BY <1>6 DEF Rows!ListMissing
  <1> QED
    BY <1>2, <1>3, <1>4, <1>5, <1>6 DEF Rows!ListStep

LEMMA ReceiveReadInv ==
  ASSUME ReadInv, NEW r \in Requests, NEW e \in Rows!Event, Rows!Receive(r, e)
  PROVE  ReadInv'
PROOF
  <1>1. e # Rows!NoEvent
    BY DEF Rows!Event, Rows!NoEvent
  <1>2. /\ event[r] = Rows!NoEvent /\ event' = [event EXCEPT ![r] = e]
        /\ detailTask' \in {detailTask, [detailTask EXCEPT ![r] = "queued"]}
        /\ listTask' \in {listTask, [listTask EXCEPT ![r] = "queued"]}
        /\ UNCHANGED <<details, detailCount, row, list, listSize, listName, claim>>
    BY DEF Rows!Receive, ReadInv, Rows!TypeOK
  <1>3. event[r].type # "create"
    BY <1>2 DEF Rows!NoEvent
  <1>4. detailTask[r] = "none" /\ listTask[r] = "none"
    BY <1>2 DEF ReadInv, Tasks
  <1>5. Rows!TypeOK'
    BY <1>2 DEF ReadInv, Rows!TypeOK, Rows!TaskStages
  <1>6. Tasks'
    BY <1>1, <1>2, <1>3, <1>4
       DEF ReadInv, Rows!TypeOK, Tasks, IsCreated
  <1>7. Shown'
    BY <1>2, <1>3 DEF ReadInv, Rows!TypeOK, Shown, IsCreated
  <1> QED
    BY <1>5, <1>6, <1>7 DEF ReadInv

LEMMA EmptyReadInv ==
  /\ Rows!Init => ReadInv
  /\ Rows!Restart => ReadInv'
PROOF
  <1>1. /\ Rows!NoRow \in [name : Names, version : Int]
        /\ 0 \in 0 .. Capacity
    BY CommandHypotheses DEF Rows!NoRow
  <1>2. Rows!Init => ReadInv
    BY <1>1, CommandHypotheses
       DEF Rows!Init, ReadInv, Rows!TypeOK, Tasks, Shown, Rows!Rows,
           Rows!TaskStages
  <1>3. Rows!Restart => ReadInv'
    BY <1>1, CommandHypotheses
       DEF Rows!Restart, ReadInv, Rows!TypeOK, Tasks, Shown, Rows!Rows,
           Rows!TaskStages
  <1> QED
    BY <1>2, <1>3
-----------------------------------------------------------------------------
(* What callers know was announced, and each event handed to the read side *)
(* is the one its request has stored.                                      *)
Known ==
  /\ known \subseteq announced
  /\ alone \in BOOLEAN
  /\ \A q \in Requests :
       /\ stage[q] = "published" <=> event[q] # Rows!NoEvent
       /\ event[q] # Rows!NoEvent => event[q] = EventOf(q)

SInv == C!CInv /\ ReadInv /\ Known

LEMMA CommandTypes ==
  ASSUME SInv
  PROVE  /\ cmd \in [Requests -> C!Command]
         /\ task \in [Requests -> {"unsent", "queued", "saving", "failed"}]
         /\ stage \in [Requests -> C!Proved!Stages]
         /\ call \in [Requests -> C!Proved!Call]
         /\ announced \subseteq Ids
         /\ \A r \in Requests : stage[r] = "idle" <=> task[r] # "saving"
  BY CommandHypotheses, C!StoreTypes DEF SInv, C!CInv, C!Commanded

(* A row shows an id that was announced. *)
LEMMA ShownAnnounced ==
  ASSUME SInv, NEW q \in Requests, IsCreated(q)
  PROVE  /\ event[q].id = call[q].id /\ event[q].id \in announced
         /\ C!IsCreate(q) /\ stage[q] = "published"
PROOF
  <1>1. event[q] = EventOf(q) /\ stage[q] = "published"
    BY DEF SInv, Known, IsCreated, Rows!NoEvent
  <1>2. event[q].id = call[q].id /\ cmd[q].type = "create"
    BY <1>1 DEF EventOf, IsCreated
  <1>3. C!IsCreate(q)
    BY <1>1, <1>2, CommandTypes DEF C!IsCreate, C!Sent
  <1> QED
    BY <1>1, <1>2, <1>3 DEF SInv, C!CInv, C!Creations

LEMMA RequestSends ==
  ASSUME SInv, Versions = Int, NEW r \in Requests, Request(r)
  PROVE  /\ UNCHANGED <<known, readVars>> /\ alone' \in BOOLEAN
         /\ \E c \in C!CreateCommands \cup C!ChangeCommands : C!Send(r, c)
PROOF
  <1>1. known \subseteq announced
    BY DEF SInv, Known
  <1>2. CASE Post(r)
    BY <1>2, SameTerms, SameSteps DEF Request, Post
  <1>3. CASE PutName(r)
    <2>1. PICK id \in known \cup {EmptyGuid}, n \in Names, v \in PutVersions :
            Commands!Send(r, [type |-> "rename", id |-> id, name |-> n,
                              version |-> v])
      BY <1>3 DEF PutName
    <2>2. [type |-> "rename", id |-> id, name |-> n, version |-> v]
            \in C!ChangeCommands
      BY <1>1, ServiceAssumption DEF C!ChangeCommands
    <2> QED
      BY <1>3, <2>1, <2>2, SameSteps DEF Request, PutName
  <1>4. CASE Delete(r)
    <2>1. PICK id \in known : \E d \in Rows!DetailRows(id) :
            Commands!Send(r, [type |-> "remove", id |-> id, name |-> EmptyName,
                              version |-> row[d].version])
      BY <1>4 DEF Delete
    <2>2. PICK d \in Rows!DetailRows(id) :
            Commands!Send(r, [type |-> "remove", id |-> id, name |-> EmptyName,
                              version |-> row[d].version])
      BY <2>1
    <2>3. d \in Requests
      BY DEF Rows!DetailRows, SInv, ReadInv, Rows!TypeOK, Rows!Rows
    <2>4. row[d].version \in Versions
      BY <2>3 DEF SInv, ReadInv, Rows!TypeOK
    <2>5. [type |-> "remove", id |-> id, name |-> EmptyName,
           version |-> row[d].version] \in C!ChangeCommands
      BY <1>1, <2>4 DEF C!ChangeCommands
    <2> QED
      BY <1>4, <2>2, <2>5, SameSteps DEF Request, Delete
  <1>5. alone' \in BOOLEAN
    BY DEF Request, SInv, Known
  <1> QED
    BY <1>2, <1>3, <1>4, <1>5 DEF Request

LEMMA WritesOfService ==
  ASSUME SInv, Versions = Int, [Next]_vars
  PROVE  [C!Next]_(C!vars)
PROOF
  <1>1. ASSUME NEW r \in Requests, Request(r) PROVE C!Next
    BY <1>1, RequestSends DEF C!Next
  <1>2. ASSUME NEW r \in Requests, Handle(r) \/ Publish(r) PROVE C!Next
    BY <1>2, SameSteps DEF Handle, Publish, C!Next
  <1>3. CASE Restart
    BY <1>3, SameSteps DEF Restart, C!Next
  <1>4. ASSUME UNCHANGED writeVars PROVE UNCHANGED C!vars
    BY <1>4 DEF writeVars, C!vars, C!storeVars
  <1>5. ASSUME GetList \/ (\E r \in Requests : HandlerStep(r)) \/ UNCHANGED vars
        PROVE  UNCHANGED writeVars
    BY <1>5 DEF GetList, HandlerStep, vars
  <1> QED
    BY <1>1, <1>2, <1>3, <1>4, <1>5 DEF Next, Task

LEMMA ReadInvNext ==
  ASSUME SInv, Versions = Int, [Next]_vars
  PROVE  ReadInv'
PROOF
  <1>1. ASSUME UNCHANGED readVars PROVE ReadInv'
    BY <1>1 DEF readVars, SInv, ReadInv, Rows!TypeOK, Tasks, Shown, IsCreated
  <1>2. ASSUME NEW r \in Requests, HandlerStep(r) PROVE ReadInv'
    BY <1>2, DetailReadInv, ListReadInv DEF SInv, HandlerStep, Rows!HandlerStep
  <1>3. ASSUME NEW r \in Requests, Publish(r) PROVE ReadInv'
    <2>1. EventOf(r) \in Rows!Event
      BY CommandTypes
         DEF EventOf, Rows!Event, C!Command, C!Types, C!Proved!Call, Guids,
             C!Guids
    <2> QED
      BY <1>3, <2>1, ReceiveReadInv DEF Publish, SInv
  <1>4. CASE Restart
    BY <1>4, EmptyReadInv DEF Restart
  <1>5. ASSUME NEW r \in Requests, Request(r) PROVE ReadInv'
    BY <1>1, <1>5, RequestSends
  <1> QED
    BY <1>1, <1>2, <1>3, <1>4, <1>5 DEF Next, Task, Handle, GetList, vars

LEMMA KnownNext ==
  ASSUME SInv, Versions = Int, [Next]_vars
  PROVE  Known'
PROOF
  <1>1. /\ Known /\ stage \in [Requests -> C!Proved!Stages]
        /\ event \in [Requests -> Rows!Event \cup {Rows!NoEvent}]
    BY CommandTypes DEF SInv, ReadInv, Rows!TypeOK
  <1>2. ASSUME UNCHANGED event, alone' \in BOOLEAN, known' \subseteq announced',
               \A q \in Requests : (stage'[q] = "published") = (stage[q] = "published"),
               \A q \in Requests : stage[q] = "published"
                 => cmd'[q] = cmd[q] /\ call'[q] = call[q]
        PROVE  Known'
    BY <1>1, <1>2 DEF Known, EventOf
  <1>3. ASSUME NEW r \in Requests, Request(r) PROVE Known'
    <2>1. PICK c : C!Send(r, c)
      BY <1>3, RequestSends
    <2>2. /\ UNCHANGED <<stage, call, announced>>
          /\ \A q \in Requests \ {r} : cmd'[q] = cmd[q]
          /\ stage[r] = "idle"
      BY <2>1, CommandTypes DEF C!Send, C!storeVars
    <2>3. UNCHANGED <<known, event>> /\ alone' \in BOOLEAN
      BY <1>3, RequestSends DEF readVars
    <2> QED
      BY <1>1, <1>2, <2>2, <2>3 DEF Known
  <1>4. ASSUME NEW r \in Requests, Handle(r) PROVE Known'
    <2>1. C!Handle(r) /\ UNCHANGED <<known, alone, event>>
      BY <1>4, SameSteps DEF Handle, readVars
    <2>2. CASE C!Create(r) \/ C!Change(r)
      <3>1. /\ UNCHANGED <<cmd, announced>>
            /\ \E id, v : C!Proved!Save(r, id, v)
        BY <2>2, CommandHypotheses, C!BeginsSave DEF SInv
      <3>2. /\ stage[r] = "idle" /\ stage'[r] = "saving"
            /\ \A q \in Requests \ {r} : stage'[q] = stage[q] /\ call'[q] = call[q]
        BY <3>1, CommandTypes DEF C!Proved!Save, C!Proved!Goto
      <3> QED
        BY <1>1, <1>2, <2>1, <3>1, <3>2 DEF Known
    <2>3. CASE C!Refuse(r)
      BY <1>1, <1>2, <2>1, <2>3 DEF C!Refuse, C!storeVars, Known
    <2>4. CASE C!SaveStep(r)
      <3>1. /\ UNCHANGED <<cmd, announced>>
            /\ stage[r] # "published" /\ stage'[r] # "published"
            /\ \A q \in Requests \ {r} : stage'[q] = stage[q]
        BY <2>4, CommandHypotheses, C!SaveStepMoves DEF SInv
      <3>2. call' = call
        BY <2>4 DEF C!SaveStep, C!Store!SaveStep, C!Store!Miss,
                    C!Store!OpenStream, C!Store!AddDuplicate, C!Store!Insert,
                    C!Store!PassCheck, C!Store!FailCheck, C!Store!ReadSize,
                    C!Store!BumpSize, C!Store!WriteItem, C!Store!Publish,
                    C!Store!locals
      <3> QED
        BY <1>1, <1>2, <2>1, <3>1, <3>2 DEF Known
    <2> QED
      BY <2>1, <2>2, <2>3, <2>4 DEF C!Handle
  <1>5. ASSUME NEW r \in Requests, Publish(r) PROVE Known'
    <2>1. /\ stage' = [stage EXCEPT ![r] = "published"]
          /\ event' = [event EXCEPT ![r] = EventOf(r)]
          /\ announced \subseteq announced'
          /\ UNCHANGED <<cmd, call, known, alone>>
      BY <1>5, SameSteps
         DEF Publish, C!Publish, C!Store!Publish, C!Store!Goto, C!Store!locals,
             Rows!Receive
    <2>2. EventOf(r) # Rows!NoEvent
      BY CommandTypes DEF EventOf, Rows!NoEvent, C!Command, C!Types
    <2>3. \A q \in Requests : EventOf(q)' = EventOf(q)
      BY <2>1 DEF EventOf
    <2> QED
      BY <1>1, <2>1, <2>2, <2>3 DEF Known
  <1>6. ASSUME NEW r \in Requests, HandlerStep(r) PROVE Known'
    <2>1. UNCHANGED <<event, known, alone, stage, cmd, call, announced>>
      BY <1>6 DEF HandlerStep, writeVars, Rows!HandlerStep, Rows!DetailStep,
                  Rows!ListStep, Rows!DetailClaim, Rows!DetailAdd,
                  Rows!DetailName, Rows!DetailVersion, Rows!DetailMissing,
                  Rows!ListRead, Rows!ListBump, Rows!ListAdd, Rows!ListRename,
                  Rows!ListMissing, Rows!Detail, Rows!List
    <2> QED
      BY <1>1, <1>2, <2>1 DEF Known
  <1>7. CASE GetList
    <2>1. \A q \in Rows!Listed : q \in announced
      <3>1. \A k \in 0 .. listSize - 1 : k \in Rows!Slots
        BY CommandHypotheses DEF SInv, ReadInv, Rows!TypeOK, Rows!Slots
      <3>2. \A k \in Rows!Slots : list[k] # NoRequest
              => list[k] \in Requests /\ event[list[k]].id \in announced
        BY ShownAnnounced DEF SInv, ReadInv, Shown, IsCreated
      <3> QED
        BY <3>1, <3>2 DEF Rows!Listed
    <2> QED
      BY <1>1, <1>2, <1>7, <2>1 DEF GetList, writeVars, readVars, Known
  <1>8. CASE Restart
    <2>1. /\ \A q \in Requests : stage'[q] \in {"idle", "lost"}
          /\ \A q \in Requests : event'[q] = Rows!NoEvent
          /\ UNCHANGED <<known, alone, announced>>
      BY <1>8, SameSteps
         DEF Restart, C!Restart, C!Store!Restart, Rows!Restart
    <2> QED
      BY <1>1, <2>1 DEF Known
  <1>9. CASE UNCHANGED vars
    BY <1>1, <1>2, <1>9 DEF vars, writeVars, readVars, Known
  <1> QED
    BY <1>3, <1>4, <1>5, <1>6, <1>7, <1>8, <1>9 DEF Next, Task

LEMMA SInvInit == Init => SInv
PROOF
  <1> SUFFICES ASSUME Init PROVE SInv
    OBVIOUS
  <1>1. C!Init /\ Rows!Init /\ known = {} /\ alone = TRUE
    BY SameSteps DEF Init
  <1>2. C!CInv
    BY <1>1, CommandHypotheses, C!CInvInit
  <1>3. \A q \in Requests : stage[q] = "idle" /\ event[q] = Rows!NoEvent
    BY <1>1 DEF C!Init, C!Store!Init, Rows!Init
  <1> QED
    BY <1>1, <1>2, <1>3, EmptyReadInv DEF SInv, Known

LEMMA SInvNext ==
  ASSUME SInv, Versions = Int, [Next]_vars
  PROVE  SInv'
PROOF
  <1>1. C!CInv'
    BY WritesOfService, CommandHypotheses, C!CInvNext DEF SInv
  <1> QED
    BY <1>1, ReadInvNext, KnownNext DEF SInv

LEMMA AlwaysSInv == ASSUME Versions = Int PROVE Spec => []SInv
PROOF
  <1>1. SInv /\ [Next]_vars => SInv'
    BY SInvNext
  <1> QED
    BY <1>1, SInvInit, PTL DEF Spec

LEMMA UsesC == ASSUME Versions = Int PROVE Spec => C!Spec
PROOF
  <1>1. Init => C!Init
    BY SameSteps DEF Init
  <1>2. SInv /\ [Next]_vars => [C!Next]_(C!vars)
    BY WritesOfService
  <1> QED
    BY <1>1, <1>2, AlwaysSInv, PTL DEF Spec, C!Spec

-----------------------------------------------------------------------------
(* Callers of the web service, who learn ids from the list only, keep to   *)
(* the protocol that the write side assumes: an id is used only after its  *)
(* creation was published.  The version a DELETE sends comes from a row,   *)
(* so Versions is to be all that an int stands for                         *)
(* (ClientsController.cs).                                                 *)
THEOREM ServiceUsesCommands == ASSUME Versions = Int PROVE Spec => UsesCommands
PROOF
  <1>1. C!Init <=> Commands!Init
    BY SameSteps
  <1>2. [C!Next]_(C!vars) <=> [Commands!Next]_(Commands!vars)
    <2>1. C!Next <=> Commands!Next
      BY SameSteps, SameTerms DEF C!Next, Commands!Next
    <2>2. UNCHANGED C!vars <=> UNCHANGED Commands!vars
      BY DEF C!vars, Commands!vars, C!storeVars, Commands!storeVars
    <2> QED
      BY <2>1, <2>2
  <1> QED
    BY <1>1, <1>2, UsesC, PTL DEF UsesCommands, C!Spec, Commands!Spec

(* The types of both sides; a slot that a read-side task claims is one of  *)
(* the array's (ClientMemoryDatabase.cs).                                  *)
THEOREM ServiceTypeCorrect == ASSUME Versions = Int PROVE Spec => []TypeOK
PROOF
  <1>1. C!TypeOK <=> Commands!TypeOK
    BY DEF C!TypeOK, Commands!TypeOK, C!Store!TypeOK, Commands!Store!TypeOK,
           C!Store!Slots, Commands!Store!Slots, C!Store!Stages,
           Commands!Store!Stages, C!Store!Call, Commands!Store!Call,
           C!Store!ListRefs, Commands!Store!ListRefs, C!Store!Descriptor,
           Commands!Store!Descriptor, C!Command, Commands!Command, C!Types,
           Commands!Types, C!Guids, Commands!Guids, C!Store!Stages
  <1>2. C!Spec => []C!TypeOK
    BY CommandHypotheses, C!TypeCorrect
  <1>3. SInv /\ Commands!TypeOK => TypeOK
    BY DEF SInv, ReadInv, Known, TypeOK, C!CInv, C!Commanded
  <1> QED
    BY <1>1, <1>2, <1>3, UsesC, AlwaysSInv, PTL

(* A client that a row shows can be loaded by a command: its list is found *)
(* and replaying it yields the row's id, although the row is written by    *)
(* tasks of its own (Repository.cs:32, ClientListEventHandlers.cs).        *)
THEOREM SeenIsLoaded == ASSUME Versions = Int PROVE Spec => []SeenCanBeLoaded
PROOF
  <1>1. ASSUME SInv, C!Whole, NEW q \in Requests, IsCreated(q)
        PROVE  \E l \in Commands!Store!Lookup(event[q].id) :
                 Commands!ReplayedIds(l) = {event[q].id}
    <2>1. /\ event[q].id = call[q].id /\ C!IsCreate(q)
          /\ stage[q] = "published"
      BY <1>1, ShownAnnounced
    <2>2. C!Opened(q)
      <3>1. C!Running(q)
        BY <2>1 DEF C!Running
      <3>2. target[q] \in {q, NoRequest}
        BY <1>1, <2>1, <3>1, CommandHypotheses, C!CreationFacts
      <3>3. target[q] # NoRequest
        BY <1>1, <2>1, CommandHypotheses, C!ListFacts
      <3> QED
        BY <3>2, <3>3 DEF C!Opened
    <2>3. C!Proved!Lookup(call[q].id) = {q}
      <3>1. /\ C!Proved!Base /\ C!Proved!Dictionary /\ ~clobbered
            /\ C!Proved!Inserted(q)
        BY <1>1, <2>1, <2>2
           DEF C!Whole, C!Proved!RefInv, C!Proved!IInv, C!Proved!Inserted,
               C!Proved!Inserting, C!Opened, C!Proved!Opened
      <3> QED
        BY <3>1, CommandHypotheses, C!StoreHypotheses, C!Proved!LookupFinds
    <2>4. C!ReplayedIds(q) = {call[q].id}
      BY <1>1, <2>1, <2>2, CommandHypotheses, C!ReplaysOwn
    <2>5. Commands!Store!Lookup(call[q].id) = {q}
      BY <2>3, SameTerms, CommandHypotheses, C!SameTerms
    <2> QED
      BY <2>1, <2>4, <2>5, SameTerms
  <1>2. ASSUME SInv, C!CInv, C!Proved!RefInv, ~clobbered => C!Streams
        PROVE  SeenCanBeLoaded
    <2>1. ~clobbered => C!Whole
      BY <1>2 DEF C!Whole
    <2>2. \A q \in {details[k] : k \in Rows!Slots} \cup {list[k] : k \in Rows!Slots} :
            q # NoRequest => IsCreated(q)
      BY <1>2 DEF SInv, ReadInv, Shown
    <2> QED
      BY <1>1, <1>2, <2>1, <2>2 DEF SeenCanBeLoaded, IsCreated
  <1>3. C!Spec => [](C!CInv /\ C!Proved!RefInv /\ (~clobbered => C!Streams))
    BY CommandHypotheses, C!AlwaysStreams
  <1> QED
    BY <1>2, <1>3, UsesC, AlwaysSInv, PTL
-----------------------------------------------------------------------------
(* One request at a time.  While the only request runs, the rows are the   *)
(* projection of a list up to the event that it has counted and whose      *)
(* handler has not run yet; then they catch up.                            *)

(* The last of the first n events of a list that is not a removal, with    *)
(* the commands c they come from, gives the name x.                        *)
LastName(s, c, n, x) == \E k \in 0 .. n - 1 :
  /\ c[s[k].req].type # "remove" /\ c[s[k].req].name = x
  /\ \A j \in k .. n - 1 : /\ s[j].req # NoRequest
                           /\ j # k => c[s[j].req].type = "remove"

LEMMA LastNameSame ==
  ASSUME NEW s, NEW c, NEW t, NEW d, NEW x, NEW n \in Int, LastName(s, c, n, x),
         \A j \in 0 .. n - 1 : t[j] = s[j],
         \A j \in 0 .. n - 1 : s[j].req # NoRequest => d[s[j].req] = c[s[j].req]
  PROVE  LastName(t, d, n, x)
PROOF
  <1>1. PICK k \in 0 .. n - 1 :
          /\ c[s[k].req].type # "remove" /\ c[s[k].req].name = x
          /\ \A j \in k .. n - 1 : /\ s[j].req # NoRequest
                                   /\ j # k => c[s[j].req].type = "remove"
    BY DEF LastName
  <1>2. \A j \in k .. n - 1 : j \in 0 .. n - 1
    OBVIOUS
  <1>3. k \in k .. n - 1
    OBVIOUS
  <1>4. d[t[k].req].type # "remove" /\ d[t[k].req].name = x
    BY <1>1, <1>3
  <1>5. \A j \in k .. n - 1 : /\ t[j].req # NoRequest
                              /\ j # k => d[t[j].req].type = "remove"
    BY <1>1, <1>2
  <1> QED
    BY <1>4, <1>5 DEF LastName

LEMMA LastNameGiven ==
  ASSUME NEW s, NEW c, NEW n \in Nat,
         s[n].req # NoRequest, c[s[n].req].type # "remove"
  PROVE  LastName(s, c, n + 1, c[s[n].req].name)
PROOF
  <1>1. n \in 0 .. (n + 1) - 1 /\ n .. (n + 1) - 1 = {n}
    OBVIOUS
  <1> QED
    BY <1>1 DEF LastName

LEMMA LastNameStays ==
  ASSUME NEW s, NEW c, NEW x, NEW n \in Nat, LastName(s, c, n, x),
         s[n].req # NoRequest, c[s[n].req].type = "remove"
  PROVE  LastName(s, c, n + 1, x)
PROOF
  <1>1. PICK k \in 0 .. n - 1 :
          /\ c[s[k].req].type # "remove" /\ c[s[k].req].name = x
          /\ \A j \in k .. n - 1 : /\ s[j].req # NoRequest
                                   /\ j # k => c[s[j].req].type = "remove"
    BY DEF LastName
  <1>2. \A j \in k .. (n + 1) - 1 : j = n \/ j \in k .. n - 1
    OBVIOUS
  <1>3. k \in 0 .. (n + 1) - 1
    OBVIOUS
  <1> QED
    BY <1>1, <1>2, <1>3 DEF LastName

(* It is the name that the projection of RowsMatchStore takes. *)
LEMMA LastNameChosen ==
  ASSUME NEW l, NEW x, size[l] \in Int, LastName(items[l], cmd, size[l], x)
  PROVE  NameAfter(l) = x
PROOF
  <1> DEFINE named == {k \in 0 .. size[l] - 1 :
                         cmd[items[l][k].req].type # "remove"}
             last(k) == \A n \in named : n <= k
  <1>1. PICK k \in 0 .. size[l] - 1 :
          /\ cmd[items[l][k].req].type # "remove"
          /\ cmd[items[l][k].req].name = x
          /\ \A j \in k .. size[l] - 1 :
               j # k => cmd[items[l][j].req].type = "remove"
    BY DEF LastName
  <1>2. k \in named /\ last(k)
    BY <1>1
  <1>3. \A m \in named : last(m) => m = k
    BY <1>2
  <1>4. (CHOOSE m \in named : last(m)) = k
    BY <1>2, <1>3
  <1> QED
    BY <1>1, <1>4 DEF NameAfter

Solo == \A r, s \in Requests : ~Idle(r) /\ ~Idle(s) => r = s

(* No handler misses its row. *)
Handled == \A q \in Requests :
  /\ event[q].type = "create" =>
       /\ detailTask[q] \in {"queued", "adding", "done"}
       /\ listTask[q] \in {"queued", "adding", "bumped", "done"}
  /\ event[q].type = "rename" =>
       /\ detailTask[q] \in {"queued", "named", "done"}
       /\ listTask[q] \in {"queued", "done"}
  /\ event[q].type = "remove" =>
       detailTask[q] \in {"queued", "done"} /\ listTask[q] = "none"
  /\ event[q].type = "none" => detailTask[q] = "none" /\ listTask[q] = "none"

(* A creation that was handled has its row, at a slot of its own. *)
DetailTable ==
  /\ \A k \in Rows!Slots : details[k] # NoRequest <=> k < detailCount
  /\ \A q \in Requests : IsCreated(q) /\ detailTask[q] = "done"
       => \E k \in Rows!Slots : details[k] = q
  /\ \A q \in Requests :
       detailTask[q] = "adding" => claim[q]["detail"] = detailCount
ListTable ==
  /\ \A k \in Rows!Slots : k >= listSize => list[k] = NoRequest
  /\ \A k \in Rows!Slots : k < listSize /\ list[k] = NoRequest
       => \E q \in Requests : listTask[q] = "bumped" /\ claim[q]["list"] = k
  /\ \A q \in Requests : IsCreated(q) /\ listTask[q] = "done"
       => \E k \in Rows!Slots : list[k] = q
  /\ \A k \in Rows!Slots : list[k] # NoRequest => listTask[list[k]] = "done"
  /\ \A k, n \in Rows!Slots :
       list[k] # NoRequest /\ list[k] = list[n] => k = n
  /\ \A q \in Requests :
       /\ listTask[q] = "adding" => claim[q]["list"] = listSize
       /\ listTask[q] = "bumped" => /\ claim[q]["list"] + 1 = listSize
                                    /\ list[claim[q]["list"]] = NoRequest

(* The request that runs holds the end of its list, and works on one that  *)
(* both handlers have made rows for.                                       *)
Later(r, l)    == r # l /\ target[r] = l
Unpublished(r) == stage[r] \in {"bumped", "stored"}
Counted(r)     == Unpublished(r) \/ (stage[r] = "published" /\ ~Idle(r))
AtEnd == \A r \in Requests :
  /\ stage[r] = "adding" => slot[r] = size[target[r]]
  /\ Counted(r) => size[target[r]] = slot[r] + 1
  /\ Counted(r) /\ stage[r] # "bumped" =>
       items[target[r]][slot[r]] = [req |-> r, version |-> call[r].expected + 1]
  /\ \A l \in Requests :
       Later(r, l) => detailTask[l] = "done" /\ listTask[l] = "done"

(* How many events of list l each row has taken in. *)
NameLag(l)    == \E r \in Requests :
  Later(r, l) /\ (Unpublished(r) \/ detailTask[r] = "queued")
VersionLag(l) == \E r \in Requests :
  Later(r, l) /\ (Unpublished(r) \/ detailTask[r] \in {"queued", "named"})
ListLag(l)    == \E r \in Requests :
  Later(r, l) /\ (Unpublished(r) \/ listTask[r] = "queued")
NamesIn(l)    == IF NameLag(l) THEN size[l] - 1 ELSE size[l]
VersionsIn(l) == IF VersionLag(l) THEN size[l] - 1 ELSE size[l]
ListedIn(l)   == IF ListLag(l) THEN size[l] - 1 ELSE size[l]

NameShown(l)    == detailTask[l] = "done" =>
  LastName(items[l], cmd, NamesIn(l), row[l].name)
VersionShown(l) == detailTask[l] = "done" =>
  row[l].version = IF VersionsIn(l) = 1
                     THEN 1 ELSE items[l][VersionsIn(l) - 1].version
ListShown(l)    == listTask[l] = "done" =>
  LastName(items[l], cmd, ListedIn(l), listName[l])
Projected(l)    == NameShown(l) /\ VersionShown(l) /\ ListShown(l)
Shows == \A l \in Requests : IsCreated(l) => Projected(l)

Turn == Solo /\ Handled /\ DetailTable /\ ListTable /\ AtEnd /\ Shows

LEMMA TurnTypes ==
  ASSUME SInv
  PROVE  /\ cmd \in [Requests -> C!Command]
         /\ task \in [Requests -> {"unsent", "queued", "saving", "failed"}]
         /\ stage \in [Requests -> C!Proved!Stages]
         /\ call \in [Requests -> C!Proved!Call]
         /\ \A r \in Requests : stage[r] = "idle" <=> task[r] # "saving"
         /\ target \in [Requests -> Requests \cup {NoRequest}]
         /\ slot \in [Requests -> Rows!Slots]
         /\ size \in [Requests -> 0 .. Capacity]
         /\ items \in [Requests -> [Rows!Slots -> C!Proved!Descriptor]]
         /\ Rows!TypeOK
  BY CommandTypes
     DEF SInv, ReadInv, C!CInv, C!Proved!Base, C!Proved!TypeOK, C!Proved!Slots,
         C!Proved!ListRefs, Rows!Slots

(* A client with rows, its list, its creation and its event are one. *)
LEMMA CreatedFacts ==
  ASSUME SInv, C!Whole
  PROVE  /\ \A l \in Requests : IsCreated(l) <=> C!Opened(l) /\ stage[l] = "published"
         /\ \A r \in Requests : event[r].type # "none" <=> stage[r] = "published"
         /\ \A r \in Requests : stage[r] = "published" =>
              /\ event[r] = EventOf(r) /\ event[r].type = cmd[r].type
              /\ event[r].id = call[r].id /\ event[r].name = cmd[r].name
              /\ event[r].version = call[r].expected + 1
              /\ target[r] \in Requests
         /\ \A r, l \in Requests : Later(r, l) =>
              /\ IsCreated(l) /\ C!IsChange(r) /\ call[l].id = call[r].id
         /\ \A l, m \in Requests :
              IsCreated(l) /\ IsCreated(m) /\ event[l].id = event[m].id => l = m
PROOF
  <1>1. \A r \in Requests : cmd[r].type \in {"create", "rename", "remove"}
    BY TurnTypes DEF C!Command, C!Types
  <1>2. \A r \in Requests : event[r].type # "none" <=> stage[r] = "published"
    <2>1. \A r \in Requests : EventOf(r).type = cmd[r].type
      BY DEF EventOf
    <2>2. Rows!NoEvent.type = "none"
      BY DEF Rows!NoEvent
    <2> QED
      BY <1>1, <2>1, <2>2 DEF SInv, Known
  <1>3. \A r \in Requests : target[r] # NoRequest => target[r] \in Requests
    BY TurnTypes
  <1>4. \A r \in Requests : stage[r] = "published" =>
          /\ event[r] = EventOf(r) /\ event[r].type = cmd[r].type
          /\ event[r].id = call[r].id /\ event[r].name = cmd[r].name
          /\ event[r].version = call[r].expected + 1
          /\ target[r] \in Requests
    <2>1. ASSUME NEW r \in Requests, stage[r] = "published"
          PROVE  event[r] = EventOf(r) /\ target[r] # NoRequest
      BY <2>1, CommandHypotheses, C!ListFacts DEF SInv, Known
    <2> QED
      BY <1>3, <2>1 DEF EventOf
  <1>5. ASSUME NEW l \in Requests
        PROVE  IsCreated(l) <=> C!Opened(l) /\ stage[l] = "published"
    <2>1. ASSUME IsCreated(l) PROVE C!Opened(l) /\ stage[l] = "published"
      <3>1. stage[l] = "published" /\ C!IsCreate(l) /\ C!Running(l)
        BY <2>1, ShownAnnounced DEF C!Running
      <3>2. target[l] \in {l, NoRequest}
        BY <3>1, CommandHypotheses, C!CreationFacts
      <3> QED
        BY <1>4, <3>1, <3>2, CommandHypotheses DEF C!Opened
    <2>2. ASSUME C!Opened(l), stage[l] = "published" PROVE IsCreated(l)
      BY <1>4, <2>2, CommandHypotheses, C!ListFacts DEF IsCreated, C!IsCreate
    <2> QED
      BY <2>1, <2>2
  <1>6. ASSUME NEW r \in Requests, NEW l \in Requests, Later(r, l)
        PROVE  IsCreated(l) /\ C!IsChange(r) /\ call[l].id = call[r].id
    <2>1. l # NoRequest /\ target[r] = l /\ r # l
      BY <1>6, CommandHypotheses DEF Later
    <2>2. C!Opened(l) /\ C!Running(r) /\ (C!IsCreate(r) \/ C!IsChange(r))
      BY <2>1, CommandHypotheses, C!ListFacts
    <2>3. ~C!IsCreate(r)
      BY <2>1, <2>2, CommandHypotheses, C!CreationFacts
    <2>4. stage[l] = "published"
      BY <2>1, <2>2, <2>3, CommandHypotheses, C!ChangeFacts
    <2>5. call[l].id = call[r].id
      BY <2>1 DEF C!Whole, C!Streams, C!SameIds
    <2> QED
      BY <1>5, <2>2, <2>3, <2>4, <2>5
  <1>7. ASSUME NEW l \in Requests, NEW m \in Requests,
               IsCreated(l), IsCreated(m), event[l].id = event[m].id
        PROVE  l = m
    BY <1>4, <1>5, <1>7, CommandHypotheses, C!ListFacts
  <1> QED
    BY <1>2, <1>4, <1>5, <1>6, <1>7

(* Only the request that runs can keep a row behind its list. *)
LEMMA SoloFacts ==
  ASSUME SInv, C!Whole, Turn, NEW r \in Requests, ~Idle(r)
  PROVE  /\ \A s \in Requests : s # r => Idle(s)
         /\ \A s \in Requests : s # r =>
              /\ stage[s] \in {"idle", "rejected", "lost", "published"}
              /\ detailTask[s] \in {"none", "done"}
              /\ listTask[s] \in {"none", "done"}
         /\ \A l \in Requests :
              /\ NameLag(l) <=> /\ Later(r, l)
                                /\ Unpublished(r) \/ detailTask[r] = "queued"
              /\ VersionLag(l) <=> /\ Later(r, l)
                                   /\ Unpublished(r) \/ detailTask[r] \in {"queued", "named"}
              /\ ListLag(l) <=> /\ Later(r, l)
                                /\ Unpublished(r) \/ listTask[r] = "queued"
PROOF
  <1>1. \A s \in Requests : s # r => Idle(s)
    BY DEF Turn, Solo
  <1>2. ASSUME NEW s \in Requests, s # r
        PROVE  /\ stage[s] \in {"idle", "rejected", "lost", "published"}
               /\ detailTask[s] \in {"none", "done"}
               /\ listTask[s] \in {"none", "done"}
    <2>1. Idle(s)
      BY <1>1, <1>2
    <2>2. stage[s] \in {"idle", "rejected", "lost", "published"}
      BY <2>1, TurnTypes DEF Idle
    <2>3. CASE stage[s] # "published"
      BY <2>2, <2>3, CreatedFacts DEF Turn, Handled
    <2>4. CASE stage[s] = "published"
      <3>1. task[s] = "saving"
        BY <2>4, TurnTypes
      <3>2. detailTask[s] \in Ended /\ listTask[s] \in Ended
        BY <2>1, <2>4, <3>1 DEF Idle
      <3>3. event[s].type \in {"create", "rename", "remove"}
        BY <2>4, CreatedFacts, TurnTypes DEF C!Command, C!Types
      <3> QED
        BY <2>2, <3>2, <3>3 DEF Turn, Handled, Ended
    <2> QED
      BY <2>3, <2>4
  <1> QED
    BY <1>1, <1>2 DEF NameLag, VersionLag, ListLag, Later, Unpublished

LEMMA CountFacts ==
  ASSUME SInv, C!Whole, Turn, NEW l \in Requests, IsCreated(l)
  PROVE  /\ size[l] \in 1 .. Capacity
         /\ NamesIn(l) \in 1 .. size[l]
         /\ VersionsIn(l) \in 1 .. size[l]
         /\ ListedIn(l) \in 1 .. size[l]
PROOF
  <1>1. size[l] \in 1 .. Capacity
    <2>1. size[l] >= 1
      BY CreatedFacts DEF C!Whole, C!Streams, C!FirstSlot
    <2> QED
      BY <2>1, TurnTypes, CommandHypotheses
  <1>2. ASSUME NEW r \in Requests, Later(r, l),
               \/ Unpublished(r)
               \/ detailTask[r] \in {"queued", "named"}
               \/ listTask[r] = "queued"
        PROVE  size[l] >= 2
    <2>1. ASSUME ~Unpublished(r) PROVE Counted(r) /\ stage[r] = "published"
      <3>1. detailTask[r] \in {"queued", "named"} \/ listTask[r] = "queued"
        BY <1>2, <2>1
      <3>2. event[r].type # "none"
        BY <3>1 DEF Turn, Handled
      <3>3. stage[r] = "published"
        BY <3>2, CreatedFacts
      <3> QED
        BY <3>1, <3>3, TurnTypes DEF Counted, Idle, Ended
    <2>2. Counted(r) /\ stage[r] \in C!Added
      BY <2>1 DEF Counted, Unpublished, C!Added
    <2>3. target[r] = l /\ target[r] # r
      BY <1>2 DEF Later
    <2>4. slot[r] >= 1
      BY <2>2, <2>3 DEF C!Whole, C!Streams, C!LaterSlots
    <2>5. size[l] = slot[r] + 1
      BY <2>2, <2>3 DEF Turn, AtEnd
    <2> QED
      BY <2>4, <2>5, TurnTypes DEF Rows!Slots
  <1>3. /\ NameLag(l) => size[l] >= 2
        /\ VersionLag(l) => size[l] >= 2
        /\ ListLag(l) => size[l] >= 2
    BY <1>2 DEF NameLag, VersionLag, ListLag
  <1> QED
    BY <1>1, <1>3 DEF NamesIn, VersionsIn, ListedIn

(* The events of a list come from requests that were accepted. *)
LEMMA EventsAccepted ==
  ASSUME SInv, C!Whole, NEW l \in Requests, NEW j \in 0 .. size[l] - 1,
         items[l][j].req # NoRequest
  PROVE  /\ items[l][j].req \in Requests
         /\ stage[items[l][j].req] \in {"stored", "published"}
PROOF
  <1>1. j \in Rows!Slots /\ Rows!Slots = C!Proved!Slots
    BY TurnTypes, CommandHypotheses DEF Rows!Slots, C!Proved!Slots
  <1>2. items[l][j].req \in Requests
    BY <1>1, TurnTypes DEF C!Proved!Descriptor, C!Proved!ListRefs
  <1> QED
    BY <1>1, <1>2
       DEF C!Whole, C!Proved!RefInv, C!Proved!Authors, C!Proved!Accepted

LEMMA NamesSame ==
  ASSUME SInv, C!Whole, NEW l \in Requests, NEW n \in 1 .. size[l], NEW x,
         LastName(items[l], cmd, n, x),
         \A j \in 0 .. n - 1 : items'[l][j] = items[l][j],
         \A q \in Requests :
           stage[q] \in {"stored", "published"} => cmd'[q] = cmd[q]
  PROVE  LastName(items'[l], cmd', n, x)
PROOF
  <1>1. size[l] \in Int
    BY TurnTypes, CommandHypotheses
  <1>2. \A j \in 0 .. n - 1 : j \in 0 .. size[l] - 1
    BY <1>1
  <1>3. n \in Int
    BY <1>1
  <1>4. \A j \in 0 .. n - 1 : items[l][j].req # NoRequest
          => cmd'[items[l][j].req] = cmd[items[l][j].req]
    BY <1>2, EventsAccepted
  <1> QED
    BY <1>3, <1>4, LastNameSame

LEMMA NameSame ==
  ASSUME SInv, C!Whole, Turn, NEW l \in Requests, IsCreated(l),
         detailTask'[l] = "done" =>
           detailTask[l] = "done" /\ row'[l].name = row[l].name,
         NamesIn(l)' = NamesIn(l),
         \A j \in 0 .. NamesIn(l) - 1 : items'[l][j] = items[l][j],
         \A q \in Requests :
           stage[q] \in {"stored", "published"} => cmd'[q] = cmd[q]
  PROVE  NameShown(l)'
PROOF
  <1> SUFFICES ASSUME detailTask'[l] = "done"
               PROVE  LastName(items'[l], cmd', NamesIn(l)', row'[l].name)
    BY DEF NameShown
  <1>1. LastName(items[l], cmd, NamesIn(l), row[l].name)
    BY DEF Turn, Shows, Projected, NameShown
  <1>2. LastName(items'[l], cmd', NamesIn(l), row[l].name)
    BY <1>1, CountFacts, NamesSame
  <1> QED
    BY <1>2

LEMMA VersionSame ==
  ASSUME SInv, C!Whole, Turn, NEW l \in Requests, IsCreated(l),
         detailTask'[l] = "done" =>
           detailTask[l] = "done" /\ row'[l].version = row[l].version,
         VersionsIn(l)' = VersionsIn(l),
         items'[l][VersionsIn(l) - 1] = items[l][VersionsIn(l) - 1]
  PROVE  VersionShown(l)'
PROOF
  <1>1. VersionShown(l)
    BY DEF Turn, Shows, Projected
  <1> QED
    BY <1>1 DEF VersionShown

LEMMA ListSame ==
  ASSUME SInv, C!Whole, Turn, NEW l \in Requests, IsCreated(l),
         listTask'[l] = "done" =>
           listTask[l] = "done" /\ listName'[l] = listName[l],
         ListedIn(l)' = ListedIn(l),
         \A j \in 0 .. ListedIn(l) - 1 : items'[l][j] = items[l][j],
         \A q \in Requests :
           stage[q] \in {"stored", "published"} => cmd'[q] = cmd[q]
  PROVE  ListShown(l)'
PROOF
  <1> SUFFICES ASSUME listTask'[l] = "done"
               PROVE  LastName(items'[l], cmd', ListedIn(l)', listName'[l])
    BY DEF ListShown
  <1>1. LastName(items[l], cmd, ListedIn(l), listName[l])
    BY DEF Turn, Shows, Projected, ListShown
  <1>2. LastName(items'[l], cmd', ListedIn(l), listName[l])
    BY <1>1, CountFacts, NamesSame
  <1> QED
    BY <1>2

LEMMA ProjectedSame ==
  ASSUME SInv, C!Whole, Turn, NEW l \in Requests, IsCreated(l),
         UNCHANGED <<detailTask, listTask, row, listName>>,
         NamesIn(l)' = NamesIn(l), VersionsIn(l)' = VersionsIn(l),
         ListedIn(l)' = ListedIn(l),
         \A j \in 0 .. size[l] - 1 :
           \/ items'[l][j] = items[l][j]
           \/ j >= NamesIn(l) /\ j >= VersionsIn(l) /\ j >= ListedIn(l),
         \A q \in Requests :
           stage[q] \in {"stored", "published"} => cmd'[q] = cmd[q]
  PROVE  Projected(l)'
PROOF
  <1>1. /\ NamesIn(l) \in 1 .. size[l] /\ VersionsIn(l) \in 1 .. size[l]
        /\ ListedIn(l) \in 1 .. size[l] /\ size[l] \in Int
    BY CountFacts, CommandHypotheses
  <1>2. NameShown(l)'
    BY <1>1, NameSame
  <1>3. VersionShown(l)'
    BY <1>1, VersionSame
  <1>4. ListShown(l)'
    BY <1>1, ListSame
  <1> QED
    BY <1>2, <1>3, <1>4 DEF Projected

(* A step of the request that runs leaves the others idle. *)
LEMMA SoloKept ==
  ASSUME Turn, NEW r \in Requests, ~Idle(r),
         \A s \in Requests : s # r => (Idle(s) => Idle(s)')
  PROVE  Solo'
  BY DEF Turn, Solo

LEMMA RequestTurn ==
  ASSUME SInv, C!Whole, Turn, Versions = Int, NEW r \in Requests, Request(r), alone'
  PROVE  Turn'
PROOF
  <1>1. PICK c : C!Send(r, c)
    BY RequestSends
  <1>2. /\ UNCHANGED <<stage, call, target, slot, items, size, readVars>>
        /\ \A s \in Requests : s # r => task'[s] = task[s] /\ cmd'[s] = cmd[s]
        /\ stage[r] = "idle" /\ \A s \in Requests : Idle(s)
    BY <1>1, RequestSends, TurnTypes
       DEF Request, C!Send, C!storeVars, Quiet
  <1> USE DEF readVars
  <1>3. \A s \in Requests : s # r => Idle(s)'
    BY <1>2 DEF Idle
  <1>4. Solo'
    BY <1>3 DEF Solo
  <1>5. Handled' /\ DetailTable' /\ ListTable'
    BY <1>2 DEF Turn, Handled, DetailTable, ListTable, IsCreated
  <1>6. AtEnd'
    <2>1. \A s \in Requests : Counted(s)' => Counted(s)
      BY <1>2, <1>3 DEF Counted, Unpublished
    <2> QED
      BY <1>2, <2>1 DEF Turn, AtEnd, Later
  <1>7. Shows'
    <2>1. ASSUME NEW l \in Requests, IsCreated(l) PROVE Projected(l)'
      <3>1. /\ NamesIn(l)' = NamesIn(l) /\ VersionsIn(l)' = VersionsIn(l)
            /\ ListedIn(l)' = ListedIn(l)
        BY <1>2 DEF NamesIn, VersionsIn, ListedIn, NameLag, VersionLag, ListLag,
                    Later, Unpublished
      <3> QED
        BY <1>2, <2>1, <3>1, ProjectedSame
    <2> QED
      BY <1>2, <2>1 DEF Shows, IsCreated
  <1> QED
    BY <1>4, <1>5, <1>6, <1>7 DEF Turn

Early == {"idle", "saving", "opening", "inserting", "checked", "adding", "rejected"}

(* A step of a task that has not counted its event yet.                    *)
LEMMA EarlyTurn ==
  ASSUME SInv, C!Whole, Turn, NEW r \in Requests, ~Idle(r),
         UNCHANGED <<cmd, items, size, readVars>>,
         stage[r] \in Early, stage'[r] \in Early,
         \A s \in Requests : s # r =>
           /\ stage'[s] = stage[s] /\ task'[s] = task[s] /\ call'[s] = call[s]
           /\ target'[s] = target[s] /\ slot'[s] = slot[s],
         stage'[r] = "adding" => slot'[r] = size[target'[r]],
         \A l \in Requests : Later(r, l)' =>
           detailTask[l] = "done" /\ listTask[l] = "done"
  PROVE  Turn'
PROOF
  <1> USE DEF readVars
  <1>1. Solo'
    BY SoloKept DEF Idle
  <1>2. Handled' /\ DetailTable' /\ ListTable'
    BY DEF Turn, Handled, DetailTable, ListTable, IsCreated
  <1>3. AtEnd'
    <2>1. \A s \in Requests : Counted(s)' => Counted(s) /\ s # r
      BY DEF Counted, Unpublished, Idle, Early
    <2> QED
      BY <2>1 DEF Turn, AtEnd, Later
  <1>4. Shows'
    <2>1. detailTask[r] = "none" /\ listTask[r] = "none"
      BY CreatedFacts DEF Turn, Handled, Early
    <2>2. ASSUME NEW l \in Requests, IsCreated(l) PROVE Projected(l)'
      <3>1. /\ NameLag(l)' <=> NameLag(l)
            /\ VersionLag(l)' <=> VersionLag(l)
            /\ ListLag(l)' <=> ListLag(l)
        BY <2>1 DEF NameLag, VersionLag, ListLag, Later, Unpublished, Early
      <3>2. /\ NamesIn(l)' = NamesIn(l) /\ VersionsIn(l)' = VersionsIn(l)
            /\ ListedIn(l)' = ListedIn(l)
        BY <3>1 DEF NamesIn, VersionsIn, ListedIn
      <3> QED
        BY <2>2, <3>2, ProjectedSame
    <2> QED
      BY <2>2 DEF Shows, IsCreated
  <1> QED
    BY <1>1, <1>2, <1>3, <1>4 DEF Turn

(* List.Add counts the event: each row falls one behind.                   *)
LEMMA BumpTurn ==
  ASSUME SInv, C!Whole, Turn, NEW r \in Requests, C!Store!BumpSize(r),
         UNCHANGED <<cmd, task, readVars>>
  PROVE  Turn'
PROOF
  <1> USE DEF readVars
  <1>1. /\ stage[r] = "adding" /\ stage' = [stage EXCEPT ![r] = "bumped"]
        /\ size' = [size EXCEPT ![target[r]] = slot[r] + 1]
        /\ UNCHANGED <<call, target, slot, items>>
    BY DEF C!Store!BumpSize, C!Store!Goto, C!Store!locals
  <1>2. slot[r] = size[target[r]]
    BY <1>1 DEF Turn, AtEnd
  <1>3. /\ task[r] = "saving" /\ ~Idle(r)
        /\ detailTask[r] = "none" /\ listTask[r] = "none"
    <2>1. task[r] = "saving"
      BY <1>1, TurnTypes
    <2> QED
      BY <1>1, <2>1, CreatedFacts DEF Idle, Turn, Handled
  <1>4. Solo'
    BY <1>1, <1>3, TurnTypes, SoloKept DEF Idle
  <1>5. Handled' /\ DetailTable' /\ ListTable'
    BY DEF Turn, Handled, DetailTable, ListTable, IsCreated
  <1>6. target[r] \in Requests
    BY <1>1, TurnTypes, CommandHypotheses, C!ListFacts
  <1>7. AtEnd'
    <2>1. \A s \in Requests : s # r => ~Counted(s)' /\ stage'[s] # "adding"
      BY <1>1, <1>3, SoloFacts, TurnTypes DEF Counted, Unpublished, Idle
    <2>2. stage'[r] = "bumped" /\ size'[target[r]] = slot[r] + 1
      BY <1>1, <1>6, TurnTypes
    <2> QED
      BY <1>1, <2>1, <2>2 DEF Turn, AtEnd, Later
  <1>8. Shows'
    <2>1. ASSUME NEW l \in Requests, IsCreated(l) PROVE Projected(l)'
      <3>1. l # r
        BY <1>1, <2>1, CreatedFacts
      <3>2. ~NameLag(l) /\ ~VersionLag(l) /\ ~ListLag(l)
        BY <1>1, <1>3, SoloFacts DEF Unpublished
      <3>3. CASE target[r] = l
        <4>1. NameLag(l)' /\ VersionLag(l)' /\ ListLag(l)'
          BY <1>1, <3>1, <3>3, TurnTypes
             DEF NameLag, VersionLag, ListLag, Later, Unpublished
        <4>2. size'[l] = size[l] + 1 /\ size[l] \in Int
          BY <1>1, <1>2, <3>3, TurnTypes
        <4>3. /\ NamesIn(l)' = NamesIn(l) /\ VersionsIn(l)' = VersionsIn(l)
              /\ ListedIn(l)' = ListedIn(l)
          BY <3>2, <4>1, <4>2 DEF NamesIn, VersionsIn, ListedIn
        <4> QED
          BY <1>1, <2>1, <4>3, ProjectedSame
      <3>4. CASE target[r] # l
        <4>1. ~NameLag(l)' /\ ~VersionLag(l)' /\ ~ListLag(l)'
          BY <1>1, <3>2, <3>4, TurnTypes
             DEF NameLag, VersionLag, ListLag, Later, Unpublished
        <4>2. /\ NamesIn(l)' = NamesIn(l) /\ VersionsIn(l)' = VersionsIn(l)
              /\ ListedIn(l)' = ListedIn(l)
          BY <1>1, <3>2, <3>4, <4>1, TurnTypes DEF NamesIn, VersionsIn, ListedIn
        <4> QED
          BY <1>1, <2>1, <4>2, ProjectedSame
      <3> QED
        BY <3>3, <3>4
    <2> QED
      BY <2>1 DEF Shows, IsCreated
  <1> QED
    BY <1>4, <1>5, <1>7, <1>8 DEF Turn

(* It writes the event behind all that the rows have taken in.             *)
LEMMA WriteTurn ==
  ASSUME SInv, C!Whole, Turn, NEW r \in Requests, C!Store!WriteItem(r),
         UNCHANGED <<cmd, task, readVars>>
  PROVE  Turn'
PROOF
  <1> USE DEF readVars
  <1> DEFINE e == [req |-> r, version |-> call[r].expected + 1]
  <1>1. /\ stage[r] = "bumped" /\ stage' = [stage EXCEPT ![r] = "stored"]
        /\ items' = [items EXCEPT ![target[r]][slot[r]] = e]
        /\ UNCHANGED <<call, target, slot, size>>
    BY DEF C!Store!WriteItem, C!Store!Goto, C!Store!locals
  <1>2. size[target[r]] = slot[r] + 1
    BY <1>1 DEF Turn, AtEnd, Counted, Unpublished
  <1>3. /\ task[r] = "saving" /\ ~Idle(r)
        /\ detailTask[r] = "none" /\ listTask[r] = "none"
    <2>1. task[r] = "saving"
      BY <1>1, TurnTypes
    <2> QED
      BY <1>1, <2>1, CreatedFacts DEF Idle, Turn, Handled
  <1>4. Solo'
    BY <1>1, <1>3, TurnTypes, SoloKept DEF Idle
  <1>5. Handled' /\ DetailTable' /\ ListTable'
    BY DEF Turn, Handled, DetailTable, ListTable, IsCreated
  <1>6. target[r] \in Requests /\ slot[r] \in Rows!Slots
    <2>1. target[r] # NoRequest
      BY <1>1, CommandHypotheses, C!ListFacts
    <2> QED
      BY <2>1, TurnTypes
  <1>7. AtEnd'
    <2>1. \A s \in Requests : s # r => ~Counted(s)' /\ stage'[s] # "adding"
      BY <1>1, <1>3, SoloFacts, TurnTypes DEF Counted, Unpublished, Idle
    <2>2. stage'[r] = "stored" /\ items'[target[r]][slot[r]] = e
      BY <1>1, <1>6, TurnTypes
    <2> QED
      BY <1>1, <1>2, <2>1, <2>2 DEF Turn, AtEnd, Later
  <1>8. Shows'
    <2>1. ASSUME NEW l \in Requests, IsCreated(l) PROVE Projected(l)'
      <3>1. l # r
        BY <1>1, <2>1, CreatedFacts
      <3>2. /\ NameLag(l)' <=> NameLag(l)
            /\ VersionLag(l)' <=> VersionLag(l)
            /\ ListLag(l)' <=> ListLag(l)
        BY <1>1, TurnTypes DEF NameLag, VersionLag, ListLag, Later, Unpublished
      <3>3. /\ NamesIn(l)' = NamesIn(l) /\ VersionsIn(l)' = VersionsIn(l)
            /\ ListedIn(l)' = ListedIn(l)
        BY <1>1, <3>2 DEF NamesIn, VersionsIn, ListedIn
      <3>4. CASE target[r] = l
        <4>1. NameLag(l) /\ VersionLag(l) /\ ListLag(l)
          BY <1>1, <3>1, <3>4
             DEF NameLag, VersionLag, ListLag, Later, Unpublished
        <4>2. /\ NamesIn(l) = slot[r] /\ VersionsIn(l) = slot[r]
              /\ ListedIn(l) = slot[r]
          BY <1>2, <1>6, <3>4, <4>1 DEF NamesIn, VersionsIn, ListedIn, Rows!Slots
        <4>3. \A j \in 0 .. size[l] - 1 : j # slot[r] => items'[l][j] = items[l][j]
          <5>1. \A j \in 0 .. size[l] - 1 : j \in Rows!Slots
            BY TurnTypes, CommandHypotheses DEF Rows!Slots
          <5> QED
            BY <1>1, <5>1, TurnTypes
        <4> QED
          BY <1>1, <1>6, <2>1, <3>3, <4>2, <4>3, ProjectedSame DEF Rows!Slots
      <3>5. CASE target[r] # l
        <4>1. items'[l] = items[l]
          BY <1>1, <3>5, TurnTypes
        <4> QED
          BY <1>1, <2>1, <3>3, <4>1, ProjectedSame
      <3> QED
        BY <3>4, <3>5
    <2> QED
      BY <2>1 DEF Shows, IsCreated
  <1> QED
    BY <1>4, <1>5, <1>7, <1>8 DEF Turn

(* A command task takes a step.                                            *)
LEMMA HandleTurn ==
  ASSUME SInv, C!Whole, Turn, NEW r \in Requests, Handle(r)
  PROVE  Turn' /\ ~clobbered'
PROOF
  <1>1. C!Handle(r) /\ UNCHANGED readVars
    BY SameSteps DEF Handle
  <1>2. ~clobbered
    BY DEF C!Whole
  <1>3. CASE C!Create(r) \/ C!Change(r)
    <2>1. /\ task[r] = "queued" /\ UNCHANGED cmd
          /\ \E id, v : C!Proved!Save(r, id, v)
          /\ \A s \in Requests : s # r => task'[s] = task[s]
      BY <1>3, TurnTypes, CommandHypotheses, C!BeginsSave
         DEF SInv, C!Create, C!Change, C!Begin
    <2>2. /\ stage[r] = "idle" /\ stage' = [stage EXCEPT ![r] = "saving"]
          /\ \A s \in Requests : s # r => call'[s] = call[s]
          /\ UNCHANGED <<target, slot, items, size, clobbered>>
      BY <2>1, TurnTypes
         DEF C!Proved!Save, C!Proved!Goto, C!Proved!dict, C!Proved!lists,
             C!Proved!ghosts
    <2>3. ~Idle(r)
      BY <2>1, <2>2 DEF Idle
    <2>4. stage[r] \in Early /\ stage'[r] = "saving"
      BY <2>2, TurnTypes DEF Early
    <2>5. \A l \in Requests : ~Later(r, l)'
      <3>1. target[r] = NoRequest
        BY <2>2, CommandHypotheses, C!ListFacts
      <3> QED
        BY <2>2, <3>1, CommandHypotheses DEF Later
    <2>6. Turn'
      BY <1>1, <2>1, <2>2, <2>3, <2>4, <2>5, TurnTypes, EarlyTurn DEF Early
    <2> QED
      BY <1>2, <2>2, <2>6
  <1>4. CASE C!Refuse(r)
    <2>1. /\ task[r] = "queued" /\ task' = [task EXCEPT ![r] = "failed"]
          /\ UNCHANGED <<cmd, stage, call, target, slot, items, size, clobbered>>
      BY <1>4 DEF C!Refuse, C!storeVars
    <2>2. stage[r] = "idle"
      BY <2>1, TurnTypes
    <2>3. ~Idle(r)
      BY <2>1, <2>2 DEF Idle
    <2>4. \A l \in Requests : ~Later(r, l)'
      <3>1. target[r] = NoRequest
        BY <2>2, CommandHypotheses, C!ListFacts
      <3> QED
        BY <2>1, <3>1, CommandHypotheses DEF Later
    <2>5. Turn'
      BY <1>1, <2>1, <2>2, <2>3, <2>4, TurnTypes, EarlyTurn DEF Early
    <2> QED
      BY <1>2, <2>1, <2>5
  <1>5. CASE C!SaveStep(r)
    <2> USE DEF C!Store!Goto, C!Store!locals, C!Store!dict, C!Store!lists,
                C!Store!ghosts
    <2>1. C!Store!SaveStep(r) /\ stage[r] # "stored" /\ UNCHANGED <<task, cmd>>
      BY <1>5 DEF C!SaveStep
    <2>2. /\ stage[r] \notin {"idle", "stored", "published", "lost"}
          /\ \A s \in Requests : s # r => stage'[s] = stage[s]
      BY <1>5, CommandHypotheses, C!SaveStepMoves DEF SInv
    <2>3. stage[r] # "rejected"
      BY <2>1
         DEF C!Store!SaveStep, C!Store!Miss, C!Store!OpenStream,
             C!Store!AddDuplicate, C!Store!Insert, C!Store!PassCheck,
             C!Store!FailCheck, C!Store!ReadSize, C!Store!BumpSize,
             C!Store!WriteItem, C!Store!Publish
    <2>4. ~Idle(r)
      <3>1. task[r] = "saving"
        BY <2>2, TurnTypes
      <3> QED
        BY <2>2, <2>3, <3>1 DEF Idle
    <2>5. \A s \in Requests : s # r => stage[s] # "inserting"
      BY <2>4, SoloFacts
    <2>6. CASE C!Store!BumpSize(r)
      BY <1>1, <1>2, <2>1, <2>6, BumpTurn DEF C!Store!BumpSize
    <2>7. CASE C!Store!WriteItem(r)
      BY <1>1, <1>2, <2>1, <2>7, WriteTurn DEF C!Store!WriteItem
    <2>8. CASE C!Store!PassCheck(r)
      <3>1. PICK l \in C!Store!Lookup(call[r].id) :
              /\ target' = [target EXCEPT ![r] = l]
              /\ stage[r] = "saving" /\ stage' = [stage EXCEPT ![r] = "checked"]
              /\ UNCHANGED <<call, slot, items, size, clobbered>>
        BY <2>8 DEF C!Store!PassCheck
      <3>2. C!Opened(l) /\ l # r
        BY <3>1, CommandHypotheses, C!ListFacts, C!SameTerms DEF C!Opened
      <3>3. Idle(l) /\ stage[l] = "published"
        BY <2>4, <3>2, SoloFacts, CommandHypotheses, C!ListFacts DEF C!Opened
      <3>4. detailTask[l] = "done" /\ listTask[l] = "done"
        <4>1. IsCreated(l)
          BY <3>2, <3>3, CreatedFacts DEF C!Opened
        <4> QED
          BY <2>4, <3>2, <4>1, SoloFacts DEF IsCreated, Turn, Handled
      <3>5. \A m \in Requests : Later(r, m)' => m = l
        BY <3>1, TurnTypes DEF Later
      <3>6. stage[r] \in Early /\ stage'[r] = "checked"
        BY <3>1, TurnTypes DEF Early
      <3>7. \A s \in Requests : s # r => target'[s] = target[s]
        BY <3>1, TurnTypes
      <3>8. Turn'
        BY <1>1, <2>1, <2>2, <2>4, <3>1, <3>4, <3>5, <3>6, <3>7, EarlyTurn
           DEF Early
      <3> QED
        BY <1>2, <3>1, <3>8
    <2>9. CASE C!Store!ReadSize(r)
      <3>1. /\ stage[r] = "checked" /\ stage' = [stage EXCEPT ![r] = "adding"]
            /\ slot' = [slot EXCEPT ![r] = size[target[r]]]
            /\ UNCHANGED <<call, target, items, size, clobbered>>
        BY <2>9 DEF C!Store!ReadSize
      <3>2. stage[r] \in Early /\ stage'[r] \in Early /\ slot'[r] = size[target'[r]]
        BY <3>1, TurnTypes DEF Early
      <3>3. \A m \in Requests : Later(r, m)' =>
              detailTask[m] = "done" /\ listTask[m] = "done"
        BY <3>1 DEF Later, Turn, AtEnd
      <3>4. \A s \in Requests : s # r => slot'[s] = slot[s]
        BY <3>1, TurnTypes
      <3>5. Turn'
        BY <1>1, <2>1, <2>2, <2>4, <3>1, <3>2, <3>3, <3>4, EarlyTurn
      <3> QED
        BY <1>2, <3>1, <3>5
    <2>10. CASE C!Store!OpenStream(r)
      <3>1. /\ stage[r] = "opening" /\ stage' = [stage EXCEPT ![r] = "inserting"]
            /\ target' = [target EXCEPT ![r] = r]
            /\ slot' = [slot EXCEPT ![r] = count]
            /\ UNCHANGED <<call, items, size>>
        BY <2>10 DEF C!Store!OpenStream
      <3>2. ~clobbered'
        BY <1>2, <2>5, <2>10 DEF C!Store!OpenStream
      <3>3. stage[r] \in Early /\ stage'[r] = "inserting"
        BY <3>1, TurnTypes DEF Early
      <3>4. \A m \in Requests : ~Later(r, m)'
        BY <3>1, TurnTypes DEF Later
      <3>5. \A s \in Requests : s # r => slot'[s] = slot[s] /\ target'[s] = target[s]
        BY <3>1, TurnTypes
      <3>6. Turn'
        BY <1>1, <2>1, <2>2, <2>4, <3>1, <3>3, <3>4, <3>5, EarlyTurn DEF Early
      <3> QED
        BY <3>2, <3>6
    <2>11. CASE \/ C!Store!Miss(r) \/ C!Store!AddDuplicate(r)
                \/ C!Store!Insert(r) \/ C!Store!FailCheck(r)
      <3>1. /\ stage[r] \in {"saving", "opening", "inserting"}
            /\ \/ stage' = [stage EXCEPT ![r] = "opening"]
               \/ stage' = [stage EXCEPT ![r] = "rejected"]
               \/ stage' = [stage EXCEPT ![r] = "checked"]
            /\ UNCHANGED <<call, target, slot, items, size, clobbered>>
        BY <2>11 DEF C!Store!Miss, C!Store!AddDuplicate, C!Store!Insert,
                     C!Store!FailCheck
      <3>2. stage[r] \in Early /\ stage'[r] \in Early /\ stage'[r] # "adding"
        BY <3>1, TurnTypes DEF Early
      <3>3. \A m \in Requests : Later(r, m)' =>
              detailTask[m] = "done" /\ listTask[m] = "done"
        BY <3>1 DEF Later, Turn, AtEnd
      <3>4. Turn'
        BY <1>1, <2>1, <2>2, <2>4, <3>1, <3>2, <3>3, EarlyTurn
      <3> QED
        BY <1>2, <3>1, <3>4
    <2> QED
      BY <2>1, <2>6, <2>7, <2>8, <2>9, <2>10, <2>11
         DEF C!Store!SaveStep, C!Store!Publish
  <1> QED
    BY <1>1, <1>3, <1>4, <1>5 DEF C!Handle

(* The event goes to its handlers.  The row in the list of a client that   *)
(* is removed has nothing to take in.                                      *)
LEMMA PublishTurn ==
  ASSUME SInv, C!Whole, Turn, NEW r \in Requests, Publish(r)
  PROVE  Turn' /\ ~clobbered'
PROOF
  <1>1. /\ stage[r] = "stored" /\ stage' = [stage EXCEPT ![r] = "published"]
        /\ UNCHANGED <<task, cmd, call, target, slot, items, size, clobbered>>
    BY SameSteps
       DEF Publish, C!Publish, C!Store!Publish, C!Store!Goto, C!Store!locals,
           C!Store!dict, C!Store!lists, C!Store!ghosts
  <1>2. /\ event' = [event EXCEPT ![r] = EventOf(r)]
        /\ detailTask' = [detailTask EXCEPT ![r] = "queued"]
        /\ listTask' = [listTask EXCEPT ![r] =
                          IF cmd[r].type = "remove" THEN @ ELSE "queued"]
        /\ UNCHANGED <<details, detailCount, row, list, listSize, listName, claim>>
    <2>1. Rows!Receive(r, EventOf(r)) /\ EventOf(r).type = cmd[r].type
      BY DEF Publish, EventOf
    <2>2. /\ "detail" \in Rows!Routes(cmd[r].type)
          /\ "list" \in Rows!Routes(cmd[r].type) <=> cmd[r].type # "remove"
      BY DEF Rows!Routes
    <2> QED
      BY <2>1, <2>2, TurnTypes DEF Rows!Receive, Rows!TypeOK
  <1>3. /\ event'[r].type = cmd[r].type
        /\ cmd[r].type \in {"create", "rename", "remove"}
        /\ \A s \in Requests : s # r =>
             /\ stage'[s] = stage[s] /\ event'[s] = event[s]
             /\ detailTask'[s] = detailTask[s] /\ listTask'[s] = listTask[s]
        /\ stage'[r] = "published" /\ detailTask'[r] = "queued"
        /\ listTask'[r] = IF cmd[r].type = "remove" THEN "none" ELSE "queued"
        /\ detailTask[r] = "none" /\ listTask[r] = "none"
    <2>1. detailTask[r] = "none" /\ listTask[r] = "none"
      BY <1>1, CreatedFacts DEF Turn, Handled
    <2>2. event'[r] = EventOf(r) /\ EventOf(r).type = cmd[r].type
      BY <1>2, TurnTypes DEF EventOf, Rows!TypeOK
    <2>3. cmd[r].type \in {"create", "rename", "remove"}
      BY TurnTypes DEF C!Command, C!Types
    <2> QED
      BY <1>1, <1>2, <2>1, <2>2, <2>3, TurnTypes DEF Rows!TypeOK
  <1>4. ~Idle(r) /\ Counted(r)
    <2>1. task[r] = "saving"
      BY <1>1, TurnTypes
    <2> QED
      BY <1>1, <2>1 DEF Idle, Counted, Unpublished
  <1>5. \A s \in Requests : s # r => Idle(s) /\ Idle(s)'
    BY <1>1, <1>3, <1>4, SoloFacts DEF Idle
  <1>6. Solo'
    BY <1>4, <1>5, SoloKept
  <1>7. Handled'
    BY <1>3 DEF Turn, Handled
  <1>8. DetailTable'
    BY <1>2, <1>3 DEF Turn, DetailTable, IsCreated
  <1>9. ListTable'
    <2>1. \A k \in Rows!Slots : list[k] # NoRequest =>
            list[k] \in Requests /\ listTask[list[k]] = "done"
      BY DEF SInv, ReadInv, Shown, IsCreated, Turn, ListTable
    <2>2. \A k \in Rows!Slots : list[k] # NoRequest => listTask'[list[k]] = "done"
      BY <1>3, <2>1
    <2>3. \A q \in Requests : listTask[q] = "bumped" => listTask'[q] = "bumped"
      BY <1>3
    <2>4. \A q \in Requests :
            /\ listTask'[q] \in {"adding", "bumped"} => listTask'[q] = listTask[q]
            /\ IsCreated(q)' /\ listTask'[q] = "done"
                 => IsCreated(q) /\ listTask[q] = "done"
      BY <1>3 DEF IsCreated
    <2> QED
      BY <1>2, <2>2, <2>3, <2>4 DEF Turn, ListTable
  <1>10. AtEnd'
    <2>1. \A s \in Requests : s # r => ~Counted(s)' /\ stage'[s] # "adding"
      BY <1>3, <1>4, <1>5, SoloFacts DEF Counted, Unpublished
    <2>2. \A s, l \in Requests : Later(s, l)' =>
            detailTask'[l] = "done" /\ listTask'[l] = "done"
      <3>1. \A s, l \in Requests : Later(s, l)' => Later(s, l)
        BY <1>1 DEF Later
      <3>2. \A s, l \in Requests : Later(s, l) =>
              detailTask[l] = "done" /\ listTask[l] = "done"
        BY DEF Turn, AtEnd
      <3>3. \A l \in Requests : detailTask[l] = "done" /\ listTask[l] = "done" =>
              detailTask'[l] = "done" /\ listTask'[l] = "done"
        BY <1>3
      <3> QED
        BY <3>1, <3>2, <3>3
    <2> QED
      BY <1>1, <1>3, <1>4, <2>1, <2>2 DEF Turn, AtEnd
  <1>11. Shows'
    <2>1. ASSUME NEW l \in Requests, IsCreated(l)' PROVE Projected(l)'
      <3>1. CASE l = r
        <4>1. event'[r].type = "create"
          BY <2>1, <3>1 DEF IsCreated
        <4> QED
          BY <1>3, <3>1, <4>1 DEF Projected, NameShown, VersionShown, ListShown
      <3>2. CASE l # r
        <4>1. IsCreated(l)
          BY <1>3, <2>1, <3>2 DEF IsCreated
        <4>2. /\ NameLag(l)' <=> NameLag(l)
              /\ VersionLag(l)' <=> VersionLag(l)
          BY <1>1, <1>3 DEF NameLag, VersionLag, Later, Unpublished
        <4>3. /\ NamesIn(l)' = NamesIn(l) /\ VersionsIn(l)' = VersionsIn(l)
          BY <1>1, <4>2 DEF NamesIn, VersionsIn
        <4>4. NameShown(l)'
          BY <1>1, <1>2, <1>3, <3>2, <4>1, <4>3, NameSame
        <4>5. VersionShown(l)'
          BY <1>1, <1>2, <1>3, <3>2, <4>1, <4>3, VersionSame
        <4>6. CASE ~Later(r, l) \/ cmd[r].type # "remove"
          <5>1. ListLag(l)' <=> ListLag(l)
            BY <1>1, <1>3, <4>6 DEF ListLag, Later, Unpublished
          <5>2. ListedIn(l)' = ListedIn(l)
            BY <1>1, <5>1 DEF ListedIn
          <5>3. ListShown(l)'
            BY <1>1, <1>2, <1>3, <3>2, <4>1, <5>2, ListSame
          <5> QED
            BY <4>4, <4>5, <5>3 DEF Projected
        <4>7. CASE Later(r, l) /\ cmd[r].type = "remove"
          <5>1. ListLag(l)
            BY <1>1, <4>7 DEF ListLag, Unpublished
          <5>2. ~ListLag(l)'
            <6>1. \A s \in Requests : ~Unpublished(s)' /\ listTask'[s] # "queued"
              BY <1>3, <1>4, <4>7, SoloFacts DEF Unpublished
            <6> QED
              BY <6>1 DEF ListLag
          <5>3. /\ ListedIn(l) = slot[r] /\ ListedIn(l)' = slot[r] + 1
                /\ items[l][slot[r]].req = r /\ slot[r] \in Nat
            <6>1. target[r] = l
              BY <4>7 DEF Later
            <6>2. /\ size[l] = slot[r] + 1
                  /\ items[l][slot[r]] = [req |-> r, version |-> call[r].expected + 1]
              BY <1>1, <1>4, <6>1 DEF Turn, AtEnd
            <6>3. slot[r] \in Nat
              BY TurnTypes DEF Rows!Slots
            <6> QED
              BY <1>1, <5>1, <5>2, <6>2, <6>3 DEF ListedIn
          <5>4. LastName(items[l], cmd, slot[r], listName[l])
            BY <1>4, <4>1, <4>7, <5>3 DEF Turn, AtEnd, Shows, Projected, ListShown
          <5>5. LastName(items[l], cmd, slot[r] + 1, listName[l])
            BY <4>7, <5>3, <5>4, CommandHypotheses, LastNameStays
          <5>6. ListShown(l)'
            BY <1>1, <1>2, <5>3, <5>5 DEF ListShown
          <5> QED
            BY <4>4, <4>5, <5>6 DEF Projected
        <4> QED
          BY <4>6, <4>7
      <3> QED
        BY <3>1, <3>2
    <2> QED
      BY <2>1 DEF Shows
  <1> QED
    BY <1>1, <1>6, <1>7, <1>8, <1>9, <1>10, <1>11 DEF Turn, C!Whole

(* A change works on the one client that has its id, and finds the rows of *)
(* it.                                                                     *)
LEMMA ChangeFinds ==
  ASSUME SInv, C!Whole, Turn, NEW r \in Requests,
         event[r].type \in {"rename", "remove"}
  PROVE  \E l \in Requests :
           /\ target[r] = l /\ Later(r, l) /\ IsCreated(l)
           /\ stage[r] = "published"
           /\ \A q \in Requests : IsCreated(q) /\ event[q].id = event[r].id <=> q = l
           /\ detailTask[l] = "done" /\ listTask[l] = "done"
PROOF
  <1>1. stage[r] = "published"
    BY CreatedFacts
  <1>2. event[r].type = cmd[r].type /\ target[r] \in Requests
    BY <1>1, CreatedFacts
  <1>3. C!IsChange(r) /\ C!Running(r)
    BY <1>1, <1>2, TurnTypes DEF C!IsChange, C!Sent, C!Running
  <1>4. Later(r, target[r])
    BY <1>3, CommandHypotheses, C!ChangeFacts DEF Later
  <1>5. /\ IsCreated(target[r]) /\ call[target[r]].id = call[r].id
        /\ stage[target[r]] = "published"
    BY <1>2, <1>4, CreatedFacts
  <1>6. event[target[r]].id = event[r].id
    BY <1>1, <1>2, <1>5, CreatedFacts
  <1>7. \A q \in Requests :
          IsCreated(q) /\ event[q].id = event[r].id <=> q = target[r]
    BY <1>2, <1>5, <1>6, CreatedFacts
  <1>8. detailTask[target[r]] = "done" /\ listTask[target[r]] = "done"
    BY <1>2, <1>4 DEF Turn, AtEnd
  <1> QED
    BY <1>1, <1>2, <1>4, <1>5, <1>7, <1>8

(* The event that a change brings to its list is the last one there.       *)
LEMMA ChangeAtEnd ==
  ASSUME SInv, C!Whole, Turn, NEW r \in Requests, NEW l \in Requests,
         Later(r, l), stage[r] = "published", ~Idle(r)
  PROVE  /\ size[l] = slot[r] + 1 /\ slot[r] \in Nat \ {0}
         /\ items[l][slot[r]] = [req |-> r, version |-> event[r].version]
         /\ cmd[r].type = event[r].type /\ cmd[r].name = event[r].name
PROOF
  <1>1. target[r] = l /\ target[r] # r /\ Counted(r) /\ stage[r] \in C!Added
    BY DEF Later, Counted, C!Added
  <1>2. /\ size[l] = slot[r] + 1
        /\ items[l][slot[r]] = [req |-> r, version |-> call[r].expected + 1]
    BY <1>1 DEF Turn, AtEnd
  <1>3. slot[r] >= 1 /\ slot[r] \in Nat
    BY <1>1, TurnTypes DEF C!Whole, C!Streams, C!LaterSlots, Rows!Slots
  <1>4. /\ event[r].version = call[r].expected + 1
        /\ cmd[r].type = event[r].type /\ cmd[r].name = event[r].name
    BY CreatedFacts
  <1> QED
    BY <1>2, <1>3, <1>4

(* The event of a creation is all there is while it runs. *)
LEMMA CreationAlone ==
  ASSUME SInv, C!Whole, Turn, NEW r \in Requests, IsCreated(r), ~Idle(r),
         detailTask[r] # "done" \/ listTask[r] # "done"
  PROVE  /\ \A s \in Requests : ~Later(s, r)
         /\ \A l \in Requests : ~Later(r, l)
         /\ size[r] = 1
         /\ LastName(items[r], cmd, 1, event[r].name)
PROOF
  <1>1. /\ target[r] = r /\ stage[r] = "published" /\ Counted(r)
        /\ cmd[r].type = "create" /\ cmd[r].name = event[r].name
    BY CreatedFacts DEF C!Opened, Counted, IsCreated
  <1>2. slot[r] = 0
    BY <1>1 DEF C!Whole, C!Streams, C!FirstSlot, C!Added, C!Opened
  <1>3. /\ size[r] = 1
        /\ items[r][0] = [req |-> r, version |-> call[r].expected + 1]
    BY <1>1, <1>2 DEF Turn, AtEnd
  <1>4. LastName(items[r], cmd, 0 + 1, cmd[items[r][0].req].name)
    BY <1>1, <1>3, CommandHypotheses, LastNameGiven
  <1>5. \A s \in Requests : ~Later(s, r)
    BY DEF Turn, AtEnd
  <1>6. \A l \in Requests : ~Later(r, l)
    BY <1>1 DEF Later
  <1> QED
    BY <1>1, <1>3, <1>4, <1>5, <1>6

LEMMA HandlerRuns ==
  ASSUME SInv, C!Whole, NEW r \in Requests,
         detailTask[r] \notin Ended \/ listTask[r] \notin Ended, Handled
  PROVE  /\ stage[r] = "published" /\ task[r] = "saving" /\ ~Idle(r)
         /\ event[r].type \in {"create", "rename", "remove"}
PROOF
  <1>1. event[r].type # "none"
    BY DEF Handled, Ended
  <1>2. stage[r] = "published"
    BY <1>1, CreatedFacts
  <1>3. task[r] = "saving"
    BY <1>2, TurnTypes
  <1>4. event[r].type \in {"create", "rename", "remove"}
    BY <1>2, CreatedFacts, TurnTypes DEF C!Command, C!Types
  <1> QED
    BY <1>2, <1>3, <1>4 DEF Idle

(* What a step of the detail handler leaves alone. *)
LEMMA DetailFrame ==
  ASSUME SInv, C!Whole, Turn, NEW r \in Requests, NEW to,
         detailTask[r] \notin Ended, detailTask' = [detailTask EXCEPT ![r] = to],
         UNCHANGED <<event, list, listSize, listName, listTask, writeVars>>,
         \A q \in Requests : claim'[q]["list"] = claim[q]["list"]
  PROVE  /\ Solo' /\ ListTable' /\ AtEnd' /\ ~Idle(r) /\ stage[r] = "published"
         /\ \A q \in Requests : detailTask'[q] = IF q = r THEN to ELSE detailTask[q]
         /\ \A s \in Requests : s # r =>
              detailTask[s] \in {"none", "done"} /\ detailTask'[s] = detailTask[s]
         /\ \A l \in Requests : /\ IsCreated(l)' <=> IsCreated(l)
                                /\ IsCreated(l) => ListShown(l)'
         /\ \A l \in Requests :
              /\ NameLag(l)' <=> Later(r, l) /\ to = "queued"
              /\ VersionLag(l)' <=> Later(r, l) /\ to \in {"queued", "named"}
PROOF
  <1> USE DEF writeVars
  <1>1. \A q \in Requests : detailTask'[q] = IF q = r THEN to ELSE detailTask[q]
    BY TurnTypes DEF Rows!TypeOK
  <1>2. ~Idle(r) /\ stage[r] = "published"
    BY HandlerRuns DEF Turn
  <1>3. \A s \in Requests : s # r =>
          detailTask[s] \in {"none", "done"} /\ detailTask'[s] = detailTask[s]
    BY <1>1, <1>2, SoloFacts
  <1>4. \A s \in Requests : s # r => (Idle(s) <=> Idle(s)')
    BY <1>3 DEF Idle
  <1>5. Solo'
    BY <1>2, <1>4, SoloKept
  <1>6. ListTable'
    BY DEF Turn, ListTable, IsCreated
  <1>7. AtEnd'
    <2>1. \A s \in Requests : Counted(s)' => Counted(s)
      BY <1>2, <1>4 DEF Counted, Unpublished
    <2>2. \A s, l \in Requests : Later(s, l) => l # r
      BY DEF Turn, AtEnd, Ended
    <2>3. \A s, l \in Requests : Later(s, l)' <=> Later(s, l)
      BY DEF Later
    <2> QED
      BY <1>3, <2>1, <2>2, <2>3 DEF Turn, AtEnd
  <1>8. \A l \in Requests : IsCreated(l)' <=> IsCreated(l)
    BY DEF IsCreated
  <1>9. ASSUME NEW l \in Requests, IsCreated(l) PROVE ListShown(l)'
    <2>1. ListedIn(l)' = ListedIn(l)
      BY DEF ListedIn, ListLag, Later, Unpublished
    <2> QED
      BY <1>9, <2>1, ListSame
  <1>10. ASSUME NEW l \in Requests
         PROVE  /\ NameLag(l)' <=> Later(r, l) /\ to = "queued"
                /\ VersionLag(l)' <=> Later(r, l) /\ to \in {"queued", "named"}
    <2>1. \A s \in Requests : ~Unpublished(s)'
      BY <1>2, SoloFacts DEF Unpublished
    <2>2. \A s \in Requests : Later(s, l)' <=> Later(s, l)
      BY DEF Later
    <2> QED
      BY <1>1, <1>3, <2>1, <2>2 DEF NameLag, VersionLag
  <1> QED
    BY <1>1, <1>2, <1>3, <1>5, <1>6, <1>7, <1>8, <1>9, <1>10

LEMMA ClaimKept ==
  ASSUME SInv, NEW r \in Requests, NEW h \in {"detail", "list"}, NEW k,
         claim' = [claim EXCEPT ![r][h] = k]
  PROVE  /\ claim'[r][h] = k
         /\ \A q \in Requests : q # r => claim'[q] = claim[q]
         /\ \A g \in {"detail", "list"} : g # h => claim'[r][g] = claim[r][g]
PROOF
  <1>1. /\ claim \in [Requests -> [{"detail", "list"} -> 0 .. Capacity]]
        /\ claim[r] \in [{"detail", "list"} -> 0 .. Capacity]
    BY TurnTypes DEF Rows!TypeOK
  <1>2. claim'[r] = [claim[r] EXCEPT ![h] = k]
    BY <1>1
  <1>3. \A q \in Requests : q # r => claim'[q] = claim[q]
    BY <1>1
  <1> QED
    BY <1>1, <1>2, <1>3

(* The detail handler of a creation adds the row ... *)
LEMMA DetailCreates ==
  ASSUME SInv, C!Whole, Turn, NEW r \in Requests, UNCHANGED writeVars,
         Rows!DetailClaim(r) \/ Rows!DetailAdd(r)
  PROVE  Turn'
PROOF
  <1> USE DEF Rows!Detail, Rows!listVars
  <1>1. /\ UNCHANGED <<event, list, listSize, listName, listTask, writeVars>>
        /\ \A q \in Requests : claim'[q]["list"] = claim[q]["list"]
        /\ detailTask[r] \in {"queued", "adding"}
    <2>1. claim' = claim \/ claim' = [claim EXCEPT ![r]["detail"] = detailCount]
      BY DEF Rows!DetailClaim, Rows!DetailAdd
    <2>2. \A q \in Requests : claim'[q]["list"] = claim[q]["list"]
      BY <2>1, ClaimKept
    <2> QED
      BY <2>2 DEF Rows!DetailClaim, Rows!DetailAdd
  <1>2. IsCreated(r) /\ detailTask[r] \notin Ended
    BY <1>1 DEF Rows!DetailClaim, Rows!DetailAdd, SInv, ReadInv, Tasks,
                IsCreated, Ended
  <1>3. ~Idle(r)
    BY <1>2, HandlerRuns DEF Turn
  <1>4. /\ \A s \in Requests : ~Later(s, r)
        /\ \A l \in Requests : ~Later(r, l)
        /\ size[r] = 1 /\ LastName(items[r], cmd, 1, event[r].name)
    BY <1>1, <1>2, <1>3, CreationAlone
  <1>5. \A l \in Requests : ~NameLag(l) /\ ~VersionLag(l)
    BY <1>3, <1>4, SoloFacts
  <1>6. CASE Rows!DetailClaim(r)
    <2>1. /\ detailTask' = [detailTask EXCEPT ![r] = "adding"]
          /\ claim' = [claim EXCEPT ![r]["detail"] = detailCount]
          /\ UNCHANGED <<details, detailCount, row>>
      BY <1>6 DEF Rows!DetailClaim
    <2>2. /\ Solo' /\ ListTable' /\ AtEnd'
          /\ \A q \in Requests : detailTask'[q] = IF q = r THEN "adding" ELSE detailTask[q]
          /\ \A s \in Requests : s # r => detailTask'[s] \in {"none", "done"}
          /\ \A l \in Requests : /\ IsCreated(l)' <=> IsCreated(l)
                                 /\ IsCreated(l) => ListShown(l)'
          /\ \A l \in Requests : ~NameLag(l)' /\ ~VersionLag(l)'
      BY <1>1, <1>2, <1>4, <2>1, DetailFrame
    <2>3. Handled'
      BY <1>1, <1>2, <2>2 DEF Turn, Handled, IsCreated
    <2>4. DetailTable'
      <3>1. claim'[r]["detail"] = detailCount
        BY <2>1, ClaimKept
      <3> QED
        BY <2>1, <2>2, <3>1 DEF Turn, DetailTable
    <2>5. ASSUME NEW l \in Requests, IsCreated(l) PROVE Projected(l)'
      <3>1. NamesIn(l)' = NamesIn(l) /\ VersionsIn(l)' = VersionsIn(l)
        BY <1>5, <2>2 DEF NamesIn, VersionsIn, writeVars
      <3>2. NameShown(l)'
        BY <1>1, <2>1, <2>2, <2>5, <3>1, NameSame DEF writeVars
      <3>3. VersionShown(l)'
        BY <1>1, <2>1, <2>2, <2>5, <3>1, VersionSame DEF writeVars
      <3> QED
        BY <2>2, <2>5, <3>2, <3>3 DEF Projected
    <2> QED
      BY <2>2, <2>3, <2>4, <2>5 DEF Turn, Shows
  <1>7. CASE Rows!DetailAdd(r)
    <2>1. /\ detailTask[r] = "adding"
          /\ detailTask' = [detailTask EXCEPT ![r] = "done"]
          /\ details' = [details EXCEPT ![claim[r]["detail"]] = r]
          /\ detailCount' = claim[r]["detail"] + 1
          /\ row' = [row EXCEPT ![r] = [name |-> event[r].name, version |-> 1]]
      BY <1>7 DEF Rows!DetailAdd
    <2>2. /\ Solo' /\ ListTable' /\ AtEnd'
          /\ \A q \in Requests : detailTask'[q] = IF q = r THEN "done" ELSE detailTask[q]
          /\ \A s \in Requests : s # r => detailTask'[s] \in {"none", "done"}
          /\ \A l \in Requests : /\ IsCreated(l)' <=> IsCreated(l)
                                 /\ IsCreated(l) => ListShown(l)'
          /\ \A l \in Requests : ~NameLag(l)' /\ ~VersionLag(l)'
      BY <1>1, <1>2, <1>4, <2>1, DetailFrame
    <2>3. Handled'
      BY <1>1, <1>2, <2>2 DEF Turn, Handled, IsCreated
    <2>4. DetailTable'
      <3>1. /\ claim[r]["detail"] = detailCount /\ detailCount \in Rows!Slots
            /\ details[detailCount] = NoRequest
        <4>1. claim[r]["detail"] = detailCount
          BY <2>1 DEF Turn, DetailTable
        <4>2. detailCount < Capacity
          BY <2>1, <4>1 DEF SInv, ReadInv, Tasks
        <4>3. detailCount \in Rows!Slots
          BY <4>2, TurnTypes, CommandHypotheses DEF Rows!TypeOK, Rows!Slots
        <4> QED
          BY <4>1, <4>3 DEF Turn, DetailTable, Rows!Slots
      <3>2. \A k \in Rows!Slots :
              details'[k] = IF k = detailCount THEN r ELSE details[k]
        BY <2>1, <3>1, TurnTypes DEF Rows!TypeOK
      <3>3. \A k \in Rows!Slots : details'[k] # NoRequest <=> k < detailCount + 1
        BY <3>1, <3>2, CommandHypotheses DEF Turn, DetailTable, Rows!Slots
      <3>4. \A q \in Requests : IsCreated(q) /\ detailTask'[q] = "done"
              => \E k \in Rows!Slots : details'[k] = q
        BY <2>2, <3>1, <3>2, CommandHypotheses DEF Turn, DetailTable
      <3> QED
        BY <2>1, <2>2, <3>1, <3>3, <3>4 DEF DetailTable
    <2>5. ASSUME NEW l \in Requests, IsCreated(l) PROVE Projected(l)'
      <3>1. NamesIn(l)' = NamesIn(l) /\ VersionsIn(l)' = VersionsIn(l)
        BY <1>5, <2>2 DEF NamesIn, VersionsIn, writeVars
      <3>2. CASE l = r
        <4>1. NamesIn(l)' = 1 /\ VersionsIn(l)' = 1
          BY <1>4, <1>5, <3>1, <3>2 DEF NamesIn, VersionsIn
        <4>2. row'[r] = [name |-> event[r].name, version |-> 1]
          BY <2>1, TurnTypes DEF Rows!TypeOK
        <4>3. LastName(items'[r], cmd', 1, row'[r].name)
          BY <1>1, <1>4, <4>2 DEF writeVars
        <4> QED
          BY <2>2, <2>5, <3>2, <4>1, <4>2, <4>3
             DEF Projected, NameShown, VersionShown
      <3>3. CASE l # r
        <4>1. row'[l] = row[l]
          BY <2>1, <3>3, TurnTypes DEF Rows!TypeOK
        <4>2. NameShown(l)'
          BY <1>1, <2>2, <2>5, <3>1, <3>3, <4>1, NameSame DEF writeVars
        <4>3. VersionShown(l)'
          BY <1>1, <2>2, <2>5, <3>1, <3>3, <4>1, VersionSame DEF writeVars
        <4> QED
          BY <2>2, <2>5, <4>2, <4>3 DEF Projected
      <3> QED
        BY <3>2, <3>3
    <2> QED
      BY <2>2, <2>3, <2>4, <2>5 DEF Turn, Shows
  <1> QED
    BY <1>6, <1>7

(* ... that of a renaming writes the name and then the version ... *)
LEMMA DetailNames ==
  ASSUME SInv, C!Whole, Turn, NEW r \in Requests, UNCHANGED writeVars,
         Rows!DetailName(r)
  PROVE  Turn'
PROOF
  <1>1. /\ event[r].type = "rename" /\ detailTask[r] = "queued"
        /\ detailTask' = [detailTask EXCEPT ![r] = "named"]
        /\ \E d \in Rows!DetailRows(event[r].id) :
             row' = [row EXCEPT ![d].name = event[r].name]
        /\ UNCHANGED <<details, detailCount, claim, event, list, listSize,
                       listName, listTask>>
    BY DEF Rows!DetailName, Rows!Detail, Rows!listVars
  <1>2. PICK l \in Requests :
          /\ target[r] = l /\ Later(r, l) /\ IsCreated(l)
          /\ \A q \in Requests : IsCreated(q) /\ event[q].id = event[r].id <=> q = l
    BY <1>1, ChangeFinds
  <1>3. row' = [row EXCEPT ![l].name = event[r].name]
    <2>1. \A d \in Rows!DetailRows(event[r].id) : d = l
      BY <1>2 DEF Rows!DetailRows, SInv, ReadInv, Shown, IsCreated
    <2> QED
      BY <1>1, <2>1
  <1>4. /\ Solo' /\ ListTable' /\ AtEnd' /\ ~Idle(r) /\ stage[r] = "published"
        /\ \A q \in Requests : detailTask'[q] = IF q = r THEN "named" ELSE detailTask[q]
        /\ \A m \in Requests : /\ IsCreated(m)' <=> IsCreated(m)
                               /\ IsCreated(m) => ListShown(m)'
        /\ \A m \in Requests : /\ ~NameLag(m)'
                               /\ VersionLag(m)' <=> Later(r, m)
    <2>1. detailTask[r] \notin Ended
      BY <1>1 DEF Ended
    <2> QED
      BY <1>1, <2>1, DetailFrame
  <1>5. Handled' /\ DetailTable'
    BY <1>1, <1>4 DEF Turn, Handled, DetailTable, IsCreated
  <1>6. \A m \in Requests : /\ NameLag(m) <=> Later(r, m)
                            /\ VersionLag(m) <=> Later(r, m)
    BY <1>1, <1>4, SoloFacts
  <1>7. ASSUME NEW m \in Requests, IsCreated(m) PROVE Projected(m)'
    <2>1. VersionsIn(m)' = VersionsIn(m)
      BY <1>4, <1>6 DEF VersionsIn, writeVars
    <2>2. row'[m].version = row[m].version
      BY <1>3, TurnTypes DEF Rows!TypeOK
    <2>3. VersionShown(m)'
      BY <1>1, <1>4, <1>7, <2>1, <2>2, VersionSame DEF writeVars
    <2>4. CASE m = l
      <3>1. /\ size[l] = slot[r] + 1 /\ slot[r] \in Nat \ {0}
            /\ items[l][slot[r]] = [req |-> r, version |-> event[r].version]
            /\ cmd[r].type = "rename" /\ cmd[r].name = event[r].name
        BY <1>1, <1>2, <1>4, ChangeAtEnd
      <3>2. LastName(items[l], cmd, slot[r] + 1, event[r].name)
        BY <3>1, CommandHypotheses, LastNameGiven
      <3>3. NamesIn(l)' = slot[r] + 1
        BY <1>4, <3>1 DEF NamesIn, writeVars
      <3>4. row'[l].name = event[r].name
        BY <1>3, TurnTypes DEF Rows!TypeOK
      <3>5. LastName(items'[l], cmd', NamesIn(l)', row'[l].name)
        BY <3>2, <3>3, <3>4 DEF writeVars
      <3> QED
        BY <1>4, <1>7, <2>3, <2>4, <3>5 DEF Projected, NameShown
    <2>5. CASE m # l
      <3>1. ~Later(r, m)
        BY <1>2, <2>5 DEF Later
      <3>2. NamesIn(m)' = NamesIn(m)
        BY <1>4, <1>6, <3>1 DEF NamesIn, writeVars
      <3>3. row'[m] = row[m]
        BY <1>3, <2>5, TurnTypes DEF Rows!TypeOK
      <3>4. /\ detailTask'[m] = "done" => detailTask[m] = "done"
            /\ UNCHANGED <<items, cmd>>
        BY <1>4 DEF writeVars
      <3>5. NameShown(m)'
        BY <1>7, <3>2, <3>3, <3>4, NameSame
      <3> QED
        BY <1>4, <1>7, <2>3, <3>5 DEF Projected
    <2> QED
      BY <2>4, <2>5
  <1> QED
    BY <1>4, <1>5, <1>7 DEF Turn, Shows

(* ... and that of a removal the version alone.                            *)
LEMMA DetailVersions ==
  ASSUME SInv, C!Whole, Turn, NEW r \in Requests, UNCHANGED writeVars,
         Rows!DetailVersion(r)
  PROVE  Turn'
PROOF
  <1>1. /\ \/ event[r].type = "rename" /\ detailTask[r] = "named"
           \/ event[r].type = "remove" /\ detailTask[r] = "queued"
        /\ detailTask' = [detailTask EXCEPT ![r] = "done"]
        /\ \E d \in Rows!RowOf(event[r].id) :
             row' = [row EXCEPT ![d].version = event[r].version]
        /\ UNCHANGED <<details, detailCount, claim, event, list, listSize,
                       listName, listTask>>
    <2>1. detailTask[r] = "named" => event[r].type = "rename"
      <3>1. detailTask[r] = "named" => detailTask[r] \notin Ended
        BY DEF Ended
      <3>2. detailTask[r] = "named" => event[r].type \in {"create", "rename", "remove"}
        BY <3>1, HandlerRuns DEF Turn
      <3> QED
        BY <3>2 DEF Turn, Handled
    <2> QED
      BY <2>1 DEF Rows!DetailVersion, Rows!Detail, Rows!listVars
  <1>2. PICK l \in Requests :
          /\ target[r] = l /\ Later(r, l) /\ IsCreated(l)
          /\ \A q \in Requests : IsCreated(q) /\ event[q].id = event[r].id <=> q = l
          /\ detailTask[l] = "done"
    BY <1>1, ChangeFinds
  <1>3. row' = [row EXCEPT ![l].version = event[r].version]
    <2>1. \A d \in Rows!RowOf(event[r].id) : d = l
      BY <1>2 DEF Rows!RowOf, IsCreated
    <2> QED
      BY <1>1, <2>1
  <1>4. /\ Solo' /\ ListTable' /\ AtEnd' /\ ~Idle(r) /\ stage[r] = "published"
        /\ \A q \in Requests : detailTask'[q] = IF q = r THEN "done" ELSE detailTask[q]
        /\ \A m \in Requests : /\ IsCreated(m)' <=> IsCreated(m)
                               /\ IsCreated(m) => ListShown(m)'
        /\ \A m \in Requests : ~NameLag(m)' /\ ~VersionLag(m)'
    <2>1. detailTask[r] \notin Ended
      BY <1>1 DEF Ended
    <2> QED
      BY <1>1, <2>1, DetailFrame
  <1>5. ~IsCreated(r)
    BY <1>1 DEF IsCreated
  <1>6. Handled' /\ DetailTable'
    BY <1>1, <1>4, <1>5 DEF Turn, Handled, DetailTable, IsCreated
  <1>7. \A m \in Requests :
          /\ NameLag(m) <=> Later(r, m) /\ event[r].type = "remove"
          /\ VersionLag(m) <=> Later(r, m)
    BY <1>1, <1>4, SoloFacts DEF Unpublished
  <1>8. /\ size[l] = slot[r] + 1 /\ slot[r] \in Nat \ {0}
        /\ items[l][slot[r]] = [req |-> r, version |-> event[r].version]
        /\ cmd[r].type = event[r].type
    BY <1>2, <1>4, ChangeAtEnd
  <1>9. ASSUME NEW m \in Requests, IsCreated(m) PROVE Projected(m)'
    <2>1. /\ detailTask'[m] = "done" => detailTask[m] = "done"
          /\ UNCHANGED <<items, cmd, size>>
      BY <1>4, <1>5, <1>9 DEF writeVars
    <2>2. row'[m].name = row[m].name
      BY <1>3, TurnTypes DEF Rows!TypeOK
    <2>3. CASE m = l
      <3>1. NamesIn(l)' = slot[r] + 1 /\ VersionsIn(l)' = slot[r] + 1
        BY <1>4, <1>8, <2>1 DEF NamesIn, VersionsIn
      <3>2. row'[l].version = event[r].version
        BY <1>3, TurnTypes DEF Rows!TypeOK
      <3>3. VersionShown(m)'
        <4>1. (slot[r] + 1) - 1 = slot[r] /\ slot[r] + 1 # 1
          BY <1>8
        <4>2. items'[l][slot[r]].version = event[r].version
          BY <1>8, <2>1
        <4> QED
          BY <2>3, <3>1, <3>2, <4>1, <4>2 DEF VersionShown
      <3>4. CASE event[r].type = "rename"
        <4>1. NamesIn(l)' = NamesIn(l)
          BY <1>7, <1>8, <3>1, <3>4 DEF NamesIn
        <4>2. NameShown(l)'
          BY <1>9, <2>1, <2>2, <2>3, <4>1, NameSame
        <4> QED
          BY <1>4, <1>9, <2>3, <3>3, <4>2 DEF Projected
      <3>5. CASE event[r].type = "remove"
        <4>1. NamesIn(l) = slot[r]
          BY <1>2, <1>7, <1>8, <3>5 DEF NamesIn
        <4>2. LastName(items[l], cmd, slot[r], row[l].name)
          BY <1>2, <4>1 DEF Turn, Shows, Projected, NameShown
        <4>3. LastName(items[l], cmd, slot[r] + 1, row[l].name)
          BY <1>8, <3>5, <4>2, CommandHypotheses, LastNameStays
        <4>4. LastName(items'[l], cmd', NamesIn(l)', row'[l].name)
          BY <2>1, <2>2, <2>3, <3>1, <4>3
        <4> QED
          BY <1>4, <1>9, <2>3, <3>3, <4>4 DEF Projected, NameShown
      <3> QED
        BY <1>1, <3>4, <3>5
    <2>4. CASE m # l
      <3>1. ~Later(r, m)
        BY <1>2, <2>4 DEF Later
      <3>2. NamesIn(m)' = NamesIn(m) /\ VersionsIn(m)' = VersionsIn(m)
        BY <1>4, <1>7, <2>1, <3>1 DEF NamesIn, VersionsIn
      <3>3. row'[m] = row[m]
        BY <1>3, <2>4, TurnTypes DEF Rows!TypeOK
      <3>4. NameShown(m)'
        BY <1>9, <2>1, <3>2, <3>3, NameSame
      <3>5. VersionShown(m)'
        BY <1>9, <2>1, <3>2, <3>3, VersionSame
      <3> QED
        BY <1>4, <1>9, <3>4, <3>5 DEF Projected
    <2> QED
      BY <2>3, <2>4
  <1> QED
    BY <1>4, <1>6, <1>9 DEF Turn, Shows

(* No detail handler finds its row missing.                                *)
LEMMA DetailTurn ==
  ASSUME SInv, C!Whole, Turn, NEW r \in Requests, UNCHANGED writeVars,
         Rows!DetailStep(r)
  PROVE  Turn'
PROOF
  <1>1. ~Rows!DetailMissing(r)
    <2>1. SUFFICES ASSUME Rows!DetailMissing(r) PROVE FALSE
      OBVIOUS
    <2>2. /\ event[r].type # "create" /\ detailTask[r] \notin Ended
          /\ Rows!DetailRows(event[r].id) = {}
      BY <2>1 DEF Rows!DetailMissing, Rows!Detail, Ended
    <2>3. event[r].type \in {"rename", "remove"}
      BY <2>2, HandlerRuns DEF Turn
    <2>4. PICK l \in Requests : /\ IsCreated(l) /\ event[l].id = event[r].id
                                /\ detailTask[l] = "done"
      BY <2>3, ChangeFinds
    <2>5. PICK k \in Rows!Slots : details[k] = l
      BY <2>4 DEF Turn, DetailTable
    <2> QED
      BY <2>2, <2>4, <2>5, CommandHypotheses DEF Rows!DetailRows
  <1> QED
    BY <1>1, DetailCreates, DetailNames, DetailVersions DEF Rows!DetailStep

(* What a step of the list handler leaves alone. *)
LEMMA ListFrame ==
  ASSUME SInv, C!Whole, Turn, NEW r \in Requests, NEW to,
         listTask[r] \notin Ended, listTask' = [listTask EXCEPT ![r] = to],
         UNCHANGED <<event, details, detailCount, row, detailTask, writeVars>>,
         \A q \in Requests : claim'[q]["detail"] = claim[q]["detail"]
  PROVE  /\ Solo' /\ DetailTable' /\ AtEnd' /\ ~Idle(r) /\ stage[r] = "published"
         /\ \A q \in Requests : listTask'[q] = IF q = r THEN to ELSE listTask[q]
         /\ \A s \in Requests : s # r =>
              listTask[s] \in {"none", "done"} /\ listTask'[s] = listTask[s]
         /\ \A l \in Requests :
              /\ IsCreated(l)' <=> IsCreated(l)
              /\ IsCreated(l) => NameShown(l)' /\ VersionShown(l)'
         /\ \A l \in Requests : ListLag(l)' <=> Later(r, l) /\ to = "queued"
PROOF
  <1> USE DEF writeVars
  <1>1. \A q \in Requests : listTask'[q] = IF q = r THEN to ELSE listTask[q]
    BY TurnTypes DEF Rows!TypeOK
  <1>2. ~Idle(r) /\ stage[r] = "published"
    BY HandlerRuns DEF Turn
  <1>3. \A s \in Requests : s # r =>
          listTask[s] \in {"none", "done"} /\ listTask'[s] = listTask[s]
    BY <1>1, <1>2, SoloFacts
  <1>4. \A s \in Requests : s # r => (Idle(s) <=> Idle(s)')
    BY <1>3 DEF Idle
  <1>5. Solo'
    BY <1>2, <1>4, SoloKept
  <1>6. DetailTable'
    BY DEF Turn, DetailTable, IsCreated
  <1>7. AtEnd'
    <2>1. \A s \in Requests : Counted(s)' => Counted(s)
      BY <1>2, <1>4 DEF Counted, Unpublished
    <2>2. \A s, l \in Requests : Later(s, l) => l # r
      BY DEF Turn, AtEnd, Ended
    <2>3. \A s, l \in Requests : Later(s, l)' <=> Later(s, l)
      BY DEF Later
    <2> QED
      BY <1>3, <2>1, <2>2, <2>3 DEF Turn, AtEnd
  <1>8. \A l \in Requests : IsCreated(l)' <=> IsCreated(l)
    BY DEF IsCreated
  <1>9. ASSUME NEW l \in Requests, IsCreated(l)
        PROVE  NameShown(l)' /\ VersionShown(l)'
    <2>1. NamesIn(l)' = NamesIn(l) /\ VersionsIn(l)' = VersionsIn(l)
      BY DEF NamesIn, VersionsIn, NameLag, VersionLag, Later, Unpublished
    <2> QED
      BY <1>9, <2>1, NameSame, VersionSame
  <1>10. ASSUME NEW l \in Requests
         PROVE  ListLag(l)' <=> Later(r, l) /\ to = "queued"
    <2>1. \A s \in Requests : ~Unpublished(s)'
      BY <1>2, SoloFacts DEF Unpublished
    <2>2. \A s \in Requests : Later(s, l)' <=> Later(s, l)
      BY DEF Later
    <2> QED
      BY <1>1, <1>3, <2>1, <2>2 DEF ListLag
  <1> QED
    BY <1>1, <1>2, <1>3, <1>5, <1>6, <1>7, <1>8, <1>9, <1>10

(* list.Add of a creation: the row is null once the size counts it, and is *)
(* written next.                                                           *)
LEMMA ListCreates ==
  ASSUME SInv, C!Whole, Turn, NEW r \in Requests, UNCHANGED writeVars,
         Rows!ListRead(r) \/ Rows!ListBump(r) \/ Rows!ListAdd(r)
  PROVE  Turn'
PROOF
  <1>1. /\ UNCHANGED <<event, details, detailCount, row, detailTask, writeVars>>
        /\ \A q \in Requests : claim'[q]["detail"] = claim[q]["detail"]
        /\ listTask[r] \in {"queued", "adding", "bumped"}
    <2>1. claim' = claim \/ claim' = [claim EXCEPT ![r]["list"] = listSize]
      BY DEF Rows!ListRead, Rows!ListBump, Rows!ListAdd
    <2>2. \A q \in Requests : claim'[q]["detail"] = claim[q]["detail"]
      BY <2>1, ClaimKept
    <2> QED
      BY <2>2 DEF Rows!ListRead, Rows!ListBump, Rows!ListAdd, Rows!List,
                  Rows!detailVars
  <1>2. IsCreated(r) /\ listTask[r] \notin Ended
    BY <1>1 DEF Rows!ListRead, Rows!ListBump, Rows!ListAdd, Rows!List, SInv,
                ReadInv, Tasks, IsCreated, Ended
  <1>3. ~Idle(r)
    BY <1>2, HandlerRuns DEF Turn
  <1>4. /\ \A s \in Requests : ~Later(s, r)
        /\ \A l \in Requests : ~Later(r, l)
        /\ size[r] = 1 /\ LastName(items[r], cmd, 1, event[r].name)
    BY <1>1, <1>2, <1>3, CreationAlone
  <1>5. \A l \in Requests : ~ListLag(l)
    BY <1>3, <1>4, SoloFacts
  <1>6. PICK to \in {"adding", "bumped", "done"} :
          listTask' = [listTask EXCEPT ![r] = to]
    BY DEF Rows!ListRead, Rows!ListBump, Rows!ListAdd, Rows!List
  <1>7. /\ Solo' /\ DetailTable' /\ AtEnd'
        /\ \A q \in Requests : listTask'[q] = IF q = r THEN to ELSE listTask[q]
        /\ \A s \in Requests : s # r => listTask[s] \in {"none", "done"}
        /\ \A l \in Requests :
             /\ IsCreated(l)' <=> IsCreated(l)
             /\ IsCreated(l) => NameShown(l)' /\ VersionShown(l)'
        /\ \A l \in Requests : ~ListLag(l)'
    BY <1>1, <1>2, <1>4, <1>6, ListFrame
  <1>8. Handled'
    BY <1>1, <1>2, <1>7 DEF Turn, Handled, IsCreated
  <1>9. \A l \in Requests : ListedIn(l)' = ListedIn(l)
    BY <1>5, <1>7 DEF ListedIn, writeVars
  <1>10. \A k \in Rows!Slots : k \in Int /\ list[k] # r
    <2>1. listTask[r] # "done"
      BY <1>1
    <2> QED
      BY <2>1, CommandHypotheses DEF Turn, ListTable, Rows!Slots
  <1>11. CASE Rows!ListRead(r) \/ Rows!ListBump(r)
    <2>1. list' = list /\ listName' = listName /\ to # "done"
      <3>1. listTask'[r] = to
        BY <1>7
      <3>2. listTask'[r] # "done"
        BY <1>11, TurnTypes
           DEF Rows!ListRead, Rows!ListBump, Rows!List, Rows!TypeOK
      <3> QED
        BY <1>11, <3>1, <3>2 DEF Rows!ListRead, Rows!ListBump
    <2>2. ListTable'
      <3>1. CASE Rows!ListRead(r)
        <4>1. /\ listTask[r] = "queued" /\ listSize' = listSize
              /\ claim' = [claim EXCEPT ![r]["list"] = listSize]
          BY <3>1 DEF Rows!ListRead, Rows!List
        <4>2. to = "adding"
          <5>1. listTask' = [listTask EXCEPT ![r] = "adding"]
            BY <3>1 DEF Rows!ListRead, Rows!List
          <5> QED
            BY <1>7, <5>1, TurnTypes DEF Rows!TypeOK
        <4>3. claim'[r]["list"] = listSize
          BY <4>1, ClaimKept
        <4>4. \A k \in Rows!Slots : k < listSize => list[k] # NoRequest
          BY <1>7, <4>1 DEF Turn, ListTable
        <4>5. \A k \in Rows!Slots : list[k] # NoRequest => listTask'[list[k]] = "done"
          BY <1>7, <1>10, <2>1 DEF Turn, ListTable, SInv, ReadInv, Shown, IsCreated
        <4> QED
          BY <1>7, <2>1, <4>1, <4>2, <4>3, <4>4, <4>5 DEF Turn, ListTable
      <3>2. CASE Rows!ListBump(r)
        <4>1. /\ listTask[r] = "adding" /\ listSize' = claim[r]["list"] + 1
              /\ claim' = claim
          BY <3>2 DEF Rows!ListBump, Rows!List
        <4>2. to = "bumped"
          <5>1. listTask' = [listTask EXCEPT ![r] = "bumped"]
            BY <3>2 DEF Rows!ListBump, Rows!List
          <5> QED
            BY <1>7, <5>1, TurnTypes DEF Rows!TypeOK
        <4>3. claim[r]["list"] = listSize /\ listSize \in Rows!Slots
          <5>1. claim[r]["list"] = listSize /\ claim[r]["list"] < Capacity
            BY <4>1 DEF Turn, ListTable, SInv, ReadInv, Tasks
          <5> QED
            BY <5>1, TurnTypes, CommandHypotheses DEF Rows!TypeOK, Rows!Slots
        <4>4. list[listSize] = NoRequest
          BY <4>3 DEF Turn, ListTable, Rows!Slots
        <4>5. \A k \in Rows!Slots : k < listSize => list[k] # NoRequest
          BY <1>7, <4>1 DEF Turn, ListTable
        <4>6. \A k \in Rows!Slots : list[k] # NoRequest => listTask'[list[k]] = "done"
          BY <1>7, <1>10, <2>1 DEF Turn, ListTable, SInv, ReadInv, Shown, IsCreated
        <4>7. \A k \in Rows!Slots : k >= listSize + 1 => k >= listSize
          BY <4>3 DEF Rows!Slots
        <4>8. \A k \in Rows!Slots : k < listSize + 1 => k < listSize \/ k = listSize
          BY <4>3 DEF Rows!Slots
        <4> QED
          BY <1>7, <2>1, <4>1, <4>2, <4>3, <4>4, <4>5, <4>6, <4>7, <4>8
             DEF Turn, ListTable
      <3> QED
        BY <1>11, <3>1, <3>2
    <2>3. ASSUME NEW l \in Requests, IsCreated(l) PROVE Projected(l)'
      <3>1. listTask'[l] = "done" => listTask[l] = "done"
        BY <1>7, <2>1
      <3>2. ListShown(l)'
        BY <1>1, <1>9, <2>1, <2>3, <3>1, ListSame DEF writeVars
      <3> QED
        BY <1>7, <2>3, <3>2 DEF Projected
    <2> QED
      BY <1>7, <1>8, <2>2, <2>3 DEF Turn, Shows
  <1>12. CASE Rows!ListAdd(r)
    <2>1. /\ listTask[r] = "bumped" /\ UNCHANGED <<listSize, claim>>
          /\ list' = [list EXCEPT ![claim[r]["list"]] = r]
          /\ listName' = [listName EXCEPT ![r] = event[r].name]
          /\ to = "done"
      <3>1. listTask' = [listTask EXCEPT ![r] = "done"]
        BY <1>12 DEF Rows!ListAdd, Rows!List
      <3>2. to = "done"
        BY <1>7, <3>1, TurnTypes DEF Rows!TypeOK
      <3> QED
        BY <1>12, <3>2 DEF Rows!ListAdd, Rows!List
    <2>2. PICK c \in Rows!Slots : /\ claim[r]["list"] = c /\ c + 1 = listSize
                                  /\ list[c] = NoRequest
      <3>1. /\ claim[r]["list"] < Capacity /\ claim[r]["list"] + 1 = listSize
            /\ list[claim[r]["list"]] = NoRequest
        BY <2>1 DEF Turn, ListTable, SInv, ReadInv, Tasks
      <3>2. claim[r]["list"] \in Rows!Slots
        BY <3>1, TurnTypes, CommandHypotheses DEF Rows!TypeOK, Rows!Slots
      <3> QED
        BY <3>1, <3>2
    <2>3. \A k \in Rows!Slots : list'[k] = IF k = c THEN r ELSE list[k]
      BY <2>1, <2>2, TurnTypes DEF Rows!TypeOK
    <2>4. ListTable'
      <3>1. \A k \in Rows!Slots : k >= listSize => k # c
        BY <2>2 DEF Rows!Slots
      <3>2. \A k \in Rows!Slots : k >= listSize' => list'[k] = NoRequest
        BY <2>1, <2>3, <3>1 DEF Turn, ListTable
      <3>3. \A k \in Rows!Slots : k < listSize' => list'[k] # NoRequest
        BY <1>7, <2>1, <2>2, <2>3, CommandHypotheses DEF Turn, ListTable
      <3>4. \A q \in Requests : IsCreated(q) /\ listTask'[q] = "done"
              => \E k \in Rows!Slots : list'[k] = q
        BY <1>7, <2>2, <2>3, CommandHypotheses DEF Turn, ListTable
      <3>5. \A k \in Rows!Slots : list'[k] # NoRequest => listTask'[list'[k]] = "done"
        BY <1>7, <1>10, <2>1, <2>3
           DEF Turn, ListTable, SInv, ReadInv, Shown, IsCreated
      <3>6. \A k, n \in Rows!Slots :
              list'[k] # NoRequest /\ list'[k] = list'[n] => k = n
        BY <1>10, <2>3 DEF Turn, ListTable
      <3>7. \A q \in Requests : listTask'[q] \notin {"adding", "bumped"}
        BY <1>7, <2>1
      <3> QED
        BY <1>7, <3>2, <3>3, <3>4, <3>5, <3>6, <3>7 DEF ListTable
    <2>5. ASSUME NEW l \in Requests, IsCreated(l) PROVE Projected(l)'
      <3>1. CASE l = r
        <4>1. ListedIn(l)' = 1
          BY <1>4, <1>5, <1>9, <3>1 DEF ListedIn
        <4>2. listName'[r] = event[r].name
          BY <2>1, TurnTypes DEF Rows!TypeOK
        <4>3. LastName(items'[l], cmd', ListedIn(l)', listName'[l])
          BY <1>1, <1>4, <3>1, <4>1, <4>2 DEF writeVars
        <4> QED
          BY <1>7, <2>5, <4>3 DEF Projected, ListShown
      <3>2. CASE l # r
        <4>1. /\ listTask'[l] = "done" => listTask[l] = "done"
              /\ listName'[l] = listName[l]
          BY <1>7, <2>1, <3>2, TurnTypes DEF Rows!TypeOK
        <4>2. ListShown(l)'
          BY <1>1, <1>9, <2>5, <4>1, ListSame DEF writeVars
        <4> QED
          BY <1>7, <2>5, <4>2 DEF Projected
      <3> QED
        BY <3>1, <3>2
    <2> QED
      BY <1>7, <1>8, <2>4, <2>5 DEF Turn, Shows
  <1> QED
    BY <1>11, <1>12

(* Handle(ClientRenamedEvent) of the list finds the row and changes it.    *)
LEMMA ListRenames ==
  ASSUME SInv, C!Whole, Turn, NEW r \in Requests, UNCHANGED writeVars,
         Rows!ListRename(r)
  PROVE  Turn'
PROOF
  <1>1. /\ event[r].type = "rename" /\ listTask[r] = "queued"
        /\ listTask' = [listTask EXCEPT ![r] = "done"]
        /\ \E k \in Rows!Found(event[r].id) :
             listName' = [listName EXCEPT ![list[k]] = event[r].name]
        /\ UNCHANGED <<list, listSize, claim, event, details, detailCount, row,
                       detailTask>>
    BY DEF Rows!ListRename, Rows!List, Rows!detailVars
  <1>2. PICK l \in Requests :
          /\ target[r] = l /\ Later(r, l) /\ IsCreated(l)
          /\ \A q \in Requests : IsCreated(q) /\ event[q].id = event[r].id <=> q = l
          /\ listTask[l] = "done"
    BY <1>1, ChangeFinds
  <1>3. listName' = [listName EXCEPT ![l] = event[r].name]
    <2>1. PICK k \in Rows!Found(event[r].id) :
            listName' = [listName EXCEPT ![list[k]] = event[r].name]
      BY <1>1
    <2>2. /\ k \in 0 .. listSize - 1 /\ list[k] # NoRequest
          /\ event[list[k]].id = event[r].id
      BY DEF Rows!Found, Rows!ListSlots
    <2>3. k \in Rows!Slots
      BY <2>2, TurnTypes, CommandHypotheses DEF Rows!TypeOK, Rows!Slots
    <2>4. list[k] \in Requests /\ IsCreated(list[k])
      BY <2>2, <2>3 DEF SInv, ReadInv, Shown, IsCreated
    <2> QED
      BY <1>2, <2>1, <2>2, <2>4
  <1>4. /\ Solo' /\ DetailTable' /\ AtEnd' /\ ~Idle(r) /\ stage[r] = "published"
        /\ \A q \in Requests : listTask'[q] = IF q = r THEN "done" ELSE listTask[q]
        /\ \A s \in Requests : s # r => listTask[s] \in {"none", "done"}
        /\ \A m \in Requests :
             /\ IsCreated(m)' <=> IsCreated(m)
             /\ IsCreated(m) => NameShown(m)' /\ VersionShown(m)'
        /\ \A m \in Requests : ~ListLag(m)'
    <2>1. listTask[r] \notin Ended
      BY <1>1 DEF Ended
    <2> QED
      BY <1>1, <2>1, ListFrame
  <1>5. ~IsCreated(r)
    BY <1>1 DEF IsCreated
  <1>6. Handled'
    BY <1>1, <1>4, <1>5 DEF Turn, Handled, IsCreated
  <1>7. ListTable'
    <2>1. \A k \in Rows!Slots : list[k] # NoRequest => listTask'[list[k]] = "done"
      BY <1>4 DEF Turn, ListTable, SInv, ReadInv, Shown, IsCreated
    <2>2. \A q \in Requests : /\ listTask'[q] \notin {"adding", "bumped"}
                              /\ listTask[q] \notin {"adding", "bumped"}
      BY <1>1, <1>4
    <2>3. \A q \in Requests : IsCreated(q)' /\ listTask'[q] = "done"
            => IsCreated(q) /\ listTask[q] = "done"
      BY <1>4, <1>5
    <2> QED
      BY <1>1, <2>1, <2>2, <2>3 DEF Turn, ListTable
  <1>8. \A m \in Requests : ListLag(m) <=> Later(r, m)
    BY <1>1, <1>4, SoloFacts
  <1>9. ASSUME NEW m \in Requests, IsCreated(m) PROVE ListShown(m)'
    <2>1. /\ listTask'[m] = "done" => listTask[m] = "done"
          /\ UNCHANGED <<items, cmd, size>>
      BY <1>4, <1>5, <1>9 DEF writeVars
    <2>2. CASE m = l
      <3>1. /\ size[l] = slot[r] + 1 /\ slot[r] \in Nat \ {0}
            /\ items[l][slot[r]] = [req |-> r, version |-> event[r].version]
            /\ cmd[r].type = "rename" /\ cmd[r].name = event[r].name
        BY <1>1, <1>2, <1>4, ChangeAtEnd
      <3>2. LastName(items[l], cmd, slot[r] + 1, event[r].name)
        BY <3>1, CommandHypotheses, LastNameGiven
      <3>3. ListedIn(l)' = slot[r] + 1
        BY <1>4, <2>1, <3>1 DEF ListedIn
      <3>4. listName'[l] = event[r].name
        BY <1>3, TurnTypes DEF Rows!TypeOK
      <3>5. LastName(items'[l], cmd', ListedIn(l)', listName'[l])
        BY <2>1, <3>2, <3>3, <3>4
      <3> QED
        BY <2>2, <3>5 DEF ListShown
    <2>3. CASE m # l
      <3>1. ~Later(r, m)
        BY <1>2, <2>3 DEF Later
      <3>2. ListedIn(m)' = ListedIn(m)
        BY <1>4, <1>8, <2>1, <3>1 DEF ListedIn
      <3>3. listName'[m] = listName[m]
        BY <1>3, <2>3, TurnTypes DEF Rows!TypeOK
      <3> QED
        BY <1>9, <2>1, <3>2, <3>3, ListSame
    <2> QED
      BY <2>2, <2>3
  <1>10. \A m \in Requests : IsCreated(m)' => Projected(m)'
    BY <1>4, <1>9 DEF Projected
  <1> QED
    BY <1>4, <1>6, <1>7, <1>10 DEF Turn, Shows

(* No list handler finds its row missing, or meets a null before it.       *)
LEMMA ListTurn ==
  ASSUME SInv, C!Whole, Turn, NEW r \in Requests, UNCHANGED writeVars,
         Rows!ListStep(r)
  PROVE  Turn'
PROOF
  <1>1. ~Rows!ListMissing(r)
    <2>1. SUFFICES ASSUME Rows!ListMissing(r) PROVE FALSE
      OBVIOUS
    <2>2. /\ event[r].type = "rename" /\ listTask[r] = "queued"
          /\ Rows!Found(event[r].id) = {}
      BY <2>1 DEF Rows!ListMissing, Rows!List
    <2>3. PICK l \in Requests :
            /\ IsCreated(l) /\ event[l].id = event[r].id
            /\ \A q \in Requests : IsCreated(q) /\ event[q].id = event[r].id <=> q = l
            /\ listTask[l] = "done"
      BY <2>2, ChangeFinds
    <2>4. PICK k \in Rows!Slots : list[k] = l
      BY <2>3 DEF Turn, ListTable
    <2>5. listSize \in 0 .. Capacity /\ Capacity \in Nat /\ k \in Nat
      BY TurnTypes, CommandHypotheses DEF Rows!TypeOK, Rows!Slots
    <2>6. k < listSize
      <3>1. ~(k >= listSize)
        BY <2>3, <2>4, CommandHypotheses DEF Turn, ListTable
      <3> QED
        BY <2>5, <3>1
    <2>7. k \in Rows!ListSlots(event[r].id)
      BY <2>3, <2>4, <2>5, <2>6, CommandHypotheses DEF Rows!ListSlots
    <2>8. ASSUME NEW n \in 0 .. k - 1
          PROVE  list[n] # NoRequest /\ n \notin Rows!ListSlots(event[r].id)
      <3>1. n \in Rows!Slots /\ n < listSize /\ n # k
        BY <2>5, <2>6 DEF Rows!Slots
      <3>2. listTask[r] \notin Ended
        BY <2>2 DEF Ended
      <3>3. \A q \in Requests : listTask[q] # "bumped"
        BY <2>2, <3>2, HandlerRuns, SoloFacts DEF Turn
      <3>4. list[n] # NoRequest
        BY <3>1, <3>3 DEF Turn, ListTable
      <3>5. list[n] # l
        BY <2>4, <3>1, <3>4 DEF Turn, ListTable
      <3>6. list[n] \in Requests /\ IsCreated(list[n])
        BY <3>1, <3>4 DEF SInv, ReadInv, Shown, IsCreated
      <3> QED
        BY <2>3, <3>4, <3>5, <3>6 DEF Rows!ListSlots
    <2> QED
      BY <2>2, <2>7, <2>8 DEF Rows!Found
  <1> QED
    BY <1>1, ListCreates, ListRenames DEF Rows!ListStep

(* A process that has just started has no rows, and nothing is running.    *)
Empty ==
  /\ \A r \in Requests : Idle(r) /\ event[r] = Rows!NoEvent
                         /\ stage[r] \in {"idle", "lost"}
                         /\ detailTask[r] = "none" /\ listTask[r] = "none"
                         /\ target[r] = NoRequest
  /\ \A k \in Rows!Slots : details[k] = NoRequest /\ list[k] = NoRequest
  /\ detailCount = 0 /\ listSize = 0 /\ ~clobbered

LEMMA EmptyTurn == Empty => Turn /\ ~clobbered
PROOF
  <1> SUFFICES ASSUME Empty PROVE Turn
    BY DEF Empty
  <1>1. \A r \in Requests : ~IsCreated(r) /\ event[r].type = "none"
    BY DEF Empty, IsCreated, Rows!NoEvent
  <1>2. \A k \in Rows!Slots : ~(k < 0)
    BY CommandHypotheses DEF Rows!Slots
  <1>3. Solo /\ Handled
    BY <1>1 DEF Empty, Solo, Handled
  <1>4. DetailTable /\ ListTable
    BY <1>1, <1>2 DEF Empty, DetailTable, ListTable
  <1>5. AtEnd
    BY CommandHypotheses DEF Empty, AtEnd, Counted, Unpublished, Later
  <1>6. Shows
    BY <1>1 DEF Shows
  <1> QED
    BY <1>3, <1>4, <1>5, <1>6 DEF Turn

(* Nothing of the invariant is about what the service has answered. *)
LEMMA SameTurn ==
  ASSUME Turn, UNCHANGED <<writeVars, readVars>>
  PROVE  Turn'
PROOF
  <1> USE DEF writeVars, readVars
  <1>1. \A r \in Requests : /\ Idle(r)' <=> Idle(r)
                            /\ Unpublished(r)' <=> Unpublished(r)
                            /\ IsCreated(r)' <=> IsCreated(r)
    BY DEF Idle, Unpublished, IsCreated
  <1>2. \A r, l \in Requests : Later(r, l)' <=> Later(r, l)
    BY DEF Later
  <1>3. Solo'
    BY <1>1 DEF Turn, Solo
  <1>4. Handled'
    BY DEF Turn, Handled
  <1>5. DetailTable'
    BY <1>1 DEF Turn, DetailTable
  <1>6. ListTable'
    BY <1>1 DEF Turn, ListTable
  <1>7. AtEnd'
    BY <1>1, <1>2 DEF Turn, AtEnd, Counted
  <1>8. \A l \in Requests : /\ NamesIn(l)' = NamesIn(l)
                            /\ VersionsIn(l)' = VersionsIn(l)
                            /\ ListedIn(l)' = ListedIn(l)
    BY <1>1, <1>2 DEF NamesIn, VersionsIn, ListedIn, NameLag, VersionLag, ListLag
  <1>9. \A l \in Requests : /\ NameShown(l)' <=> NameShown(l)
                            /\ VersionShown(l)' <=> VersionShown(l)
                            /\ ListShown(l)' <=> ListShown(l)
    BY <1>8 DEF NameShown, VersionShown, ListShown, LastName
  <1>10. Shows'
    BY <1>1, <1>9 DEF Turn, Shows, Projected
  <1> QED
    BY <1>3, <1>4, <1>5, <1>6, <1>7, <1>10 DEF Turn

Serial == alone => Turn /\ ~clobbered

LEMMA SerialInit == Init => Serial
PROOF
  <1> SUFFICES ASSUME Init PROVE Empty
    BY EmptyTurn DEF Serial
  <1> QED
    BY SameSteps
       DEF Init, C!Init, C!Store!Init, Rows!Init, Empty, Idle

LEMMA SerialNext ==
  ASSUME SInv, C!CInv, C!Proved!RefInv, ~clobbered => C!Streams, Serial,
         Versions = Int, [Next]_vars
  PROVE  Serial'
PROOF
  <1> SUFFICES ASSUME alone' PROVE Turn' /\ ~clobbered'
    BY DEF Serial
  <1>1. alone
    BY RequestSends
       DEF Next, Request, Task, Handle, Publish, HandlerStep, GetList, Restart,
           vars
  <1>2. Turn /\ C!Whole
    BY <1>1 DEF Serial, C!Whole
  <1>3. ASSUME NEW r \in Requests, Request(r) PROVE Turn' /\ ~clobbered'
    <2>1. UNCHANGED clobbered
      BY <1>3, RequestSends DEF C!Send, C!storeVars
    <2> QED
      BY <1>2, <1>3, <2>1, RequestTurn DEF C!Whole
  <1>4. ASSUME NEW r \in Requests, Task(r) PROVE Turn' /\ ~clobbered'
    <2>1. CASE HandlerStep(r)
      <3>1. UNCHANGED writeVars /\ (Rows!DetailStep(r) \/ Rows!ListStep(r))
        BY <2>1 DEF HandlerStep, Rows!HandlerStep
      <3>2. Turn'
        BY <1>2, <3>1, DetailTurn, ListTurn
      <3> QED
        BY <1>2, <3>1, <3>2 DEF writeVars, C!Whole
    <2> QED
      BY <1>2, <1>4, <2>1, HandleTurn, PublishTurn DEF Task
  <1>5. CASE GetList \/ UNCHANGED vars
    <2>1. UNCHANGED <<writeVars, readVars>>
      BY <1>5 DEF GetList, vars
    <2>2. ~clobbered'
      BY <1>2, <2>1 DEF writeVars, C!Whole
    <2> QED
      BY <1>2, <2>1, <2>2, SameTurn
  <1>6. CASE Restart
    <2>1. Rows!Restart /\ C!Restart
      BY <1>6, SameSteps DEF Restart
    <2>2. Empty'
      <3>1. /\ stage' = [r \in Requests |-> IF stage[r] = "idle" THEN "idle" ELSE "lost"]
            /\ task' = [r \in Requests |-> IF task[r] = "queued" THEN "failed"
                                                                 ELSE task[r]]
            /\ target' = [r \in Requests |-> NoRequest] /\ ~clobbered'
        BY <2>1 DEF C!Restart, C!Store!Restart
      <3>2. \A r \in Requests : Idle(r)'
        BY <3>1, TurnTypes DEF Idle
      <3> QED
        BY <2>1, <3>1, <3>2 DEF Empty, Rows!Restart
    <2>3. Empty' => Turn' /\ ~clobbered'
      BY EmptyTurn, PTL
    <2> QED
      BY <2>2, <2>3
  <1> QED
    BY <1>3, <1>4, <1>5, <1>6 DEF Next

(* A caller who waits until nothing runs before each request finds both    *)
(* rows of every client to be the projection of its events: no handler     *)
(* has missed its row, and the last of them left the name and the version  *)
(* (ClientDetailEventHandlers.cs, ClientListEventHandlers.cs).             *)
THEOREM RowsFollow == ASSUME Versions = Int PROVE Spec => []RowsMatchStore
PROOF
  <1>1. ASSUME SInv, C!CInv, C!Proved!RefInv, ~clobbered => C!Streams, Serial
        PROVE  RowsMatchStore
    <2>1. SUFFICES ASSUME alone, Quiet, NEW l \in Requests, target[l] = l
          PROVE  /\ \E d \in Rows!DetailRows(call[l].id) :
                      row[d] = [name    |-> NameAfter(l),
                                version |-> IF size[l] = 1
                                  THEN 1 ELSE Commands!Store!LastVersion(l)]
                 /\ \E k \in Rows!ListSlots(call[l].id) :
                      listName[list[k]] = NameAfter(l)
      BY DEF RowsMatchStore, Commands!Store!Created
    <2>2. Turn /\ C!Whole /\ C!Opened(l)
      BY <1>1, <2>1 DEF Serial, C!Whole, C!Opened
    <2>3. \A r \in Requests : Idle(r)
      BY <2>1 DEF Quiet
    <2>4. IsCreated(l) /\ stage[l] = "published"
      <3>1. stage[l] \notin {"idle", "saving", "opening", "rejected", "lost"}
        BY <2>1, <2>2, CommandHypotheses, C!ListFacts
      <3>2. stage[l] = "published"
        BY <1>1, <2>3, <3>1, TurnTypes DEF Idle
      <3> QED
        BY <1>1, <2>2, <3>2, CreatedFacts
    <2>5. \A r \in Requests : /\ detailTask[r] \in {"none", "done"}
                              /\ listTask[r] \in {"none", "done"}
                              /\ ~Unpublished(r)
      <3>1. ASSUME NEW r \in Requests, stage[r] = "published"
            PROVE  detailTask[r] \in Ended /\ listTask[r] \in Ended
        BY <1>1, <2>3, <3>1, TurnTypes DEF Idle
      <3>2. ASSUME NEW r \in Requests, stage[r] # "published"
            PROVE  detailTask[r] = "none" /\ listTask[r] = "none"
        BY <1>1, <2>2, <3>2, CreatedFacts DEF Turn, Handled
      <3>3. ASSUME NEW r \in Requests PROVE ~Unpublished(r)
        BY <1>1, <2>3, TurnTypes DEF Idle, Unpublished
      <3>4. ASSUME NEW r \in Requests, stage[r] = "published"
            PROVE  detailTask[r] \in {"none", "done"} /\ listTask[r] \in {"none", "done"}
        <4>1. event[r].type \in {"create", "rename", "remove"}
          BY <1>1, <2>2, <3>4, CreatedFacts, TurnTypes DEF C!Command, C!Types
        <4> QED
          BY <2>2, <3>1, <3>4, <4>1 DEF Turn, Handled, Ended
      <3> QED
        BY <3>2, <3>3, <3>4
    <2>6. detailTask[l] = "done" /\ listTask[l] = "done"
      BY <2>2, <2>4, <2>5 DEF Turn, Handled, IsCreated
    <2>7. NamesIn(l) = size[l] /\ VersionsIn(l) = size[l] /\ ListedIn(l) = size[l]
      BY <2>5 DEF NamesIn, VersionsIn, ListedIn, NameLag, VersionLag, ListLag
    <2>8. /\ LastName(items[l], cmd, size[l], row[l].name)
          /\ row[l].version = IF size[l] = 1 THEN 1 ELSE items[l][size[l] - 1].version
          /\ LastName(items[l], cmd, size[l], listName[l])
      BY <2>2, <2>4, <2>6, <2>7
         DEF Turn, Shows, Projected, NameShown, VersionShown, ListShown
    <2>9. size[l] \in Int
      BY <1>1, TurnTypes, CommandHypotheses
    <2>10. row[l].name = NameAfter(l) /\ listName[l] = NameAfter(l)
      BY <2>8, <2>9, LastNameChosen
    <2>11. row[l] = [name |-> row[l].name, version |-> row[l].version]
      BY <1>1, TurnTypes DEF Rows!TypeOK
    <2>12. row[l] = [name    |-> NameAfter(l),
                     version |-> IF size[l] = 1
                                   THEN 1 ELSE Commands!Store!LastVersion(l)]
      BY <2>8, <2>10, <2>11 DEF Commands!Store!LastVersion
    <2>13. event[l].id = call[l].id /\ l # NoRequest
      BY <1>1, <2>2, <2>4, CreatedFacts, CommandHypotheses
    <2>14. l \in Rows!DetailRows(call[l].id)
      <3>1. PICK k \in Rows!Slots : details[k] = l
        BY <2>2, <2>4, <2>6 DEF Turn, DetailTable
      <3> QED
        BY <2>13, <3>1 DEF Rows!DetailRows
    <2>15. \E k \in Rows!ListSlots(call[l].id) : list[k] = l
      <3>1. PICK k \in Rows!Slots : list[k] = l
        BY <2>2, <2>4, <2>6 DEF Turn, ListTable
      <3>2. ~(k >= listSize)
        BY <2>2, <2>13, <3>1 DEF Turn, ListTable
      <3>3. k \in 0 .. listSize - 1
        BY <1>1, <3>2, TurnTypes, CommandHypotheses DEF Rows!TypeOK, Rows!Slots
      <3> QED
        BY <2>13, <3>1, <3>3 DEF Rows!ListSlots
    <2> QED
      BY <2>10, <2>12, <2>14, <2>15
  <1>2. C!Spec => [](C!CInv /\ C!Proved!RefInv /\ (~clobbered => C!Streams))
    BY CommandHypotheses, C!AlwaysStreams
  <1> QED
    BY <1>1, <1>2, SerialInit, SerialNext, UsesC, AlwaysSInv, PTL DEF Spec
=============================================================================
