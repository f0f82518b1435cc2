------------------------ MODULE ClientCommands_proofs ------------------------
(***************************************************************************)
(* Proofs about the command handlers, for any number of commands, ids and  *)
(* versions: they keep to the specification of the event store, each event *)
(* is saved under the id that the caller named, and every list starts with *)
(* the creation of its aggregate.                                          *)
(*                                                                         *)
(* Neither of the last two is inductive.  That an id is issued once and    *)
(* told to callers only by the published event makes a change find a list  *)
(* whose first slot was written; that the dictionary keeps one list for an *)
(* aggregate, and that slots below the size are filled, come from the      *)
(* proofs about the store.                                                 *)
(***************************************************************************)
EXTENDS ClientCommands, TLAPS

Proved == INSTANCE EventStore_proofs WITH Versions <- Versions \cup {-1}

LEMMA SameTerms ==
  /\ Store!Slots = Proved!Slots /\ Store!Blank = Proved!Blank
  /\ Store!NoCall = Proved!NoCall
  /\ Store!Writing = Proved!Writing
  /\ \A id : Store!Lookup(id) = Proved!Lookup(id)
  /\ \A l : Store!History(l) = Proved!History(l)
  /\ \A l, v : Store!Acceptable(l, v) <=> Proved!Acceptable(l, v)
  /\ \A l : Store!Writers(l) = Proved!Writers(l)
PROOF
  <1> USE DEF Store!Slots, Proved!Slots, Store!Blank, Proved!Blank,
              Store!NoCall, Proved!NoCall,
              Store!Lookup, Proved!Lookup, Store!History, Proved!History,
              Store!Acceptable, Proved!Acceptable, Store!LastVersion,
              Proved!LastVersion, Store!Writers, Proved!Writers,
              Store!Writing, Proved!Writing
  <1> QED
    OBVIOUS

LEMMA SameSteps ==
  /\ Store!Init <=> Proved!Init
  /\ Store!Restart <=> Proved!Restart
  /\ \A r, id, v : Store!Save(r, id, v) <=> Proved!Save(r, id, v)
  /\ \A r : Store!SaveStep(r) <=> Proved!SaveStep(r)
  /\ \A r : Store!Publish(r) <=> Proved!Publish(r)
PROOF
  <1> USE DEF Store!locals, Proved!locals, Store!dict, Proved!dict,
              Store!lists, Proved!lists, Store!ghosts, Proved!ghosts,
              Store!Goto, Proved!Goto
  <1>1. Store!Init <=> Proved!Init
    BY SameTerms DEF Store!Init, Proved!Init
  <1>2. Store!Restart <=> Proved!Restart
    BY SameTerms DEF Store!Restart, Proved!Restart
  <1>3. \A r, id, v : Store!Save(r, id, v) <=> Proved!Save(r, id, v)
    BY DEF Store!Save, Proved!Save
  <1>4. \A r : Store!Publish(r) <=> Proved!Publish(r)
    BY DEF Store!Publish, Proved!Publish
  <1>5. \A r : Store!SaveStep(r) <=> Proved!SaveStep(r)
    BY SameTerms, <1>4
       DEF Store!SaveStep, Proved!SaveStep, Store!Miss, Proved!Miss,
           Store!OpenStream, Proved!OpenStream, Store!AddDuplicate,
           Proved!AddDuplicate, Store!Insert, Proved!Insert,
           Store!PassCheck, Proved!PassCheck, Store!FailCheck,
           Proved!FailCheck, Store!ReadSize, Proved!ReadSize,
           Store!BumpSize, Proved!BumpSize, Store!WriteItem, Proved!WriteItem
  <1> QED
    BY <1>1, <1>2, <1>3, <1>4, <1>5
-----------------------------------------------------------------------------
LEMMA StoreHypotheses == /\ NoRequest \notin Requests /\ EmptyGuid \in Guids
                         /\ Versions \cup {-1} \subseteq Int
                         /\ Capacity \in Nat \ {0}
  BY CommandAssumption DEF Guids

IsCreate(r) == r \in Sent /\ cmd[r].type = "create"
IsChange(r) == r \in Sent /\ cmd[r].type # "create"

Commanded ==
  /\ task \in [Requests -> {"unsent", "queued", "saving", "failed"}]
  /\ cmd \in [Requests -> Command]
  /\ announced \subseteq Ids
  /\ \A r \in Requests : stage[r] = "idle" <=> task[r] # "saving"

(* An id is issued once, and a caller knows it from the creation event.    *)
Callers ==
  /\ \A r \in Requests : IsCreate(r) => cmd[r].id \in Ids
  /\ \A r, s \in Requests :
       IsCreate(r) /\ IsCreate(s) /\ cmd[r].id = cmd[s].id => r = s
  /\ \A r \in Requests :
       IsChange(r) => cmd[r].id \in announced \cup {EmptyGuid}
  /\ \A g \in announced : \E r \in Requests :
       IsCreate(r) /\ cmd[r].id = g /\ stage[r] \in {"published", "lost"}

(* A creation is saved under its own id, and announced when published.     *)
Creations ==
  \A r \in Requests : IsCreate(r) =>
    /\ stage[r] \notin {"idle", "lost"} => call[r].id = cmd[r].id
    /\ stage[r] = "published" => cmd[r].id \in announced

CInv == Proved!Base /\ Commanded /\ Callers /\ Creations

LEMMA StoreTypes ==
  ASSUME CInv
  PROVE  /\ stage \in [Requests -> Proved!Stages]
         /\ call \in [Requests -> Proved!Call]
         /\ target \in [Requests -> Requests \cup {NoRequest}]
         /\ \A l \in Requests : \A k \in Proved!Slots :
              items[l][k].req \in Requests \cup {NoRequest}
         /\ \A k \in Proved!Slots : current[k] \in Requests \cup {NoRequest}
         /\ \A l \in Requests : size[l] \in 0 .. Capacity
PROOF
  <1>1. Proved!TypeOK
    BY DEF CInv, Proved!Base
  <1> QED
    BY <1>1 DEF Proved!TypeOK, Proved!ListRefs, Proved!Descriptor

(* A task inside Save stays inside it, or is rejected.                     *)
LEMMA SaveStepMoves ==
  ASSUME CInv, NEW r \in Requests, SaveStep(r)
  PROVE  /\ UNCHANGED <<task, cmd, announced>>
         /\ stage[r] \notin {"idle", "stored", "published", "lost"}
         /\ stage'[r] \notin {"idle", "published", "lost"}
         /\ \A s \in Requests \ {r} : stage'[s] = stage[s]
PROOF
  <1>1. Proved!SaveStep(r) /\ stage[r] # "stored"
    BY SameSteps DEF SaveStep
  <1>2. stage \in [Requests -> Proved!Stages]
    BY StoreTypes
  <1> QED
    BY <1>1, <1>2
       DEF SaveStep, Proved!SaveStep, Proved!Miss, Proved!OpenStream,
           Proved!AddDuplicate, Proved!Insert, Proved!PassCheck,
           Proved!FailCheck, Proved!ReadSize, Proved!BumpSize,
           Proved!WriteItem, Proved!Publish, Proved!Goto

(* The id a loaded aggregate has is Guid.Empty or that of a creation.      *)
LEMMA ReplayedGuids ==
  ASSUME CInv, NEW g, NEW l \in Store!Lookup(g), NEW id \in ReplayedIds(l)
  PROVE  id \in Guids
PROOF
  <1>1. l \in Requests
    BY SameTerms, StoreTypes DEF Proved!Lookup
  <1>2. \A e \in Store!History(l) : e.req \in Requests \cup {NoRequest}
    <2>1. \A k \in 0 .. size[l] - 1 : k \in Proved!Slots
      BY <1>1, StoreTypes, StoreHypotheses DEF Proved!Slots
    <2> QED
      BY <1>1, <2>1, SameTerms, StoreTypes DEF Proved!History
  <1>3. \A r \in Requests : cmd[r].id \in Guids
    BY DEF CInv, Commanded, Command
  <1> QED
    BY <1>2, <1>3 DEF ReplayedIds, Guids

LEMMA BeginsSave ==
  ASSUME CInv, NEW r \in Requests, Create(r) \/ Change(r)
  PROVE  /\ task[r] = "queued" /\ task' = [task EXCEPT ![r] = "saving"]
         /\ UNCHANGED <<cmd, announced>>
         /\ \E id \in Guids, v \in Versions \cup {-1} : Proved!Save(r, id, v)
PROOF
  <1>1. cmd[r].id \in Guids /\ cmd[r].version \in Versions \cup {-1}
    BY DEF CInv, Commanded, Command
  <1>2. CASE Create(r)
    BY <1>1, <1>2, SameSteps DEF Create, Begin
  <1>3. CASE Change(r)
    <2>1. PICK l \in Store!Lookup(cmd[r].id) :
            \E id \in ReplayedIds(l) : Begin(r, id, cmd[r].version)
      BY <1>3 DEF Change
    <2>2. PICK id \in ReplayedIds(l) : Begin(r, id, cmd[r].version)
      BY <2>1
    <2>3. id \in Guids
      BY ReplayedGuids
    <2> QED
      BY <1>1, <2>2, <2>3, SameSteps DEF Begin
  <1> QED
    BY <1>2, <1>3

LEMMA StoreNext ==
  ASSUME CInv, [Next]_vars
  PROVE  [Proved!Next]_(Proved!vars)
PROOF
  <1>1. ASSUME NEW r \in Requests, Create(r) \/ Change(r) PROVE Proved!Next
    BY <1>1, BeginsSave DEF Proved!Next
  <1>2. ASSUME NEW r \in Requests, SaveStep(r) \/ Publish(r) PROVE Proved!Next
    BY <1>2, SameSteps DEF SaveStep, Publish, Proved!Next, Proved!SaveStep
  <1>3. CASE Restart
    BY <1>3, SameSteps DEF Restart, Proved!Next
  <1>4. ASSUME UNCHANGED storeVars PROVE UNCHANGED Proved!vars
    BY <1>4 DEF storeVars, Proved!vars, Proved!locals, Proved!dict,
                Proved!lists, Proved!ghosts
  <1>5. ASSUME NEW r \in Requests,
               Refuse(r) \/ \E c \in CreateCommands \cup ChangeCommands : Send(r, c)
        PROVE  UNCHANGED storeVars
    BY <1>5 DEF Refuse, Send
  <1>6. CASE UNCHANGED vars
    BY <1>4, <1>6 DEF vars
  <1> QED
    BY <1>1, <1>2, <1>3, <1>4, <1>5, <1>6 DEF Next, Handle
-----------------------------------------------------------------------------
LEMMA CommandedNext ==
  ASSUME CInv, [Next]_vars
  PROVE  Commanded'
PROOF
  <1>1. /\ Commanded /\ stage \in [Requests -> Proved!Stages]
        /\ \A r \in Requests : IsCreate(r) => cmd[r].id \in Ids
    BY StoreTypes DEF CInv, Callers
  <1>2. ASSUME NEW r \in Requests, NEW c \in CreateCommands \cup ChangeCommands,
               Send(r, c)
        PROVE  Commanded'
    <2>1. c \in Command
      BY <1>1, CommandAssumption
         DEF CreateCommands, ChangeCommands, Command, Types, Guids, Commanded
    <2>2. stage' = stage
      BY <1>2 DEF Send, storeVars
    <2> QED
      BY <1>1, <1>2, <2>1, <2>2 DEF Send, Commanded
  <1>3. ASSUME NEW r \in Requests, Create(r) \/ Change(r) PROVE Commanded'
    <2>1. PICK id \in Guids, v \in Versions \cup {-1} : Proved!Save(r, id, v)
      BY <1>3, BeginsSave
    <2>2. stage' = [stage EXCEPT ![r] = "saving"]
      BY <2>1 DEF Proved!Save, Proved!Goto
    <2> QED
      BY <1>1, <1>3, <2>2, BeginsSave DEF Commanded
  <1>4. ASSUME NEW r \in Requests, Refuse(r) PROVE Commanded'
    BY <1>1, <1>4 DEF Refuse, Commanded, storeVars
  <1>5. ASSUME NEW r \in Requests, SaveStep(r) PROVE Commanded'
    <2>1. \A s \in Requests : stage'[s] = "idle" <=> stage[s] = "idle"
      BY <1>5, SaveStepMoves
    <2> QED
      BY <1>1, <1>5, <2>1, SaveStepMoves DEF Commanded
  <1>6. ASSUME NEW r \in Requests, Publish(r) PROVE Commanded'
    <2>1. /\ stage[r] = "stored" /\ stage' = [stage EXCEPT ![r] = "published"]
          /\ UNCHANGED <<task, cmd>>
      BY <1>6, SameSteps DEF Publish, Proved!Publish, Proved!Goto
    <2>2. cmd[r].type = "create" => cmd[r].id \in Ids
      BY <1>1, <2>1 DEF Commanded, IsCreate, Sent
    <2>3. announced' \subseteq Ids
      BY <1>1, <1>6, <2>2 DEF Publish, Commanded
    <2> QED
      BY <1>1, <2>1, <2>3 DEF Commanded
  <1>7. CASE Restart
    <2>1. stage' = [r \in Requests |-> IF stage[r] = "idle" THEN "idle"
                                                            ELSE "lost"]
      BY <1>7, SameSteps DEF Restart, Proved!Restart
    <2> QED
      BY <1>1, <1>7, <2>1 DEF Restart, Commanded
  <1>8. CASE UNCHANGED vars
    BY <1>1, <1>8 DEF vars, storeVars, Commanded
  <1> QED
    BY <1>2, <1>3, <1>4, <1>5, <1>6, <1>7, <1>8 DEF Next, Handle

(* Steps that send nothing and announce nothing. *)
LEMMA CallersKept ==
  ASSUME Callers, Commanded, UNCHANGED <<cmd, announced>>,
         \A r \in Requests : task'[r] = "unsent" <=> task[r] = "unsent",
         \A r \in Requests : stage[r] \in {"published", "lost"}
                               => stage'[r] \in {"published", "lost"}
  PROVE  Callers'
PROOF
  <1>1. \A r \in Requests : /\ IsCreate(r)' <=> IsCreate(r)
                            /\ IsChange(r)' <=> IsChange(r)
    BY DEF IsCreate, IsChange, Sent
  <1> QED
    BY <1>1 DEF Callers

LEMMA CallersNext ==
  ASSUME CInv, [Next]_vars
  PROVE  Callers'
PROOF
  <1>1. Callers /\ Commanded /\ stage \in [Requests -> Proved!Stages]
    BY StoreTypes DEF CInv
  <1>2. ASSUME NEW r \in Requests, NEW c \in CreateCommands \cup ChangeCommands,
               Send(r, c)
        PROVE  Callers'
    <2>1. /\ task[r] = "unsent" /\ task'[r] = "queued" /\ cmd'[r] = c
          /\ \A s \in Requests \ {r} : task'[s] = task[s] /\ cmd'[s] = cmd[s]
          /\ UNCHANGED <<announced, stage>>
      BY <1>1, <1>2 DEF Send, Commanded, storeVars
    <2>2. \A s \in Requests : IsCreate(s)' <=> \/ s = r /\ c.type = "create"
                                               \/ s # r /\ IsCreate(s)
      BY <2>1 DEF IsCreate, Sent
    <2>3. \A s \in Requests : IsChange(s)' <=> \/ s = r /\ c.type # "create"
                                               \/ s # r /\ IsChange(s)
      BY <2>1 DEF IsChange, Sent
    <2>4. ~IsCreate(r)
      BY <2>1 DEF IsCreate, Sent
    <2>5. c.type = "create" => /\ c.id \in Ids
                               /\ \A s \in Requests : IsCreate(s) => cmd[s].id # c.id
      BY DEF CreateCommands, ChangeCommands, IsCreate
    <2>6. c.type # "create" => c.id \in announced \cup {EmptyGuid}
      BY DEF CreateCommands, ChangeCommands
    <2>7. \A g \in announced : \E s \in Requests \ {r} :
            IsCreate(s) /\ cmd[s].id = g /\ stage[s] \in {"published", "lost"}
      BY <1>1, <2>4 DEF Callers
    <2>8. \A s, t \in Requests :
            IsCreate(s)' /\ IsCreate(t)' /\ cmd'[s].id = cmd'[t].id => s = t
      BY <1>1, <2>1, <2>2, <2>5 DEF Callers
    <2>9. \A s \in Requests :
            /\ IsCreate(s)' => cmd'[s].id \in Ids
            /\ IsChange(s)' => cmd'[s].id \in announced' \cup {EmptyGuid}
      BY <1>1, <2>1, <2>2, <2>3, <2>5, <2>6 DEF Callers
    <2>10. \A g \in announced' : \E s \in Requests :
             IsCreate(s)' /\ cmd'[s].id = g /\ stage'[s] \in {"published", "lost"}
      BY <2>1, <2>2, <2>7
    <2> QED
      BY <2>8, <2>9, <2>10 DEF Callers
  <1>3. ASSUME NEW r \in Requests, Create(r) \/ Change(r) PROVE Callers'
    <2>1. PICK id \in Guids, v \in Versions \cup {-1} : Proved!Save(r, id, v)
      BY <1>3, BeginsSave
    <2>2. stage[r] = "idle" /\ \A s \in Requests \ {r} : stage'[s] = stage[s]
      BY <1>1, <2>1 DEF Proved!Save, Proved!Goto
    <2>3. \A s \in Requests : task'[s] = "unsent" <=> task[s] = "unsent"
      BY <1>1, <1>3, BeginsSave DEF Commanded
    <2> QED
      BY <1>1, <1>3, <2>2, <2>3, BeginsSave, CallersKept
  <1>4. ASSUME NEW r \in Requests, Refuse(r) PROVE Callers'
    <2>1. \A s \in Requests : task'[s] = "unsent" <=> task[s] = "unsent"
      BY <1>1, <1>4 DEF Refuse, Commanded
    <2> QED
      BY <1>1, <1>4, <2>1, CallersKept DEF Refuse, storeVars
  <1>5. ASSUME NEW r \in Requests, SaveStep(r) PROVE Callers'
    BY <1>1, <1>5, SaveStepMoves, CallersKept
  <1>6. ASSUME NEW r \in Requests, Publish(r) PROVE Callers'
    <2>1. /\ stage[r] = "stored" /\ stage'[r] = "published"
          /\ \A s \in Requests \ {r} : stage'[s] = stage[s]
          /\ UNCHANGED <<task, cmd>>
      BY <1>1, <1>6, SameSteps DEF Publish, Proved!Publish, Proved!Goto
    <2>2. CASE cmd[r].type # "create"
      BY <1>1, <1>6, <2>1, <2>2, CallersKept DEF Publish
    <2>3. CASE cmd[r].type = "create"
      <3>1. announced' = announced \cup {cmd[r].id}
        BY <1>6, <2>3 DEF Publish
      <3>2. \A s \in Requests : /\ IsCreate(s)' <=> IsCreate(s)
                                /\ IsChange(s)' <=> IsChange(s)
        BY <2>1 DEF IsCreate, IsChange, Sent
      <3>3. IsCreate(r)
        BY <1>1, <2>1, <2>3 DEF Commanded, IsCreate, Sent
      <3> QED
        BY <1>1, <2>1, <3>1, <3>2, <3>3 DEF Callers
    <2> QED
      BY <2>2, <2>3
  <1>7. CASE Restart
    <2>1. stage' = [r \in Requests |-> IF stage[r] = "idle" THEN "idle"
                                                            ELSE "lost"]
      BY <1>7, SameSteps DEF Restart, Proved!Restart
    <2>2. \A s \in Requests : task'[s] = "unsent" <=> task[s] = "unsent"
      BY <1>1, <1>7 DEF Restart, Commanded
    <2> QED
      BY <1>1, <1>7, <2>1, <2>2, CallersKept DEF Restart
  <1>8. CASE UNCHANGED vars
    BY <1>1, <1>8, CallersKept DEF vars, storeVars
  <1> QED
    BY <1>2, <1>3, <1>4, <1>5, <1>6, <1>7, <1>8 DEF Next, Handle

LEMMA CreationsNext ==
  ASSUME CInv, [Next]_vars
  PROVE  Creations'
PROOF
  <1>1. /\ Creations /\ Commanded
        /\ stage \in [Requests -> Proved!Stages]
        /\ call \in [Requests -> Proved!Call]
    BY StoreTypes DEF CInv
  <1>2. ASSUME NEW r \in Requests, NEW c \in CreateCommands \cup ChangeCommands,
               Send(r, c)
        PROVE  Creations'
    <2>1. stage[r] = "idle"
      BY <1>1, <1>2 DEF Send, Commanded
    <2>2. /\ UNCHANGED <<stage, call, announced>>
          /\ \A s \in Requests \ {r} : cmd'[s] = cmd[s] /\ task'[s] = task[s]
      BY <1>1, <1>2 DEF Send, storeVars, Commanded
    <2> QED
      BY <1>1, <2>1, <2>2 DEF Creations, IsCreate, Sent
  <1>3. ASSUME NEW r \in Requests, Create(r) \/ Change(r) PROVE Creations'
    <2>1. PICK id, v : Proved!Save(r, id, v) /\ (IsCreate(r) => id = cmd[r].id)
      <3>1. CASE Create(r)
        BY <3>1, SameSteps DEF Create, Begin
      <3>2. CASE Change(r)
        BY <1>3, <3>2, BeginsSave DEF Change, IsCreate
      <3> QED
        BY <1>3, <3>1, <3>2
    <2>2. /\ stage'[r] = "saving" /\ (IsCreate(r) => call'[r].id = cmd[r].id)
          /\ \A s \in Requests \ {r} : stage'[s] = stage[s] /\ call'[s] = call[s]
      BY <1>1, <2>1 DEF Proved!Save, Proved!Goto
    <2>3. /\ UNCHANGED <<cmd, announced>>
          /\ \A s \in Requests : task'[s] = "unsent" <=> task[s] = "unsent"
      BY <1>1, <1>3, BeginsSave DEF Commanded
    <2> QED
      BY <1>1, <2>2, <2>3 DEF Creations, IsCreate, Sent
  <1>4. ASSUME NEW r \in Requests, Refuse(r) PROVE Creations'
    <2>1. /\ UNCHANGED <<stage, call, cmd, announced>>
          /\ \A s \in Requests : task'[s] = "unsent" <=> task[s] = "unsent"
      BY <1>1, <1>4 DEF Refuse, storeVars, Commanded
    <2> QED
      BY <1>1, <2>1 DEF Creations, IsCreate, Sent
  <1>5. ASSUME NEW r \in Requests, SaveStep(r) PROVE Creations'
    <2>1. call' = call
      BY <1>5, SameSteps
         DEF SaveStep, Proved!SaveStep, Proved!Miss, Proved!OpenStream,
             Proved!AddDuplicate, Proved!Insert, Proved!PassCheck,
             Proved!FailCheck, Proved!ReadSize, Proved!BumpSize,
             Proved!WriteItem, Proved!Publish, Proved!locals
    <2> QED
      BY <1>1, <1>5, <2>1, SaveStepMoves DEF Creations, IsCreate, Sent
  <1>6. ASSUME NEW r \in Requests, Publish(r) PROVE Creations'
    <2>1. /\ stage[r] = "stored" /\ stage'[r] = "published"
          /\ \A s \in Requests \ {r} : stage'[s] = stage[s]
          /\ UNCHANGED <<task, cmd, call>>
      BY <1>1, <1>6, SameSteps
         DEF Publish, Proved!Publish, Proved!Goto, Proved!locals
    <2>2. /\ announced \subseteq announced'
          /\ cmd[r].type = "create" => cmd[r].id \in announced'
      BY <1>6 DEF Publish
    <2> QED
      BY <1>1, <2>1, <2>2 DEF Creations, IsCreate, Sent
  <1>7. CASE Restart
    <2>1. \A r \in Requests : stage'[r] \in {"idle", "lost"}
      BY <1>7, SameSteps DEF Restart, Proved!Restart
    <2> QED
      BY <2>1 DEF Creations
  <1>8. CASE UNCHANGED vars
    BY <1>1, <1>8 DEF vars, storeVars, Creations, IsCreate, Sent
  <1> QED
    BY <1>2, <1>3, <1>4, <1>5, <1>6, <1>7, <1>8 DEF Next, Handle

LEMMA CInvInit == Init => CInv
PROOF
  <1> SUFFICES ASSUME Init PROVE CInv
    OBVIOUS
  <1>1. Proved!Init => Proved!Base
    BY StoreHypotheses, Proved!InitBase
  <1>2. stage = [r \in Requests |-> "idle"]
    BY SameSteps DEF Init, Proved!Init
  <1>3. Sent = {}
    BY DEF Init, Sent
  <1>4. NoCmd \in Command
    BY CommandAssumption DEF NoCmd, Command, Types, Guids
  <1> QED
    BY <1>1, <1>2, <1>3, <1>4, SameSteps
       DEF Init, CInv, Commanded, Callers, Creations, IsCreate, IsChange

LEMMA CInvNext == ASSUME CInv, [Next]_vars PROVE CInv'
PROOF
  <1>1. Proved!Base /\ [Proved!Next]_(Proved!vars) => Proved!Base'
    BY StoreHypotheses, Proved!StepBase
  <1> QED
    BY <1>1, StoreNext, CommandedNext, CallersNext, CreationsNext DEF CInv

LEMMA AlwaysCInv == Spec => []CInv
  BY CInvInit, CInvNext, PTL DEF Spec

(* The types of the write side, those of the store among them.             *)
THEOREM TypeCorrect == Spec => []TypeOK
PROOF
  <1>1. Proved!TypeOK <=> Store!TypeOK
    BY DEF Store!TypeOK, Proved!TypeOK, Store!Slots, Proved!Slots, Store!Stages,
           Proved!Stages, Store!Call, Proved!Call, Store!ListRefs,
           Proved!ListRefs, Store!Descriptor, Proved!Descriptor
  <1>2. CInv => TypeOK
    BY <1>1 DEF CInv, Commanded, TypeOK, Proved!Base
  <1> QED
    BY <1>2, AlwaysCInv, PTL

LEMMA ProvedSpec == Spec => Proved!Spec
PROOF
  <1>1. Init => Proved!Init
    BY SameSteps DEF Init
  <1> QED
    BY <1>1, StoreNext, AlwaysCInv, PTL DEF Spec, Proved!Spec
-----------------------------------------------------------------------------
(* As long as dictionary inserts did not overlap, a list is opened by a    *)
(* creation only, a change has found the list of its aggregate, and that   *)
(* only after the creation was published, so that the first slot of a list *)
(* holds the creation event and the changes come after it.                 *)
Opened(l)  == l \in Requests /\ target[l] = l
Running(r) == stage[r] \notin {"idle", "lost"}
Added      == {"adding", "bumped", "stored", "published"}

Own      == \A r \in Requests : Running(r) => call[r].id = cmd[r].id
SameIds  == \A r \in Requests :
              target[r] # NoRequest => call[target[r]].id = call[r].id
Creators == \A r \in Requests :
              stage[r] = "opening" \/ Opened(r) => IsCreate(r)
Loaded   == \A r \in Requests : Running(r) /\ IsChange(r) =>
              \E l \in Requests : /\ Opened(l) /\ stage[l] = "published"
                                  /\ call[l].id = call[r].id
FirstSlot == \A l \in Requests : Opened(l) =>
  /\ stage[l] \in {"inserting", "checked", "adding"} => size[l] = 0
  /\ stage[l] = "bumped" => size[l] = 1
  /\ stage[l] \in Added => slot[l] = 0
  /\ stage[l] \in {"stored", "published"} => size[l] >= 1 /\ items[l][0].req = l
LaterSlots == \A r \in Requests :
  stage[r] \in Added /\ target[r] # r => slot[r] >= 1

Streams == /\ Own /\ SameIds /\ Creators /\ Loaded /\ FirstSlot /\ LaterSlots
Whole   == /\ CInv /\ Proved!RefInv
           /\ ~clobbered /\ Streams

LEMMA ListFacts ==
  ASSUME Whole
  PROVE  /\ \A r \in Requests : Running(r) => IsCreate(r) \/ IsChange(r)
         /\ \A r \in Requests :
              target[r] # NoRequest => Opened(target[r]) /\ Running(r)
         /\ \A r \in Requests :
              stage[r] \in {"idle", "saving", "opening", "rejected", "lost"}
                <=> target[r] = NoRequest
         /\ \A r \in Requests : ~Opened(r) => size[r] = 0
         /\ \A g : \A l \in Proved!Lookup(g) : Opened(l) /\ call[l].id = g
         /\ \A l, m \in Requests :
              Opened(l) /\ Opened(m) /\ call[l].id = call[m].id => l = m
         /\ \A l \in Requests : Opened(l) => /\ Running(l) /\ IsCreate(l)
                                             /\ cmd[l].id = call[l].id
PROOF
  <1>1. Proved!Refs /\ Proved!Dictionary /\ Proved!TypeOK
    BY DEF Whole, Proved!RefInv, Proved!IInv, Proved!Base
  <1>2. \A r \in Requests : Running(r) => IsCreate(r) \/ IsChange(r)
    BY DEF Whole, CInv, Commanded, Running, IsCreate, IsChange, Sent
  <1>3. \A r \in Requests :
          target[r] # NoRequest => Opened(target[r]) /\ Running(r)
    BY <1>1 DEF Proved!Refs, Proved!Opened, Opened, Running
  <1>4. \A r \in Requests :
          stage[r] \in {"idle", "saving", "opening", "rejected", "lost"}
            <=> target[r] = NoRequest
    BY <1>1 DEF Proved!Refs
  <1>5. \A r \in Requests : ~Opened(r) => size[r] = 0
    BY <1>1 DEF Proved!Refs, Proved!Opened, Opened
  <1>6. \A g : \A l \in Proved!Lookup(g) : Opened(l) /\ call[l].id = g
    BY <1>1 DEF Proved!Lookup, Proved!Refs, Proved!Opened, Opened
  <1>7. \A l, m \in Requests :
          Opened(l) /\ Opened(m) /\ call[l].id = call[m].id => l = m
    BY <1>1 DEF Whole, Proved!Dictionary, Proved!OneList, Proved!Opened, Opened
  <1>8. \A l \in Requests : Opened(l) => /\ Running(l) /\ IsCreate(l)
                                         /\ cmd[l].id = call[l].id
    BY <1>3, StoreHypotheses DEF Whole, Streams, Own, Creators, Opened
  <1> QED
    BY <1>2, <1>3, <1>4, <1>5, <1>6, <1>7, <1>8

(* A creation works on a list of its own, and finds none before. *)
LEMMA CreationFacts ==
  ASSUME Whole, NEW r \in Requests, IsCreate(r), Running(r)
  PROVE  /\ target[r] \in {r, NoRequest}
         /\ target[r] = NoRequest => Proved!Lookup(call[r].id) = {}
PROOF
  <1>1. ASSUME NEW l \in Requests, Opened(l), call[l].id = call[r].id
        PROVE  l = r
    <2>1. IsCreate(l) /\ cmd[l].id = cmd[r].id
      BY <1>1, ListFacts DEF Whole, Streams, Own
    <2> QED
      BY <2>1 DEF Whole, CInv, Callers
  <1>2. target[r] # NoRequest => target[r] = r
    BY <1>1, ListFacts DEF Whole, Streams, SameIds, Opened
  <1>3. \A l \in Proved!Lookup(call[r].id) : target[r] = r
    BY <1>1, ListFacts DEF Opened
  <1>4. r # NoRequest
    BY StoreHypotheses
  <1> QED
    BY <1>2, <1>3, <1>4

(* A change works on the list that a published creation opened. *)
LEMMA ChangeFacts ==
  ASSUME Whole, NEW r \in Requests, IsChange(r), Running(r)
  PROVE  /\ Proved!Lookup(call[r].id) # {}
         /\ target[r] # r
         /\ target[r] # NoRequest => /\ stage[target[r]] = "published"
                                     /\ target[r] \in Requests
PROOF
  <1>1. PICK l \in Requests : /\ Opened(l) /\ stage[l] = "published"
                              /\ call[l].id = call[r].id
    BY DEF Whole, Streams, Loaded
  <1>2. Proved!Lookup(call[l].id) = {l}
    <2>1. /\ Proved!Base /\ Proved!Dictionary /\ ~clobbered
          /\ Proved!Inserted(l)
      BY <1>1 DEF Whole, Proved!RefInv, Proved!IInv, Proved!Inserted,
                  Proved!Inserting, Opened, Proved!Opened
    <2> QED
      BY <2>1, StoreHypotheses, Proved!LookupFinds
  <1>3. target[r] # NoRequest => target[r] = l
    BY <1>1, ListFacts DEF Whole, Streams, SameIds, Opened
  <1>4. target[r] # r
    BY ListFacts DEF IsCreate, IsChange, Opened
  <1> QED
    BY <1>1, <1>2, <1>3, <1>4

(* Replaying a list whose creation was published yields the id of its      *)
(* aggregate: it holds the creation event and no other creation.           *)
LEMMA ReplaysOwn ==
  ASSUME Whole, NEW l \in Requests, Opened(l), stage[l] = "published"
  PROVE  ReplayedIds(l) = {call[l].id}
PROOF
  <1>1. size[l] >= 1 /\ items[l][0].req = l
    BY DEF Whole, Streams, FirstSlot
  <1>2. size[l] \in 0 .. Capacity
    BY StoreTypes DEF Whole
  <1>3. \A k \in 0 .. size[l] - 1 : k \in Proved!Slots
    BY <1>2, StoreHypotheses DEF Proved!Slots
  <1>4. IsCreate(l) /\ cmd[l].id = call[l].id
    BY ListFacts
  <1> DEFINE created == {e \in Store!History(l) :
                           e.req # NoRequest /\ cmd[e.req].type = "create"}
  <1>5. items[l][0] \in created
    <2>1. 0 \in 0 .. size[l] - 1
      BY <1>1, <1>2
    <2> QED
      BY <1>1, <1>4, <2>1, SameTerms, StoreHypotheses
         DEF Proved!History, IsCreate
  <1>6. ASSUME NEW e \in created PROVE cmd[e.req].id = call[l].id
    <2>1. PICK k \in Proved!Slots : e = items[l][k]
      BY <1>3, SameTerms DEF Proved!History
    <2>2. e.req \in Requests
      BY <2>1, StoreTypes DEF Whole
    <2>3. stage[e.req] \in {"stored", "published"} /\ target[e.req] = l
      BY <2>1, <2>2 DEF Whole, Proved!RefInv, Proved!Authors, Proved!Accepted
    <2> QED
      BY <2>2, <2>3, StoreHypotheses
         DEF Whole, Streams, Own, SameIds, Running
  <1>7. created # {}
    BY <1>5
  <1>8. ReplayedIds(l) = {cmd[e.req].id : e \in created}
    BY <1>7 DEF ReplayedIds
  <1> HIDE DEF created
  <1> QED
    BY <1>6, <1>7, <1>8

(* What a change loads is the client it names. *)
LEMMA LoadsOwn ==
  ASSUME Whole, NEW r \in Requests, IsChange(r),
         NEW l \in Store!Lookup(cmd[r].id)
  PROVE  /\ Opened(l) /\ stage[l] = "published" /\ call[l].id = cmd[r].id
         /\ ReplayedIds(l) = {cmd[r].id}
PROOF
  <1>1. Opened(l) /\ call[l].id = cmd[r].id /\ IsCreate(l)
        /\ cmd[l].id = cmd[r].id /\ Running(l) /\ l \in Requests
    BY SameTerms, ListFacts DEF Opened
  <1>2. stage[l] = "published"
    <2>1. cmd[r].id \in announced
      BY <1>1, CommandAssumption DEF Whole, CInv, Callers
    <2>2. PICK s \in Requests : /\ IsCreate(s) /\ cmd[s].id = cmd[r].id
                                /\ stage[s] \in {"published", "lost"}
      BY <2>1 DEF Whole, CInv, Callers
    <2>3. s = l
      BY <1>1, <2>2 DEF Whole, CInv, Callers
    <2> QED
      BY <1>1, <2>2, <2>3 DEF Running
  <1> QED
    BY <1>1, <1>2, ReplaysOwn
-----------------------------------------------------------------------------
LEMMA SameKinds ==
  ASSUME UNCHANGED cmd,
         \A r \in Requests : task'[r] = "unsent" <=> task[r] = "unsent"
  PROVE  \A r \in Requests : /\ IsCreate(r)' <=> IsCreate(r)
                             /\ IsChange(r)' <=> IsChange(r)
  BY DEF IsCreate, IsChange, Sent

(* Steps that do not touch the store. *)
LEMMA StreamsIdle ==
  ASSUME Whole, UNCHANGED storeVars,
         \A r \in Requests : Running(r) => /\ cmd'[r] = cmd[r]
                                           /\ IsCreate(r)' <=> IsCreate(r)
                                           /\ IsChange(r)' <=> IsChange(r)
  PROVE  Streams'
PROOF
  <1>1. /\ stage' = stage /\ call' = call /\ target' = target /\ slot' = slot
        /\ size' = size /\ items' = items
    BY DEF storeVars
  <1>2. \A r \in Requests : (Opened(r) \/ stage[r] = "opening") => Running(r)
    BY ListFacts DEF Running
  <1>3. \A r \in Requests : /\ Running(r)' <=> Running(r)
                            /\ Opened(r)' <=> Opened(r)
    BY <1>1 DEF Running, Opened
  <1>4. Own' /\ SameIds' /\ FirstSlot' /\ LaterSlots'
    BY <1>1, <1>3 DEF Whole, Streams, Own, SameIds, FirstSlot, LaterSlots
  <1>5. Creators' /\ Loaded'
    BY <1>1, <1>2, <1>3 DEF Whole, Streams, Creators, Loaded
  <1> QED
    BY <1>4, <1>5 DEF Streams

(* A handler calls Save. *)
LEMMA StreamsSave ==
  ASSUME Whole, NEW r \in Requests, NEW id, NEW v, Proved!Save(r, id, v),
         id = cmd[r].id, UNCHANGED cmd,
         \A s \in Requests : task'[s] = "unsent" <=> task[s] = "unsent",
         IsChange(r) => \E l \in Requests : /\ Opened(l) /\ stage[l] = "published"
                                            /\ call[l].id = id
  PROVE  Streams'
PROOF
  <1>1. /\ stage \in [Requests -> Proved!Stages]
        /\ call \in [Requests -> Proved!Call]
    BY StoreTypes DEF Whole
  <1>2. /\ stage[r] = "idle" /\ stage'[r] = "saving"
        /\ call'[r].id = cmd[r].id
        /\ \A s \in Requests \ {r} : stage'[s] = stage[s] /\ call'[s] = call[s]
        /\ UNCHANGED <<target, slot, size, items>>
    BY <1>1 DEF Proved!Save, Proved!Goto, Proved!lists
  <1>3. target[r] = NoRequest /\ ~Opened(r)
    BY <1>2, ListFacts, StoreHypotheses DEF Opened
  <1>4. \A s \in Requests : Opened(s)' <=> Opened(s)
    BY <1>2 DEF Opened
  <1>5. \A s \in Requests : /\ IsCreate(s)' <=> IsCreate(s)
                            /\ IsChange(s)' <=> IsChange(s)
    BY SameKinds
  <1>6. Own'
    BY <1>2 DEF Whole, Streams, Own, Running
  <1>7. SameIds'
    <2>1. \A s \in Requests : target[s] # NoRequest
                                => s # r /\ target[s] # r /\ target[s] \in Requests
      BY <1>3, ListFacts DEF Opened
    <2> QED
      BY <1>2, <2>1 DEF Whole, Streams, SameIds
  <1>8. Creators'
    BY <1>2, <1>4, <1>5 DEF Whole, Streams, Creators
  <1>9. Loaded'
    <2>1. \A l \in Requests : Opened(l) => l # r
      BY <1>3
    <2> QED
      BY <1>2, <1>4, <1>5, <2>1 DEF Whole, Streams, Loaded, Running
  <1>10. FirstSlot' /\ LaterSlots'
    BY <1>2, <1>3, <1>4 DEF Whole, Streams, FirstSlot, LaterSlots, Added
  <1> QED
    BY <1>6, <1>7, <1>8, <1>9, <1>10 DEF Streams

(* Inside Save only r moves, and it stays in or is rejected. *)
Only(r) == /\ UNCHANGED <<cmd, task, call>>
           /\ Running(r) /\ Running(r)'
           /\ stage[r] # "published"
           /\ \A s \in Requests \ {r} : /\ stage'[s] = stage[s]
                                        /\ target'[s] = target[s]
                                        /\ slot'[s] = slot[s]

LEMMA StreamsOnly ==
  ASSUME Whole, NEW r \in Requests, Only(r),
         \A s \in Requests : Opened(s) => Opened(s)',
         stage'[r] = "opening" \/ Opened(r)' => IsCreate(r),
         target'[r] # NoRequest => call[target'[r]].id = call[r].id
  PROVE  Own' /\ SameIds' /\ Creators' /\ Loaded'
PROOF
  <1>1. \A s \in Requests : /\ IsCreate(s)' <=> IsCreate(s)
                            /\ IsChange(s)' <=> IsChange(s)
                            /\ Running(s)' <=> Running(s)
    BY SameKinds DEF Only, Running
  <1>2. Own'
    BY <1>1 DEF Whole, Streams, Own, Only
  <1>3. SameIds'
    BY DEF Whole, Streams, SameIds, Only
  <1>4. Creators'
    BY <1>1 DEF Whole, Streams, Creators, Only, Opened
  <1>5. Loaded'
    BY <1>1 DEF Whole, Streams, Loaded, Only
  <1> QED
    BY <1>2, <1>3, <1>4, <1>5

LEMMA StreamsSaveStep ==
  ASSUME Whole, NEW r \in Requests, Proved!SaveStep(r), ~clobbered',
         UNCHANGED <<cmd, task>>
  PROVE  Streams'
PROOF
  <1> USE DEF Proved!Goto, Proved!locals, Proved!dict, Proved!lists,
              Proved!ghosts
  <1>1. /\ stage \in [Requests -> Proved!Stages] /\ r # NoRequest
        /\ target \in [Requests -> Requests \cup {NoRequest}]
        /\ slot \in [Requests -> Proved!Slots]
        /\ items \in [Requests -> [Proved!Slots -> Proved!Descriptor]]
        /\ size \in [Requests -> 0 .. Capacity]
    BY StoreTypes, StoreHypotheses DEF Whole, CInv, Proved!Base, Proved!TypeOK
  <1>2. Running(r) => IsCreate(r) \/ IsChange(r)
    BY ListFacts
  <1>3. CASE Proved!Miss(r) \/ Proved!AddDuplicate(r) \/ Proved!FailCheck(r)
    <2>1. /\ Only(r) /\ stage[r] \in {"saving", "opening"}
          /\ stage'[r] \in {"opening", "rejected"}
          /\ UNCHANGED <<target, slot, items, size>>
      BY <1>1, <1>3
         DEF Proved!Miss, Proved!AddDuplicate, Proved!FailCheck, Only, Running
    <2>2. target[r] = NoRequest /\ \A s \in Requests : Opened(s)' <=> Opened(s)
      BY <2>1, ListFacts DEF Opened
    <2>3. stage'[r] = "opening" => IsCreate(r)
      <3>1. stage'[r] = "opening" => Proved!Lookup(call[r].id) = {}
        BY <1>1, <1>3
           DEF Proved!Miss, Proved!AddDuplicate, Proved!FailCheck
      <3>2. IsChange(r) => Proved!Lookup(call[r].id) # {}
        BY <2>1, ChangeFacts DEF Only
      <3> QED
        BY <1>2, <2>1, <3>1, <3>2 DEF Only
    <2>4. FirstSlot' /\ LaterSlots'
      BY <1>1, <2>1, <2>2
         DEF Whole, Streams, FirstSlot, LaterSlots, Added, Only, Opened
    <2> QED
      BY <1>1, <2>1, <2>2, <2>3, <2>4, StreamsOnly DEF Streams, Opened
  <1>4. CASE Proved!OpenStream(r)
    <2>1. /\ Only(r) /\ stage[r] = "opening" /\ stage'[r] = "inserting"
          /\ target' = [target EXCEPT ![r] = r]
          /\ UNCHANGED <<items, size>>
      BY <1>1, <1>4 DEF Proved!OpenStream, Only, Running
    <2>2. target[r] = NoRequest /\ size[r] = 0 /\ IsCreate(r)
      BY <1>1, <2>1, ListFacts DEF Opened, Whole, Streams, Creators
    <2>3. /\ \A s \in Requests : Opened(s)' <=> Opened(s) \/ s = r
          /\ target'[r] = r
      BY <1>1, <2>1 DEF Opened
    <2>4. FirstSlot' /\ LaterSlots'
      BY <1>1, <2>1, <2>2, <2>3
         DEF Whole, Streams, FirstSlot, LaterSlots, Added, Only
    <2> QED
      BY <2>1, <2>2, <2>3, <2>4, StreamsOnly DEF Streams
  <1>5. CASE Proved!PassCheck(r)
    <2>1. PICK l \in Proved!Lookup(call[r].id) :
            target' = [target EXCEPT ![r] = l]
      BY <1>5 DEF Proved!PassCheck
    <2>2. /\ Only(r) /\ stage[r] = "saving" /\ stage'[r] = "checked"
          /\ UNCHANGED <<items, size>>
      BY <1>1, <1>5, <2>1 DEF Proved!PassCheck, Only, Running
    <2>3. target[r] = NoRequest /\ l # r /\ Opened(l) /\ call[l].id = call[r].id
      BY <1>1, <2>2, ListFacts DEF Opened
    <2>4. target'[r] = l /\ \A s \in Requests : Opened(s)' <=> Opened(s)
      BY <1>1, <2>1, <2>3 DEF Opened
    <2>5. ~Opened(r)
      BY <1>1, <2>3 DEF Opened
    <2>6. FirstSlot' /\ LaterSlots'
      BY <2>2, <2>4, <2>5
         DEF Whole, Streams, FirstSlot, LaterSlots, Added, Only
    <2> QED
      BY <2>2, <2>3, <2>4, <2>5, <2>6, StreamsOnly DEF Streams
  <1>6. CASE Proved!Insert(r) \/ Proved!Publish(r)
    <2>1. /\ Only(r) /\ UNCHANGED <<target, slot, items, size>>
          /\ \/ stage[r] = "inserting" /\ stage'[r] = "checked"
             \/ stage[r] = "stored" /\ stage'[r] = "published"
      BY <1>1, <1>6 DEF Proved!Insert, Proved!Publish, Only, Running
    <2>2. \A s \in Requests : Opened(s)' <=> Opened(s)
      BY <2>1 DEF Opened
    <2>3. FirstSlot' /\ LaterSlots'
      BY <2>1, <2>2
         DEF Whole, Streams, FirstSlot, LaterSlots, Added, Only
    <2>4. /\ Opened(r) => IsCreate(r)
          /\ target[r] # NoRequest => call[target[r]].id = call[r].id
      BY DEF Whole, Streams, Creators, SameIds
    <2> QED
      BY <2>1, <2>2, <2>3, <2>4, StreamsOnly DEF Streams
  <1>7. ASSUME \/ Proved!ReadSize(r) \/ Proved!BumpSize(r)
               \/ Proved!WriteItem(r)
        PROVE  Streams'
    <2>1. /\ Only(r) /\ UNCHANGED target
          /\ stage[r] \in {"checked", "adding", "bumped"}
          /\ stage'[r] \in {"adding", "bumped", "stored"}
      BY <1>1, <1>7
         DEF Proved!ReadSize, Proved!BumpSize, Proved!WriteItem, Only, Running
    <2>2. \A s \in Requests : Opened(s)' <=> Opened(s)
      BY <2>1 DEF Opened
    <2>3. /\ Opened(r) => IsCreate(r)
          /\ target[r] # NoRequest => call[target[r]].id = call[r].id
      BY DEF Whole, Streams, Creators, SameIds
    <2>4. target[r] \in Requests /\ Opened(target[r]) /\ Running(r)
      BY <2>1, ListFacts DEF Opened
    <2>5. target[r] # r => /\ stage[target[r]] = "published"
                           /\ size[target[r]] >= 1
      <3>1. target[r] # r => IsChange(r)
        BY <1>2, <2>4, CreationFacts, StoreHypotheses
      <3> QED
        BY <2>4, <3>1, ChangeFacts, StoreHypotheses
           DEF Whole, Streams, FirstSlot
    <2>6. FirstSlot' /\ LaterSlots'
      <3>1. CASE Proved!ReadSize(r)
        <4>1. /\ slot' = [slot EXCEPT ![r] = size[target[r]]]
              /\ stage'[r] = "adding" /\ stage[r] = "checked"
              /\ UNCHANGED <<items, size>>
          BY <1>1, <3>1 DEF Proved!ReadSize
        <4> QED
          BY <1>1, <2>1, <2>2, <2>4, <2>5, <4>1
             DEF Whole, Streams, FirstSlot, LaterSlots, Added, Only, Opened
      <3>2. CASE Proved!BumpSize(r)
        <4>1. /\ size' = [size EXCEPT ![target[r]] = slot[r] + 1]
              /\ stage'[r] = "bumped" /\ stage[r] = "adding"
              /\ UNCHANGED <<items, slot>>
          BY <1>1, <3>2 DEF Proved!BumpSize
        <4>2. slot[r] \in Nat
          BY <1>1 DEF Proved!Slots
        <4> QED
          BY <1>1, <2>1, <2>2, <2>4, <2>5, <4>1, <4>2
             DEF Whole, Streams, FirstSlot, LaterSlots, Added, Only, Opened
      <3>3. CASE Proved!WriteItem(r)
        <4>1. /\ stage'[r] = "stored" /\ stage[r] = "bumped"
              /\ UNCHANGED <<size, slot>>
              /\ items'[target[r]][slot[r]].req = r
              /\ \A l \in Requests, k \in Proved!Slots :
                   l # target[r] \/ k # slot[r] => items'[l][k] = items[l][k]
          BY <1>1, <2>4, <3>3 DEF Proved!WriteItem
        <4>2. 0 \in Proved!Slots
          BY StoreHypotheses DEF Proved!Slots
        <4>3. FirstSlot'
          <5>1. ASSUME NEW l \in Requests, Opened(l), l # r
                PROVE  items'[l][0] = items[l][0]
            <6>1. CASE l = target[r]
              BY <2>1, <4>1, <4>2, <5>1, <6>1
                 DEF Whole, Streams, LaterSlots, Added
            <6> QED
              BY <4>1, <4>2, <6>1
          <5>2. Opened(r) => /\ size[r] = 1 /\ slot[r] = 0 /\ target[r] = r
            BY <4>1 DEF Whole, Streams, FirstSlot, Added, Opened
          <5> QED
            BY <2>1, <2>2, <4>1, <5>1, <5>2
               DEF Whole, Streams, FirstSlot, Added, Only
        <4>4. LaterSlots'
          BY <2>1, <4>1 DEF Whole, Streams, LaterSlots, Added, Only
        <4> QED
          BY <4>3, <4>4
      <3> QED
        BY <1>7, <3>1, <3>2, <3>3
    <2> QED
      BY <2>1, <2>2, <2>3, <2>6, StreamsOnly DEF Streams
  <1> QED
    BY <1>3, <1>4, <1>5, <1>6, <1>7 DEF Proved!SaveStep

LEMMA StreamsNext ==
  ASSUME CInv, Proved!RefInv, ~clobbered => Streams, [Next]_vars
  PROVE  ~clobbered' => Streams'
PROOF
  <1> SUFFICES ASSUME ~clobbered' PROVE Streams'
    OBVIOUS
  <1>1. ASSUME ~clobbered PROVE Whole
    BY <1>1 DEF Whole
  <1>2. stage \in [Requests -> Proved!Stages] /\ Commanded
    BY StoreTypes DEF CInv
  <1>3. ASSUME NEW r \in Requests, NEW c \in CreateCommands \cup ChangeCommands,
               Send(r, c)
        PROVE  Streams'
    <2>1. ~clobbered /\ UNCHANGED storeVars
      BY <1>3 DEF Send, storeVars
    <2>2. \A s \in Requests : Running(s) => s # r
      BY <1>2, <1>3 DEF Send, Commanded, Running
    <2>3. \A s \in Requests \ {r} : cmd'[s] = cmd[s] /\ task'[s] = task[s]
      BY <1>2, <1>3 DEF Send, Commanded
    <2> QED
      BY <1>1, <2>1, <2>2, <2>3, StreamsIdle DEF IsCreate, IsChange, Sent
  <1>4. ASSUME NEW r \in Requests, Refuse(r) PROVE Streams'
    <2>1. /\ ~clobbered /\ UNCHANGED <<storeVars, cmd>>
          /\ \A s \in Requests : task'[s] = "unsent" <=> task[s] = "unsent"
      BY <1>2, <1>4 DEF Refuse, storeVars, Commanded
    <2> QED
      BY <1>1, <2>1, SameKinds, StreamsIdle
  <1>5. ASSUME NEW r \in Requests, Create(r) \/ Change(r) PROVE Streams'
    <2>1. /\ task[r] = "queued" /\ UNCHANGED cmd
          /\ \A s \in Requests : task'[s] = "unsent" <=> task[s] = "unsent"
      BY <1>2, <1>5, BeginsSave DEF Commanded
    <2>2. ASSUME NEW id, NEW v, Begin(r, id, v)
          PROVE  ~clobbered /\ Proved!Save(r, id, v)
      BY <2>2, SameSteps DEF Begin, Proved!Save, Proved!ghosts
    <2>3. CASE Create(r)
      <3>1. Begin(r, cmd[r].id, -1) /\ ~IsChange(r)
        BY <2>3 DEF Create, IsChange
      <3> QED
        BY <1>1, <2>1, <2>2, <3>1, StreamsSave
    <2>4. CASE Change(r)
      <3>1. PICK l \in Store!Lookup(cmd[r].id) :
              \E id \in ReplayedIds(l) : Begin(r, id, cmd[r].version)
        BY <2>4 DEF Change
      <3>2. PICK id \in ReplayedIds(l) : Begin(r, id, cmd[r].version)
        BY <3>1
      <3>3. Whole /\ IsChange(r)
        BY <1>1, <2>1, <2>2, <2>4, <3>2 DEF Change, IsChange, Sent
      <3>4. /\ Opened(l) /\ stage[l] = "published"
            /\ call[l].id = cmd[r].id /\ id = cmd[r].id
        BY <3>2, <3>3, LoadsOwn
      <3>5. l \in Requests
        BY <3>4 DEF Opened
      <3> QED
        BY <2>1, <2>2, <3>2, <3>3, <3>4, <3>5, StreamsSave
    <2> QED
      BY <1>5, <2>3, <2>4
  <1>6. ASSUME NEW r \in Requests, SaveStep(r) \/ Publish(r) PROVE Streams'
    <2>1. Proved!SaveStep(r) /\ UNCHANGED <<cmd, task>>
      BY <1>6, SameSteps DEF SaveStep, Publish, Proved!SaveStep
    <2>2. ~clobbered
      BY <2>1 DEF Proved!SaveStep, Proved!Miss, Proved!OpenStream,
                  Proved!AddDuplicate, Proved!Insert, Proved!PassCheck,
                  Proved!FailCheck, Proved!ReadSize, Proved!BumpSize,
                  Proved!WriteItem, Proved!Publish, Proved!ghosts
    <2> QED
      BY <1>1, <2>1, <2>2, StreamsSaveStep
  <1>7. CASE Restart
    <2>1. /\ \A r \in Requests : ~Running(r)' /\ stage'[r] \in {"idle", "lost"}
          /\ \A r \in Requests : target'[r] = NoRequest
      BY <1>7, SameSteps DEF Restart, Proved!Restart, Running
    <2> QED
      BY <2>1, StoreHypotheses
         DEF Streams, Own, SameIds, Creators, Loaded, FirstSlot, LaterSlots,
             Opened, Added
  <1>8. CASE UNCHANGED vars
    <2>1. ~clobbered /\ UNCHANGED <<storeVars, cmd, task>>
      BY <1>8 DEF vars, storeVars
    <2> QED
      BY <1>1, <2>1, SameKinds, StreamsIdle
  <1> QED
    BY <1>3, <1>4, <1>5, <1>6, <1>7, <1>8 DEF Next, Handle

LEMMA AlwaysStreams == Spec => [](CInv /\ Proved!RefInv /\ (~clobbered => Streams))
PROOF
  <1>1. Proved!Spec => []Proved!RefInv
    BY StoreHypotheses, Proved!RefInvariant
  <1>2. Init => Streams
    <2>1. Init => /\ \A r \in Requests : stage[r] = "idle"
                  /\ \A r \in Requests : target[r] = NoRequest
      BY SameSteps DEF Init, Proved!Init
    <2> QED
      BY <2>1, StoreHypotheses
         DEF Streams, Own, SameIds, Creators, Loaded, FirstSlot, LaterSlots,
             Opened, Added, Running
  <1> QED
    BY <1>1, <1>2, ProvedSpec, AlwaysCInv, StreamsNext, PTL DEF Spec
-----------------------------------------------------------------------------
(* What a command task does to the store is a step of the store, so what   *)
(* is proved of the store holds under the command handlers                 *)
(* (ClientCommandHandlers.cs, Repository.cs).                              *)
THEOREM UsesStore == Spec => Store!Spec
PROOF
  <1>1. Proved!Init <=> Store!Init
    BY SameSteps
  <1>2. [Proved!Next]_(Proved!vars) <=> [Store!Next]_(Store!vars)
    <2>1. Proved!Next <=> Store!Next
      BY SameSteps DEF Proved!Next, Store!Next
    <2>2. UNCHANGED Proved!vars <=> UNCHANGED Store!vars
      BY DEF Proved!vars, Store!vars, Proved!locals, Store!locals, Proved!dict,
             Store!dict, Proved!lists, Store!lists, Proved!ghosts, Store!ghosts
    <2> QED
      BY <2>1, <2>2
  <1> QED
    BY <1>1, <1>2, ProvedSpec, PTL DEF Proved!Spec, Store!Spec

(* An event is saved under the id the caller named and never under         *)
(* Guid.Empty, although the id comes from replaying the list               *)
(* (Repository.cs:32).                                                     *)
THEOREM OwnIdSaved == Spec => []SavesUnderOwnId
PROOF
  <1>1. (~clobbered => Streams) => SavesUnderOwnId
    BY DEF Streams, Own, Running, SavesUnderOwnId
  <1> QED
    BY <1>1, AlwaysStreams, PTL

(* A list starts with the creation event of its aggregate and holds no     *)
(* other, whatever Saves raced to append to it (EventStore.cs:36).         *)
THEOREM CreationFirst == Spec => []StreamStartsWithCreation
PROOF
  <1>1. ASSUME Whole, NEW l \in Store!Created, NEW k \in Store!Committed(l)
        PROVE  /\ cmd[l].type = "create"
               /\ (k = 0) <=> (items[l][k].req = l)
               /\ cmd[items[l][k].req].type = "create" => k = 0
    <2>1. Opened(l) /\ l \in Requests
      BY DEF Store!Created, Opened
    <2>2. /\ k \in 0 .. size[l] - 1
          /\ \A s \in Requests : Proved!Fills(s, l) => slot[s] # k
      BY DEF Store!Committed, Store!Pending, Store!Writers, Store!Writing,
             Proved!Fills
    <2>3. size[l] \in 0 .. Capacity /\ stage \in [Requests -> Proved!Stages]
      BY <1>1, <2>1, StoreTypes DEF Whole
    <2>4. k \in Proved!Slots /\ k < size[l]
      BY <2>2, <2>3, StoreHypotheses DEF Proved!Slots
    <2>5. items[l][k].req # NoRequest
      BY <1>1, <2>1, <2>2, <2>4
         DEF Whole, Proved!RefInv, Proved!NoHoles, Proved!Filled
    <2>6. PICK q \in Requests : q = items[l][k].req
      BY <1>1, <2>1, <2>4, <2>5, StoreTypes DEF Whole
    <2>7. stage[q] \in {"stored", "published"} /\ target[q] = l /\ slot[q] = k
      BY <1>1, <2>1, <2>4, <2>6
         DEF Whole, Proved!RefInv, Proved!Authors, Proved!Accepted
    <2>8. IsCreate(l)
      BY <1>1, <2>1, ListFacts
    <2>9. q = l => k = 0
      BY <1>1, <2>1, <2>7 DEF Whole, Streams, FirstSlot, Added
    <2>10. k = 0 => q = l
      BY <1>1, <2>7 DEF Whole, Streams, LaterSlots, Added
    <2>11. cmd[q].type = "create" => q = l
      <3>1. Running(q)
        BY <2>7 DEF Running
      <3>2. IsCreate(q) => q = l
        BY <1>1, <2>1, <2>7, <3>1, CreationFacts, StoreHypotheses
      <3> QED
        BY <1>1, <3>1, <3>2, ListFacts DEF IsCreate, IsChange
    <2> QED
      BY <2>6, <2>8, <2>9, <2>10, <2>11 DEF IsCreate
  <1>2. CInv /\ Proved!RefInv /\ (~clobbered => Streams)
          => StreamStartsWithCreation
    BY <1>1 DEF Whole, StreamStartsWithCreation
  <1> QED
    BY <1>2, AlwaysStreams, PTL

(* Unless two inserts overlapped the handlers find each aggregate that was *)
(* stored, and of the Saves that did not race none is lost                 *)
(* (EventStore.cs:36).                                                     *)
THEOREM StoreKept ==
  Spec => [](Store!DictionaryIntact /\ Store!UntaintedIsGapFree
               /\ Store!AcceptedIsKept)
PROOF
  <1> USE DEF Store!Created, Proved!Created, Store!Accepted, Proved!Accepted,
              Store!Committed, Proved!Committed, Store!Pending,
              Proved!Pending, Store!Writers, Proved!Writers, Store!Writing,
              Proved!Writing
  <1>1. Store!DictionaryIntact <=> Proved!DictionaryIntact
    BY SameTerms DEF Store!DictionaryIntact, Proved!DictionaryIntact
  <1>2. Store!UntaintedIsGapFree <=> Proved!UntaintedIsGapFree
    BY DEF Store!UntaintedIsGapFree, Proved!UntaintedIsGapFree
  <1>3. Store!AcceptedIsKept <=> Proved!AcceptedIsKept
    BY DEF Store!AcceptedIsKept, Proved!AcceptedIsKept
  <1>4. /\ Proved!Spec => []Proved!DictionaryIntact
        /\ Proved!Spec => []Proved!UntaintedIsGapFree
        /\ Proved!Spec => []Proved!AcceptedIsKept
    BY StoreHypotheses, Proved!DictionaryKept, Proved!GapFree,
       Proved!AcceptedStays
  <1> QED
    BY <1>1, <1>2, <1>3, <1>4, ProvedSpec, PTL
=============================================================================
