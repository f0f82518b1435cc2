--------------------------- MODULE ClientCommands ---------------------------
(***************************************************************************)
(* The write side of a client service: InProcessBus.Send starts a          *)
(* thread-pool task per command, the command handlers load the aggregate   *)
(* through Repository.GetById, apply the command and save the one new      *)
(* event.  An exception ends the task and nobody sees it.                  *)
(*                                                                         *)
(* Callers cannot guess a fresh Guid: they name aggregates whose creation  *)
(* was published at some time (perhaps before a restart), or EmptyGuid,    *)
(* which stands for every Guid the service never issued.                   *)
(***************************************************************************)
EXTENDS Integers, FiniteSets

CONSTANTS
  Requests, NoRequest, Capacity,
  Ids,         \* what Guid.NewGuid may return
  EmptyGuid,   \* Guid.Empty, the id of an aggregate with no creation event
  Names,       \* names a caller may send
  EmptyName,   \* null or ""
  Versions     \* versions a caller may send

VARIABLES
  task,        \* task[r]: the thread-pool task of command r
  cmd,         \* cmd[r]: the command
  announced,   \* ghost: ids whose creation event was published
  stage, call, target, slot, current, count, items, size,
  tainted, clobbered                                        \* EventStore

Guids == Ids \cup {EmptyGuid}
Store == INSTANCE EventStore WITH Versions <- Versions \cup {-1}

ASSUME CommandAssumption ==
  /\ NoRequest \notin Requests
  /\ EmptyGuid \notin Ids
  /\ EmptyName \in Names
  /\ Versions \subseteq Int
  /\ Capacity \in Nat \ {0}

storeVars == <<stage, call, target, slot, current, count, items, size,
               tainted, clobbered>>
vars      == <<task, cmd, announced, storeVars>>

Types   == {"create", "rename", "remove"}
Command == [type : Types, id : Guids, name : Names,
            version : Versions \cup {-1}]
NoCmd   == [type |-> "create", id |-> EmptyGuid, name |-> EmptyName,
            version |-> -1]

TypeOK ==
  /\ Store!TypeOK
  /\ task \in [Requests -> {"unsent", "queued", "saving", "failed"}]
  /\ cmd \in [Requests -> Command]
  /\ announced \subseteq Ids
-----------------------------------------------------------------------------
Init == /\ Store!Init
        /\ task = [r \in Requests |-> "unsent"]
        /\ cmd = [r \in Requests |-> NoCmd]
        /\ announced = {}

Sent == {r \in Requests : task[r] # "unsent"}

(* Mutated form of CreateCommands: an id may be issued twice. *)
CreateCommands_Reuse ==
  [type : {"create"}, id : Ids, name : Names, version : {-1}]

(* The commands the controllers construct: a fresh id for a creation, which *)
(* carries no version, and a caller's id and version for the others.       *)
CreateCommands ==
  [type : {"create"}, id : Ids \ {cmd[s].id : s \in Sent},
   name : Names, version : {-1}]
ChangeCommands ==
  [type : {"rename"}, id : announced \cup {EmptyGuid},
   name : Names, version : Versions]
  \cup [type : {"remove"}, id : announced \cup {EmptyGuid},
        name : {EmptyName}, version : Versions]

(* Mutated form of Send: the caller is told the new id at once. *)
Send_TellsId(r, c) ==
  /\ task[r] = "unsent"
  /\ task' = [task EXCEPT ![r] = "queued"]
  /\ cmd' = [cmd EXCEPT ![r] = c]
  /\ announced' = IF c.type = "create" THEN announced \cup {c.id} ELSE announced
  /\ UNCHANGED storeVars

(* InProcessBus.Send: one task per registered handler; each command has one. *)
Send(r, c) ==
  /\ task[r] = "unsent"
  /\ task' = [task EXCEPT ![r] = "queued"]
  /\ cmd' = [cmd EXCEPT ![r] = c]
  /\ UNCHANGED <<announced, storeVars>>

Begin(r, id, expected) ==
  /\ task[r] = "queued"
  /\ task' = [task EXCEPT ![r] = "saving"]
  /\ Store!Save(r, id, expected)
  /\ UNCHANGED <<cmd, announced>>

(* Handle(CreateClientCommand): new Client(id, name) saved with version -1. *)
Create(r) == cmd[r].type = "create" /\ Begin(r, cmd[r].id, -1)

(* LoadsFromHistory: the creation event sets the aggregate's id, which is  *)
(* Guid.Empty until then; a null event makes Apply throw.                  *)
Replayable(l) == Store!Blank \notin Store!History(l)
ReplayedIds(l) ==
  LET created == {e \in Store!History(l) : /\ e.req # NoRequest
                                           /\ cmd[e.req].type = "create"}
  IN  IF created = {} THEN {EmptyGuid} ELSE {cmd[e.req].id : e \in created}

(* ChangeName throws on an empty name, Remove accepts always. *)
Valid(c) == c.type = "rename" => c.name # EmptyName

(* Handle(Rename/RemoveClientCommand): load, apply, save under the id the  *)
(* loaded aggregate has.                                                   *)
Change(r) ==
  /\ cmd[r].type # "create"
  /\ Valid(cmd[r])
  /\ \E l \in Store!Lookup(cmd[r].id) :
       /\ Replayable(l)
       /\ \E id \in ReplayedIds(l) : Begin(r, id, cmd[r].version)

(* AggregateNotFoundException, or an exception while replaying or applying. *)
Refuse(r) ==
  /\ cmd[r].type # "create"
  /\ task[r] = "queued"
  /\ \/ Store!Lookup(cmd[r].id) = {}
     \/ \E l \in Store!Lookup(cmd[r].id) : ~Replayable(l) \/ ~Valid(cmd[r])
  /\ task' = [task EXCEPT ![r] = "failed"]
  /\ UNCHANGED <<cmd, announced, storeVars>>

(* A step of Save other than the publication, and the publication. *)
SaveStep(r) == /\ Store!SaveStep(r)
               /\ stage[r] # "stored"
               /\ UNCHANGED <<task, cmd, announced>>
Publish(r) ==
  /\ Store!Publish(r)
  /\ announced' = IF cmd[r].type = "create" THEN announced \cup {cmd[r].id}
                                            ELSE announced
  /\ UNCHANGED <<task, cmd>>

(* The process stops and starts again: the queued and running tasks vanish. *)
Restart ==
  /\ Store!Restart
  /\ task' = [r \in Requests |-> IF task[r] = "queued" THEN "failed"
                                                       ELSE task[r]]
  /\ UNCHANGED <<cmd, announced>>

Handle(r) == Create(r) \/ Change(r) \/ Refuse(r) \/ SaveStep(r)

Next == \/ \E r \in Requests : \E c \in CreateCommands \cup ChangeCommands :
             Send(r, c)
        \/ \E r \in Requests : Handle(r) \/ Publish(r)
        \/ Restart

Spec == Init /\ [][Next]_vars
-----------------------------------------------------------------------------
(* Replaying an aggregate yields the id it was asked for, so an event is   *)
(* saved under the id the caller named and never under Guid.Empty: the id  *)
(* comes from the creation event, which must be in the list by the time a  *)
(* caller knows it (unless dictionary inserts overlapped).                 *)
SavesUnderOwnId ==
  ~clobbered => \A r \in Requests :
     stage[r] \notin {"idle", "lost"} => call[r].id = cmd[r].id

(* Every list starts with the creation event of its own aggregate and      *)
(* holds no other, even when later events overwrote one another.           *)
StreamStartsWithCreation ==
  ~clobbered => \A l \in Store!Created : \A k \in Store!Committed(l) :
     /\ cmd[l].type = "create"
     /\ (k = 0) <=> (items[l][k].req = l)
     /\ cmd[items[l][k].req].type = "create" => k = 0
=============================================================================
