---------------------------- MODULE ClientService ----------------------------
(***************************************************************************)
(* The client web service: ClientsController turns HTTP requests into      *)
(* commands on the in-process bus and answers reads from the read model.   *)
(* It joins the write side (ClientCommands, over EventStore) to the read   *)
(* side (ClientReadModel): publishing an event starts the read-side tasks. *)
(*                                                                         *)
(* A POST answers before its command runs and without the new id, so a     *)
(* caller learns an id only from the list.                                 *)
(***************************************************************************)
EXTENDS Integers, FiniteSets

CONSTANTS
  Requests, NoRequest, Capacity, Ids, EmptyGuid, Names, EmptyName,
  Versions,      \* versions a command may carry
  PutVersions    \* versions a caller of PUT may send

ASSUME ServiceAssumption ==
  /\ NoRequest \notin Requests
  /\ EmptyGuid \notin Ids
  /\ EmptyName \in Names
  /\ PutVersions \subseteq Versions /\ Versions \subseteq Int
  /\ Capacity \in Nat \ {0}

VARIABLES
  known,         \* ids some caller has read in the list, even before a restart
  alone,         \* ghost: every request so far came when nothing was running
  task, cmd, announced,                                    \* ClientCommands
  stage, call, target, slot, current, count, items, size,
  tainted, clobbered,                                      \* EventStore
  event, detailTask, listTask, details, detailCount, row,
  list, listSize, listName, claim                          \* ClientReadModel

Guids    == Ids \cup {EmptyGuid}
Commands == INSTANCE ClientCommands
Rows     == INSTANCE ClientReadModel

writeVars == <<task, cmd, announced, stage, call, target, slot, current, count,
               items, size, tainted, clobbered>>
readVars  == <<event, detailTask, listTask, details, detailCount, row,
               list, listSize, listName, claim>>
vars      == <<known, alone, writeVars, readVars>>

TypeOK == /\ Commands!TypeOK
          /\ Rows!TypeOK
          /\ known \subseteq Ids
          /\ alone \in BOOLEAN

Init == /\ Commands!Init
        /\ Rows!Init
        /\ known = {}
        /\ alone = TRUE
-----------------------------------------------------------------------------
(* Mutated form of Post: the answer carries the new id. *)
Post_TellsId(r) ==
  /\ \E c \in Commands!CreateCommands : /\ Commands!Send(r, c)
                                        /\ known' = known \cup {c.id}
  /\ UNCHANGED readVars

(* POST: a command with a fresh Guid. *)
Post(r) == /\ \E c \in Commands!CreateCommands : Commands!Send(r, c)
           /\ UNCHANGED <<known, readVars>>

(* PUT ChangeName/{id}: the id, the name and the version are the caller's. *)
PutName(r) ==
  /\ \E id \in known \cup {EmptyGuid}, n \in Names, v \in PutVersions :
       Commands!Send(r, [type |-> "rename", id |-> id, name |-> n,
                         version |-> v])
  /\ UNCHANGED <<known, readVars>>

(* DELETE {id}: reads the detail row and sends its version; without a row  *)
(* it sends nothing.                                                       *)
Delete(r) ==
  /\ \E id \in known : \E d \in Rows!DetailRows(id) :
       Commands!Send(r, [type |-> "remove", id |-> id, name |-> EmptyName,
                         version |-> row[d].version])
  /\ UNCHANGED <<known, readVars>>

(* GET: the live list.  (GET {id} changes nothing and tells no new id.) *)
GetList ==
  /\ known' = known \cup Rows!Listed
  /\ UNCHANGED <<alone, writeVars, readVars>>

(* A command task steps, or a read-side task does. *)
Handle(r) == Commands!Handle(r) /\ UNCHANGED <<known, alone, readVars>>

EventOf(r) == [type |-> cmd[r].type, id |-> call[r].id,
               name |-> cmd[r].name, version |-> call[r].expected + 1]
Publish(r) == /\ Commands!Publish(r)
              /\ Rows!Receive(r, EventOf(r))
              /\ UNCHANGED <<known, alone>>

HandlerStep(r) == Rows!HandlerStep(r) /\ UNCHANGED <<known, alone, writeVars>>

(* Callers keep what they read before the process stopped. *)
Restart == Commands!Restart /\ Rows!Restart /\ UNCHANGED <<known, alone>>

Ended   == {"none", "done", "failed"}
Idle(r) == \/ task[r] = "unsent"
           \/ task[r] = "failed"
           \/ stage[r] \in {"rejected", "lost"}
           \/ /\ stage[r] = "published"
              /\ detailTask[r] \in Ended
              /\ listTask[r] \in Ended
Quiet   == \A r \in Requests : Idle(r)

Request(r) == /\ Post(r) \/ PutName(r) \/ Delete(r)
              /\ alone' = (alone /\ Quiet)
Task(r)    == Handle(r) \/ Publish(r) \/ HandlerStep(r)

Next == \/ \E r \in Requests : Request(r) \/ Task(r)
        \/ GetList
        \/ Restart

(* The thread pool runs every queued task; callers promise nothing. *)
Fairness == \A r \in Requests :
  /\ WF_vars(Handle(r))
  /\ WF_vars(Publish(r))
  /\ WF_vars(Rows!DetailStep(r) /\ UNCHANGED <<known, alone, writeVars>>)
  /\ WF_vars(Rows!ListStep(r) /\ UNCHANGED <<known, alone, writeVars>>)

Spec     == Init /\ [][Next]_vars
FairSpec == Spec /\ Fairness
-----------------------------------------------------------------------------
Published == {r \in Requests : stage[r] = "published"}

(* The callers reach the write side only through the protocol it assumes:  *)
(* an id is used only after the creation of its client was published.      *)
UsesCommands == Commands!Spec

(* A client that a caller can see in a row can be loaded by a command: the *)
(* read side never runs ahead of the store (unless dictionary inserts of   *)
(* the store overlapped).                                                  *)
SeenCanBeLoaded ==
  ~clobbered =>
    \A q \in {details[k] : k \in Rows!Slots} \cup {list[k] : k \in Rows!Slots} :
      q # NoRequest => \E l \in Commands!Store!Lookup(event[q].id) :
                         Commands!ReplayedIds(l) = {event[q].id}

(* Every command that was sent comes to an end, and so do the read-side    *)
(* tasks of its event, whatever the order the thread pool runs them in.    *)
EveryRequestEnds ==
  \A r \in Requests : (task[r] = "queued") ~> (task[r] # "unsent" /\ Idle(r))

-----------------------------------------------------------------------------
(* One caller who waits until nothing is running before the next request,  *)
(* so that no two tasks overlap except those of one event.                 *)
SerialSpec == Init /\ [][Next /\ alone']_vars

(* The events of list l by slot, and the name they leave the client with.  *)
NameAfter(l) ==
  LET named == {k \in 0 .. size[l] - 1 : cmd[items[l][k].req].type # "remove"}
  IN  cmd[items[l][CHOOSE k \in named : \A n \in named : n <= k].req].name

(* As long as requests came one at a time both rows of a client are the projection of  *)
(* its events once the tasks have run: they show the name the last one     *)
(* left, and the detail row the last version, except that the version of a *)
(* new client is shown as 1 where its event has 0.                         *)
RowsMatchStore ==
  alone /\ Quiet => \A l \in Commands!Store!Created :
    /\ \E d \in Rows!DetailRows(call[l].id) :
         row[d] = [name    |-> NameAfter(l),
                   version |-> IF size[l] = 1
                                 THEN 1 ELSE Commands!Store!LastVersion(l)]
    /\ \E k \in Rows!ListSlots(call[l].id) : listName[list[k]] = NameAfter(l)
-----------------------------------------------------------------------------
(* Statements of the code's comments that the code does not keep.          *)

Applied(r) == r \in Published /\ cmd[r].type # "create"

(* EventStore.cs:43 checks the version "otherwise -> throw exception": of  *)
(* the requests that name one version of a client, other than the wildcard *)
(* -1, only one is accepted.                                               *)
OneWinnerPerVersion ==
  \A r, s \in Published : /\ r # s
                          /\ call[r].id = call[s].id
                          /\ call[r].expected # -1
                          => call[r].expected # call[s].expected

(* ClientsController.cs:65, "Change a client name": once everything has    *)
(* run, the only accepted renaming of a client is shown in its detail row. *)
RenamingIsShown ==
  Quiet => \A r \in Published :
     /\ cmd[r].type = "rename"
     /\ \A s \in Published \ {r} : Applied(s) => cmd[s].id # cmd[r].id
     => \A d \in Rows!DetailRows(cmd[r].id) : row[d].name = cmd[r].name

(* ClientsController.cs:78, "Delete a client": the DELETE of a caller who  *)
(* has waited for everything to finish is not rejected as a conflict.      *)
DeletionIsAccepted ==
  \A r \in Requests : cmd[r].type = "remove" => stage[r] # "rejected"
=============================================================================
