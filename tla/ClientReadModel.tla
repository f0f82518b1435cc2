--------------------------- MODULE ClientReadModel ---------------------------
(***************************************************************************)
(* The read side: ClientMemoryDatabase, a static Dictionary of detail rows *)
(* and a static List of list rows, filled by one thread-pool task for each *)
(* published event and registered handler.  The tasks run in any order and *)
(* at the same time, with no lock, and an exception ends one unseen.       *)
(*                                                                         *)
(* A row object is named by the request whose event created it; both       *)
(* collections are arrays with a counter, as in EventStore.                *)
(***************************************************************************)
EXTENDS Integers, FiniteSets

CONSTANTS
  Requests, NoRequest, Guids, Names, EmptyName,
  Capacity     \* BOUND: length of the two arrays; growth is not modelled

VARIABLES
  event,       \* event[r]: the published event of request r, or NoEvent
  detailTask,  \* detailTask[r]: the task of the detail handler for it
  listTask,    \* listTask[r]: the task of the list handler for it
  details,     \* ClientMemoryDatabase.details: slot -> detail row
  detailCount, \* slots of it in use
  row,         \* row[r]: the ClientDetailDto created for event r
  list,        \* ClientMemoryDatabase.list: slot -> list row (NoRequest: null)
  listSize,    \* its Count
  listName,    \* listName[r]: the Name of the ClientListDto created for r
  claim        \* claim[r][h]: the slot claimed by the task of handler h

vars == <<event, detailTask, listTask, details, detailCount, row,
          list, listSize, listName, claim>>
detailVars == <<details, detailCount, row, detailTask>>
listVars   == <<list, listSize, listName, listTask>>

Slots   == 0 .. Capacity - 1
Rows    == Requests \cup {NoRequest}
Event   == [type : {"create", "rename", "remove"}, id : Guids,
            name : Names, version : Int]
NoEvent == [type |-> "none"]
NoRow   == [name |-> EmptyName, version |-> 0]
TaskStages == {"none", "queued", "adding", "bumped", "named", "done", "failed"}

TypeOK ==
  /\ event \in [Requests -> Event \cup {NoEvent}]
  /\ detailTask \in [Requests -> TaskStages]
  /\ listTask \in [Requests -> TaskStages]
  /\ details \in [Slots -> Rows]
  /\ detailCount \in 0 .. Capacity
  /\ row \in [Requests -> [name : Names, version : Int]]
  /\ list \in [Slots -> Rows]
  /\ listSize \in 0 .. Capacity
  /\ listName \in [Requests -> Names]
  /\ claim \in [Requests -> [{"detail", "list"} -> 0 .. Capacity]]

Init ==
  /\ event = [r \in Requests |-> NoEvent]
  /\ detailTask = [r \in Requests |-> "none"]
  /\ listTask = [r \in Requests |-> "none"]
  /\ details = [k \in Slots |-> NoRequest]
  /\ detailCount = 0
  /\ row = [r \in Requests |-> NoRow]
  /\ list = [k \in Slots |-> NoRequest]
  /\ listSize = 0
  /\ listName = [r \in Requests |-> EmptyName]
  /\ claim = [r \in Requests |-> [h \in {"detail", "list"} |-> 0]]
-----------------------------------------------------------------------------
(* ClientInProcessBusFactory registers these handlers for each event type; *)
(* the list handler of the removal is not among them.                      *)
Routes(type) == IF type = "remove" THEN {"detail"} ELSE {"detail", "list"}

(* InProcessBus.Publish: one task for each handler of the event's type. *)
Receive(r, e) ==
  /\ event[r] = NoEvent
  /\ event' = [event EXCEPT ![r] = e]
  /\ detailTask' = [detailTask EXCEPT ![r] =
                      IF "detail" \in Routes(e.type) THEN "queued" ELSE @]
  /\ listTask' = [listTask EXCEPT ![r] =
                    IF "list" \in Routes(e.type) THEN "queued" ELSE @]
  /\ UNCHANGED <<details, detailCount, row, list, listSize, listName, claim>>

(* The detail rows a lookup of id finds, and the list rows with their slot. *)
DetailRows(id) == {details[k] : k \in {n \in Slots :
                     details[n] # NoRequest /\ event[details[n]].id = id}}
ListSlots(id)  == {k \in 0 .. listSize - 1 :
                     list[k] # NoRequest /\ event[list[k]].id = id}
RowOf(id)      == {q \in Requests :
                     event[q].type = "create" /\ event[q].id = id}
Listed         == {event[list[k]].id : k \in {n \in 0 .. listSize - 1 :
                                                 list[n] # NoRequest}}

Detail(r, from, to) ==
  /\ detailTask[r] = from
  /\ detailTask' = [detailTask EXCEPT ![r] = to]
  /\ UNCHANGED <<event, listVars>>

(* ClientDetailEventHandlers.Handle(ClientCreatedEvent): details.Add claims *)
(* a slot, then writes a row whose version is the literal 1.               *)
DetailClaim(r) ==
  /\ event[r].type = "create"
  /\ Detail(r, "queued", "adding")
  /\ detailCount < Capacity
  /\ claim' = [claim EXCEPT ![r]["detail"] = detailCount]
  /\ UNCHANGED <<details, detailCount, row>>
DetailAdd(r) ==
  /\ Detail(r, "adding", "done")
  /\ details' = [details EXCEPT ![claim[r]["detail"]] = r]
  /\ detailCount' = claim[r]["detail"] + 1
  /\ row' = [row EXCEPT ![r] = [name |-> event[r].name, version |-> 1]]
  /\ UNCHANGED claim

(* Mutated form of DetailVersion: the version of the row is not written. *)
DetailVersion_Kept(r) ==
  /\ \/ Detail(r, "named", "done")
     \/ /\ event[r].type = "remove"
        /\ DetailRows(event[r].id) # {}
        /\ Detail(r, "queued", "done")
  /\ UNCHANGED <<details, detailCount, row, claim>>

(* Handle(ClientRenamedEvent): find the row, write its Name, then its      *)
(* Version; the removal writes the Version only.                           *)
DetailName(r) ==
  /\ event[r].type = "rename"
  /\ Detail(r, "queued", "named")
  /\ \E d \in DetailRows(event[r].id) :
       row' = [row EXCEPT ![d].name = event[r].name]
  /\ UNCHANGED <<details, detailCount, claim>>
DetailVersion(r) ==
  /\ \/ Detail(r, "named", "done")
     \/ /\ event[r].type = "remove"
        /\ DetailRows(event[r].id) # {}
        /\ Detail(r, "queued", "done")
  /\ \E d \in RowOf(event[r].id) :
       row' = [row EXCEPT ![d].version = event[r].version]
  /\ UNCHANGED <<details, detailCount, claim>>

(* GetDetailsItem throws when the row is not there. *)
DetailMissing(r) ==
  /\ event[r].type # "create"
  /\ Detail(r, "queued", "failed")
  /\ DetailRows(event[r].id) = {}
  /\ UNCHANGED <<details, detailCount, row, claim>>

List(r, from, to) ==
  /\ listTask[r] = from
  /\ listTask' = [listTask EXCEPT ![r] = to]
  /\ UNCHANGED <<event, detailVars>>

(* ClientListEventHandlers.Handle(ClientCreatedEvent): list.Add reads the  *)
(* size, stores it plus one, and writes the row.                           *)
ListRead(r) ==
  /\ event[r].type = "create"
  /\ List(r, "queued", "adding")
  /\ listSize < Capacity
  /\ claim' = [claim EXCEPT ![r]["list"] = listSize]
  /\ UNCHANGED <<list, listSize, listName>>
(* Mutated form of ListBump: the size grows by two. *)
ListBump_Twice(r) ==
  /\ List(r, "adding", "bumped")
  /\ listSize' = claim[r]["list"] + 2
  /\ UNCHANGED <<list, listName, claim>>
ListBump(r) ==
  /\ List(r, "adding", "bumped")
  /\ listSize' = claim[r]["list"] + 1
  /\ UNCHANGED <<list, listName, claim>>
ListAdd(r) ==
  /\ List(r, "bumped", "done")
  /\ list' = [list EXCEPT ![claim[r]["list"]] = r]
  /\ listName' = [listName EXCEPT ![r] = event[r].name]
  /\ UNCHANGED <<listSize, claim>>

(* list.Find runs from the first row to the first match; a null row before *)
(* it, or no match, is a NullReferenceException.                           *)
Found(id) == {k \in ListSlots(id) :
                \A n \in 0 .. k - 1 : /\ list[n] # NoRequest
                                       /\ n \notin ListSlots(id)}

(* Handle(ClientRenamedEvent) of the list. *)
ListRename(r) ==
  /\ event[r].type = "rename"
  /\ List(r, "queued", "done")
  /\ \E k \in Found(event[r].id) :
       listName' = [listName EXCEPT ![list[k]] = event[r].name]
  /\ UNCHANGED <<list, listSize, claim>>
ListMissing(r) ==
  /\ event[r].type = "rename"
  /\ List(r, "queued", "failed")
  /\ Found(event[r].id) = {}
  /\ UNCHANGED <<list, listSize, listName, claim>>

DetailStep(r) == \/ DetailClaim(r) \/ DetailAdd(r)
                 \/ DetailName(r) \/ DetailVersion(r) \/ DetailMissing(r)
ListStep(r)   == \/ ListRead(r) \/ ListBump(r) \/ ListAdd(r)
                 \/ ListRename(r) \/ ListMissing(r)
HandlerStep(r) == DetailStep(r) \/ ListStep(r)

(* The static collections and the queued tasks are lost with the process. *)
Restart ==
  /\ event' = [r \in Requests |-> NoEvent]
  /\ detailTask' = [r \in Requests |-> "none"]
  /\ listTask' = [r \in Requests |-> "none"]
  /\ details' = [k \in Slots |-> NoRequest]
  /\ detailCount' = 0
  /\ row' = [r \in Requests |-> NoRow]
  /\ list' = [k \in Slots |-> NoRequest]
  /\ listSize' = 0
  /\ listName' = [r \in Requests |-> EmptyName]
  /\ claim' = [r \in Requests |-> [h \in {"detail", "list"} |-> 0]]
=============================================================================
