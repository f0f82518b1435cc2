--------------------------- MODULE EventStoreLog ---------------------------
(***************************************************************************)
(* The log that the event store implements, as long as its callers do not  *)
(* race and name the version they have read.                               *)
(***************************************************************************)
EXTENDS EventStore, Sequences

(* The refinement mapping: the log of an aggregate is the committed part   *)
(* of the list a lookup finds; nothing is promised about a tainted list,   *)
(* nor about any aggregate once two dictionary inserts overlapped.         *)
VoidIds    == IF clobbered THEN Guids
                           ELSE {id \in Guids : Lookup(id) \cap tainted # {}}
ListLog(l) == [n \in 1 .. Cardinality(Committed(l)) |-> items[l][n - 1]]
LogOf(id)  == IF id \in VoidIds \/ Lookup(id) = {} THEN <<>>
              ELSE ListLog(CHOOSE l \in Lookup(id) : TRUE)
Logs       == [id \in Guids |-> LogOf(id)]
Log        == INSTANCE AggregateLog WITH log <- Logs, void <- VoidIds

(* The store implements the abstract log: an aggregate whose Saves never   *)
(* raced changes only by accepting one event with the next version, until  *)
(* a restart forgets everything.                                           *)
ImplementsAggregateLog == Log!Spec
=============================================================================
