---------------------------- MODULE AggregateLog ----------------------------
(***************************************************************************)
(* What the event store promises its callers: for every aggregate a log in *)
(* which an accepted event takes the version after the last one, so that   *)
(* of two writers that read the same version only the first is accepted.   *)
(* The promise is void for the aggregates in "void", whose writers raced   *)
(* or used the wildcard version, and everything is forgotten when the      *)
(* process stops (the store lives in memory).                              *)
(***************************************************************************)
EXTENDS Integers, Sequences

CONSTANTS Guids,      \* aggregate identifiers
          Requests    \* each accepted request contributes one event

VARIABLES log,        \* log[id]: the events of aggregate id, oldest first
          void        \* the aggregates nothing is promised about any more

vars == <<log, void>>

Init == /\ log = [id \in Guids |-> <<>>]
        /\ void = {}

(* Every other aggregate keeps its log, and no promise is ever renewed. *)
Frame(touched) ==
  /\ void \subseteq void'
  /\ \A id \in Guids \ (void' \cup touched) : log'[id] = log[id]

(* One event is accepted, with the version that follows the last one, and  *)
(* the accepted request is in no log yet.                                  *)
Accept(id, e) ==
  /\ log'[id] = Append(log[id], e)
  /\ log[id] # <<>> => e.version = log[id][Len(log[id])].version + 1
  /\ \A n \in 1 .. Len(log[id]) : log[id][n].req # e.req
  /\ Frame({id})

(* Void aggregates may change in any way; the others do not. *)
Disturb == Frame({})

Forget == /\ log' = [id \in Guids |-> <<>>]
          /\ void' = {}

Next == \/ \E id \in Guids \ void :
             Len(log'[id]) > 0 /\ Accept(id, log'[id][Len(log'[id])])
        \/ Disturb
        \/ Forget

Spec == Init /\ [][Next]_vars
=============================================================================
