---------------------------- MODULE MCEventStore ----------------------------
(***************************************************************************)
(* The event store under arbitrary callers.                                *)
(***************************************************************************)
EXTENDS EventStoreLog

MCVersions == {-1, 0, 1}
=============================================================================
