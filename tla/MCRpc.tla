------------------------------- MODULE MCRpc -------------------------------
EXTENDS Rpc, TLC

CONSTANTS q1, q2, q3, c1, c2

(* Two queries share a client, the third has one of its own. *)
MCClientOf == (q1 :> c1) @@ (q2 :> c1) @@ (q3 :> c2)
=============================================================================
