-------------------------- MODULE MCClientService --------------------------
EXTENDS ClientService, SequencesExt, TLC

MCVersions    == -1 .. 3
MCPutVersions == {-1, 0, 1}

Symmetry == Permutations(Requests) \cup Permutations(Ids)

(* Symmetry reduction is not sound for liveness.  Requests and ids differ  *)
(* in nothing but their names, so it is enough to use them in one order.   *)
RequestOrder == SetToSeq(Requests)
IdOrder      == SetToSeq(Ids)
Used(id)     == \E r \in Requests : cmd[r].id = id
InOrder ==
  /\ \A i, j \in DOMAIN RequestOrder :
       i < j /\ task[RequestOrder[j]] # "unsent" => task[RequestOrder[i]] # "unsent"
  /\ \A i, j \in DOMAIN IdOrder :
       i < j /\ Used(IdOrder[j]) => Used(IdOrder[i])
OrderedFairSpec == Init /\ [][Next /\ InOrder']_vars /\ Fairness
=============================================================================
