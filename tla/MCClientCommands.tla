-------------------------- MODULE MCClientCommands --------------------------
EXTENDS ClientCommands, TLC

MCVersions == {-1, 0, 1}

Symmetry == Permutations(Requests) \cup Permutations(Ids)
=============================================================================
