--------------------------- MODULE MCRestClients ---------------------------
EXTENDS RestClients, TLC

MCPartitions == {0, 1}
=============================================================================
