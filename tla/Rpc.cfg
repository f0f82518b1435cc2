SPECIFICATION FairSpec
CONSTANTS
  q1 = q1
  q2 = q2
  q3 = q3
  c1 = c1
  c2 = c2
  Queries = {q1, q2, q3}
  Clients = {c1, c2}
  ClientOf <- MCClientOf
  Loops = {l1, l2}
  Nobody = Nobody
  MaxDrops = 1
INVARIANTS TypeOK OwnAnswer WaitingIsServed RepeatedOnlyAfterLoss StopIsPrompt
PROPERTY QueriesEnd
CHECK_DEADLOCK FALSE
