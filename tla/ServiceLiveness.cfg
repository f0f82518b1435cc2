SPECIFICATION OrderedFairSpec
CONSTANTS
  Requests = {r1, r2, r3}
  NoRequest = NoRequest
  Ids = {g1, g2}
  EmptyGuid = EmptyGuid
  Names = {n1, EmptyName}
  EmptyName = EmptyName
  Versions <- MCVersions
  PutVersions = {0}
  Capacity = 3
PROPERTY EveryRequestEnds
