SPECIFICATION Spec
CONSTANTS
  Requests = {r1, r2, r3}
  NoRequest = NoRequest
  Ids = {g1, g2}
  EmptyGuid = EmptyGuid
  Names = {n1, EmptyName}
  EmptyName = EmptyName
  Versions <- MCVersions
  PutVersions <- MCPutVersions
  Capacity = 3
INVARIANT RenamingIsShown
SYMMETRY Symmetry
