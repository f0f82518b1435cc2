SPECIFICATION Spec
CONSTANTS
  Requests = {r1, r2, r3, r4}
  NoRequest = NoRequest
  Ids = {g1, g2}
  EmptyGuid = EmptyGuid
  Names = {n1, EmptyName}
  EmptyName = EmptyName
  Versions <- MCVersions
  Capacity = 4
INVARIANTS SavesUnderOwnId StreamStartsWithCreation
SYMMETRY Symmetry
