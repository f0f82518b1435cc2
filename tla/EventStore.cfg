SPECIFICATION Spec
CONSTANTS
  Requests = {r1, r2, r3}
  NoRequest = NoRequest
  Guids = {g1, EmptyGuid}
  EmptyGuid = EmptyGuid
  Versions <- MCVersions
  Capacity = 3
INVARIANTS TypeOK UntaintedIsGapFree AcceptedIsKept DictionaryIntact
PROPERTY ImplementsAggregateLog
