SPECIFICATION TransportsSpec
CONSTANTS
  Count = 2
  MaxRequests = 3
  MaxStarts = 2
  Messages = {m1, m2}
  MaxLosses = 2
INVARIANTS CommandsInOrder SkippedOnlyByEnd RepeatedOnlyByStart KeptUntilProcessed TriedAgainOnlyAfterLoss
PROPERTIES DisposeEnds EveryOffsetHandled EveryMessageTried
CHECK_DEADLOCK FALSE
