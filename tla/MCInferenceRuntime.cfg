SPECIFICATION FairSpec
CONSTANTS
  QueueMax = 2
  Violating = {1, 3, 4}
  SnapshotInterval = 2
  DbMayFail = TRUE
  CancelMayBeLost = TRUE
  MaxFrames = 5
  MaxStarts = 2
INVARIANT CleanWhenOff
INVARIANT StoredInOrder
INVARIANT QueueIsNewest
PROPERTY StopTerminates
PROPERTY ViolationsReachDb
CHECK_DEADLOCK FALSE
