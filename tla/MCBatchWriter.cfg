SPECIFICATION FairSpec
CONSTANTS
  BatchMax = 2
  BufferMax = 3
  Callers = {"route"}
  DbMayFail = TRUE
  AddedColumns = {"recorded_at"}
  MaxRecords = 5
  MaxRepeats = 1
INVARIANT WrittenOnce
PROPERTY Delivers
PROPERTY KeepsTrying
CHECK_DEADLOCK FALSE
