SPECIFICATION FairSpec
CONSTANTS
  BatchMax = 2
  BufferMax = 3
  Callers = {"route"}
  DbMayFail = FALSE
  AddedColumns = {}
  MaxRecords = 2
  MaxRepeats = 0
PROPERTY EventuallyWritten
CHECK_DEADLOCK FALSE
