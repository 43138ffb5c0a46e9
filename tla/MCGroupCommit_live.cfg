SPECIFICATION FairSpec
CONSTANTS
  w1 = w1
  w2 = w2
  w3 = w3
  Writers <- MCTwoWriters
  Policy = "SyncAlways"
  AutoCompact = TRUE
  DropsDirty = FALSE
  SyncDirMayFail = FALSE
  MaxAppends = 2
  MaxSwaps = 1
  MaxRestarts = 0
PROPERTY WritersReturn
PROPERTY CloseReturns
CHECK_DEADLOCK FALSE
