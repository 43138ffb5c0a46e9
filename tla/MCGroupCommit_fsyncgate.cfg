SPECIFICATION Spec
CONSTANTS
  w1 = w1
  w2 = w2
  w3 = w3
  Writers <- MCTwoWriters
  Policy = "SyncAlways"
  AutoCompact = FALSE
  DropsDirty = TRUE
  SyncDirMayFail = FALSE
  MaxAppends = 2
  MaxSwaps = 1
  MaxRestarts = 0
SYMMETRY MCSymmetry
INVARIANT AckedDurable
CHECK_DEADLOCK FALSE
