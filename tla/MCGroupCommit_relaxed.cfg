SPECIFICATION Spec
CONSTANTS
  w1 = w1
  w2 = w2
  w3 = w3
  Writers <- MCTwoWriters
  Policy = "SyncEverySecond"
  AutoCompact = TRUE
  DropsDirty = FALSE
  SyncDirMayFail = FALSE
  MaxAppends = 3
  MaxSwaps = 2
  MaxRestarts = 1
SYMMETRY MCSymmetry
INVARIANT LogMatchesMemory
INVARIANT CloseDurable
CHECK_DEADLOCK FALSE
