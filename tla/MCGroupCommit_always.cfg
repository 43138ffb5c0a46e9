SPECIFICATION Spec
CONSTANTS
  w1 = w1
  w2 = w2
  w3 = w3
  Writers <- MCTwoWriters
  Policy = "SyncAlways"
  AutoCompact = FALSE
  DropsDirty = FALSE
  SyncDirMayFail = FALSE
  MaxAppends = 3
  MaxSwaps = 2
  MaxRestarts = 1
SYMMETRY MCSymmetry
INVARIANT TypeOK
INVARIANT AckedDurable
INVARIANT LogMatchesMemory
INVARIANT NoLostWakeup
INVARIANT OneLeader
PROPERTY ImplementsDurableLog
PROPERTY SwapsLiveLogOnly
CHECK_DEADLOCK FALSE
