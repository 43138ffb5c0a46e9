SPECIFICATION Spec
CHECK_DEADLOCK FALSE
CONSTANTS
  t1 = t1
  v1 = v1
  v2 = v2
  byValue = byValue
  NoValue = NoValue
  Keys <- MCTwoKeys
  Values <- MCTwoValues
  Names <- MCNames
  Txs <- MCOneTx
  Compacts = FALSE
  SweepBatchLimit = 1
  MaxClock = 1
  MaxPending = 2
  MaxSaves = 2
  MaxTail = 0
  MaxRestarts = 1
SYMMETRY MCSymmetry
INVARIANTS
  TypeOK
  Mirrored
  ReadsAgree
  PendingExplainsState
