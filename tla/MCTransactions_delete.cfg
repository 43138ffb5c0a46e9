SPECIFICATION Spec
CHECK_DEADLOCK FALSE
CONSTANTS
  t1 = t1
  v1 = v1
  v2 = v2
  byValue = byValue
  NoValue = NoValue
  Keys <- MCOneKey
  Values <- MCOneValue
  Names <- MCNoNames
  Txs <- MCNoTxs
  Compacts = FALSE
  SweepBatchLimit = 1
  MaxClock = 1
  MaxPending = 0
  MaxSaves = 0
  MaxTail = 0
  MaxRestarts = 0
PROPERTIES
  DeleteReportsVisible
