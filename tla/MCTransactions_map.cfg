SPECIFICATION FairSpec
CHECK_DEADLOCK FALSE
CONSTANTS
  t1 = t1
  v1 = v1
  v2 = v2
  byValue = byValue
  NoValue = NoValue
  Keys <- MCTwoKeys
  Values <- MCOneValue
  Names <- MCNoNames
  Txs <- MCOneTx
  Compacts = TRUE
  SweepBatchLimit = 2
  MaxClock = 1
  MaxPending = 2
  MaxSaves = 0
  MaxTail = 1
  MaxRestarts = 1
INVARIANT
  LogReplays
PROPERTIES
  SweepsOnlyExpired
  ImplementsTransactionalMap
  ExpiredAreSwept
