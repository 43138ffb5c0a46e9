SPECIFICATION FairSpec
CHECK_DEADLOCK FALSE
CONSTANTS
  Keys <- MCKeys
  MaxCommits = 2
  MaxCompactions = 2
  MaxOpens = 2
  MaxRange = 2
INVARIANTS
  TypeOK
  NeverSpliced
  RestoresToAState
PROPERTY
  CatchesUp
