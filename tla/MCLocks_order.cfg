SPECIFICATION Spec
CHECK_DEADLOCK FALSE
CONSTANTS
  g1 = g1
  g2 = g2
  NoOne = NoOne
  Callers <- MCTwoCallers
  Calls <- MCAllCalls
  LoopBody <- MCEmptyBody
  Options <- MCOptions
  MaxCalls = 1
SYMMETRY MCSymmetry
INVARIANTS
  TypeOK
  LockOrder
  QuietAfterClose
  NoDeadlock
