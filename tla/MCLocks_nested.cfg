SPECIFICATION Spec
CHECK_DEADLOCK FALSE
CONSTANTS
  g1 = g1
  g2 = g2
  NoOne = NoOne
  Callers <- MCTwoCallers
  Calls <- MCWrites
  LoopBody <- MCGet
  Options <- MCPlain
  MaxCalls = 1
INVARIANT
  NoDeadlock
