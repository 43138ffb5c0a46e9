SPECIFICATION Spec
CHECK_DEADLOCK FALSE
CONSTANTS
  Keys <- MCKeys
  MaxCommits = 2
  MaxCompactions = 1
  MaxOpens = 1
  MaxRange = 2
INVARIANT
  EveryGenerationRestores
