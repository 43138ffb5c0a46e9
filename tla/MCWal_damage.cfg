SPECIFICATION Spec
CONSTANTS
  NoKey = NoKey
  k1 = k1
  k2 = k2
  Starts <- MCAllStarts
  Kinds <- MCKinds
  Configs <- MCAllConfigs
  DiskOrder = "inOrder"
  SectorJunk = FALSE
  StatMayFail = FALSE
  MaxCommits = 2
  MaxCrashes = 1
  MaxDamage = 1
SYMMETRY MCSymmetry
INVARIANTS
  OneKeyPerLog
  MemoryIsHistory
  AckedSurvive
