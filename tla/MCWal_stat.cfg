SPECIFICATION Spec
CONSTANTS
  NoKey = NoKey
  k1 = k1
  k2 = k2
  Starts <- MCNew
  Kinds <- MCDeleteKinds
  Configs <- MCPlain
  DiskOrder = "inOrder"
  SectorJunk = FALSE
  StatMayFail = TRUE
  MaxCommits = 3
  MaxCrashes = 2
  MaxDamage = 0
INVARIANTS
  MemoryIsHistory
