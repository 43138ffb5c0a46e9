SPECIFICATION Spec
CONSTANTS
  NoKey = NoKey
  k1 = k1
  k2 = k2
  Starts <- MCNew
  Kinds <- MCDeleteKinds
  Configs <- MCPlain
  DiskOrder = "cutsAnyOrder"
  SectorJunk = FALSE
  StatMayFail = FALSE
  MaxCommits = 2
  MaxCrashes = 2
  MaxDamage = 0
INVARIANTS
  MemoryIsHistory
