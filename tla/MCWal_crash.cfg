SPECIFICATION Spec
CONSTANTS
  NoKey = NoKey
  k1 = k1
  k2 = k2
  Starts <- MCNew
  Kinds <- MCTTLKinds
  Configs <- MCPlain
  DiskOrder = "inOrder"
  SectorJunk = TRUE
  StatMayFail = FALSE
  MaxCommits = 3
  MaxCrashes = 2
  MaxDamage = 0
INVARIANTS
  TypeOK
  MemoryIsHistory
  CrashNeverRefused
PROPERTIES
  ImplementsDurableLog
