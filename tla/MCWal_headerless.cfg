SPECIFICATION Spec
CONSTANTS
  NoKey = NoKey
  k1 = k1
  k2 = k2
  Starts <- MCNew
  Kinds <- MCKinds
  Configs <- MCPlain
  DiskOrder = "inOrder"
  SectorJunk = TRUE
  StatMayFail = FALSE
  MaxCommits = 1
  MaxCrashes = 1
  MaxDamage = 0
INVARIANTS
  NeverHeaderless
