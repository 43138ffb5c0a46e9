SPECIFICATION Spec
CHECK_DEADLOCK FALSE
CONSTANTS
  c1 = c1
  c2 = c2
  NoFile = NoFile
  Keys <- MCKeys
  Callers <- MCOneCaller
  TrustsNil = FALSE
  MaxCommits = 2
  MaxCompactions = 1
  MaxOpens = 1
  MaxBackups = 2
INVARIANTS
  TypeOK
  DestWhole
  ReturnedBackupRestores
