SPECIFICATION Spec
CHECK_DEADLOCK FALSE
CONSTANTS
  g1 = g1
  byValue = byValue
  NoValue = NoValue
  Keys <- MCKeys
  Values <- MCValues
  Names <- MCNames
  Scanners <- MCScanners
  MaxWrites = 3
  MaxClock = 1
INVARIANT
  ScanIsASnapshot
