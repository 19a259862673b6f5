CONSTANTS
  Size = 3
  ftsizeu = 2
  ftsizev = 2
  Patterns <- MCPatterns
  StorageMaxs <- MCStorage
SPECIFICATION Spec
INVARIANT DegridsFullVector
INVARIANT GridIsAdjoint
PROPERTY EveryRankFinishes
CHECK_DEADLOCK FALSE
