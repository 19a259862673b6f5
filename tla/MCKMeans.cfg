CONSTANTS
  Size = 2
  Centres = 3
  Iters = 4
  RelDiff <- MCRelDiff
  WValues <- MCWValues
  MaxLocal = 2
SPECIFICATION KMeansSpec
INVARIANT CostNeverRises
INVARIANT MatchesSerial
PROPERTY EveryRankClusters
CHECK_DEADLOCK FALSE
