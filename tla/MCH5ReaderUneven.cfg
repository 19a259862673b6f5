CONSTANTS
  Size = 2
  DataLens <- MCUneven
  BatchSizes <- MCOneBatchSize
  Batches = 1
  Shuffles <- MCShuffled
SPECIFICATION Spec
PROPERTY EveryRankReads
CHECK_DEADLOCK FALSE
