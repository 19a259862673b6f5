CONSTANTS
  Size = 2
  DataLens <- MCDataLens
  BatchSizes <- MCBatchSizes
  Batches = 2
  Shuffles <- MCShuffled
SPECIFICATION Spec
INVARIANT ReadsFromSlice
INVARIANT ColumnsAligned
PROPERTY EvenSlicesFinish
CHECK_DEADLOCK FALSE
