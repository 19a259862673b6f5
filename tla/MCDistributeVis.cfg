CONSTANTS
  Sizes <- MCSizes
  Counts <- MCCounts
  SortKeys <- MCSortKeys
SPECIFICATION Spec
INVARIANT EveryVisibilityOnce
INVARIANT SharesAreRanges
PROPERTY Delivered
PROPERTY NoneReturnsAlone
CHECK_DEADLOCK FALSE
