CONSTANTS
  N = 5
  MaxGroups = 3
  Lengths <- MCLengths
  Keys <- MCKeys
  Arrays <- MCArrays
SPECIFICATION RegroupSpec
INVARIANT Aligned
INVARIANT InBounds
PROPERTY PassedIsFinal
PROPERTY ImplementsPartition
PROPERTY Termination
CHECK_DEADLOCK FALSE
