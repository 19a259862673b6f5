CONSTANTS
  Rows <- MCRows
  Threads = 2
  Coordinates <- MCCoordinates
  Images = 2
  ftsizeu = 4
  ftsizev = 2
  Ju = 2
  total_samples = 4
  Constructors <- MCConstructors
SPECIFICATION Spec
INVARIANT NoInterference
INVARIANT EveryContributionOnce
INVARIANT GridIsAdjoint
INVARIANT SameAsMatrix
CHECK_DEADLOCK FALSE
