CONSTANTS
  Size = 2
  imsizex = 2
  imsizey = 2
  oversample_ratio = 2
  Ju = 2
  Jw = 4
  FFT <- MCFFT
  Requests <- MCRequests
  Visibilities <- MCVisibilities
  Stacks <- MCStacks
  ArrayFire = TRUE
SPECIFICATION Spec
INVARIANT IsAdjoint
INVARIANT SameAsSerial
INVARIANT WTermComplete
PROPERTY EveryRankTheSame
CHECK_DEADLOCK FALSE
