SPECIFICATION InputSpec
CONSTANTS
  NaN = NaN
  Missing = Missing
  Unconvertible = Unconvertible
  NoFile = NoFile
  Files <- MCFiles
  Extension <- MCExtension
  Beginnings <- MCBeginnings
  WaveletItems <- MCWaveletItems
CHECK_DEADLOCK FALSE
INVARIANT OwnRows
INVARIANT UsedIsSet
INVARIANT WaveletsExpanded
PROPERTY ReadableIsRead
