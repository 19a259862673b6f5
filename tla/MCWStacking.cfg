CONSTANTS
  Size = 3
  MaxLocal = 2
  Costs <- MCCosts
  Fill = 0
  Given <- MCGiven
SPECIFICATION Spec
INVARIANT OneSequence
INVARIANT EvenLoad
INVARIANT Exchanged
INVARIANT NothingLostSilently
PROPERTY EveryRankReturns
CHECK_DEADLOCK FALSE
