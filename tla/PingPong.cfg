CONSTANTS
  Offset <- MCOffset
  Number_ping_pongs = 4
  Minimum_ping_pongs = 2
  Eager = TRUE
  Rounds = 2
  MaxNow = 4
SPECIFICATION FairSpec
INVARIANTS WindowHoldsTruth EstimateWithinWindow Alternation
PROPERTY EveryCallEnds
