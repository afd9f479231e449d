CONSTANTS
  Rank <- MCRank
  Root = 0
  SyncKinds = {"SYNC_REAL", "SYNC_BARRIER", "SYNC_NOSYNC"}
  min_repetitions = 3
  max_repetitions = 4
  First_max_counter = 2
  Error <- MCOneTickError
  MaxSpent = 2
  MaxLag = 1
SPECIFICATION FairSpec
INVARIANTS RunsFitTheArrays InStep TableIsGoodRuns StartedTogether
PROPERTY Terminates
