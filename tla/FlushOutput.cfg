CONSTANTS
  Rank <- MCRank
  OutputRank = 0
  initial_buffer_size = 2
  Eager = TRUE
  MaxText = 3
  MaxFlush = 2
SPECIFICATION FairSpec
INVARIANTS ReceiveBuffersHold
PROPERTIES KeepsPromise FlushesReturn
