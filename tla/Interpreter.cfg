CONSTANTS
  Rank <- MCRank
  Var = {"n", "count"}
  Programs <- MCPrograms
  BufferSizes = {1, 3}
  MaxRefine = 2
SPECIFICATION FairSpec
INVARIANTS SameStatement OnlyInnermostAborted RefusedOnlyIfNested
PROPERTY AllFinish
