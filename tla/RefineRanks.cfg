CONSTANTS
  Rank <- MCRank
  Var = {"n", "count"}
  Programs <- MCRefineLater
  BufferSizes = {2, 3}
  MaxRefine = 2
SPECIFICATION Spec
INVARIANT RefinesOwnVariable
