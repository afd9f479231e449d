CONSTANTS
  Loops <- MCLoops
  Factors = {2, 4}
  MeasuresPerBody = 1
  Results = {0, 1, 3}
  Scale = 24
SPECIFICATION Spec
INVARIANTS ListsConsistent ResultsKept ExhaustsRange BoundedEffort
