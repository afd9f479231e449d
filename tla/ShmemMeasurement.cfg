SPECIFICATION Spec
CONSTANTS
  Iterations = 2
  Calls = 2
  Counts = {2}
  Measurements <- MCMeasurements
INVARIANTS InBounds CompleteWhenTimed LockAsMeant Delivered
PROPERTY AllReturn
