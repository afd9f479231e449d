CONSTANT Measurements <- MCMeasurements
SPECIFICATION Spec
INVARIANTS NoConflict CallsFit NothingLeft Delivered
PROPERTIES AllReturn
