CONSTANT Measurements <- MCMeasurements
SPECIFICATION Spec
INVARIANTS OwnPart CallsAllowed NothingLeft
PROPERTIES ReadsWhatWasWritten AllReturn
