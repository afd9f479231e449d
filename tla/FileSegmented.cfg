CONSTANT Measurements <- MCSegmented
SPECIFICATION Spec
INVARIANT OwnPart
