CONSTANTS
    Sizes = {0, 2, 3, 5}
    MaxSamples = 9
SPECIFICATION Spec
INVARIANTS
    InBounds
CHECK_DEADLOCK FALSE
