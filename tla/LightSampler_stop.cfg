SPECIFICATION FairSpec
CONSTANTS
    Sizes = {0, 2}
    MaxSignals = 0
PROPERTIES SamplingGoesOn StopEndsOrStrands
CHECK_DEADLOCK FALSE
