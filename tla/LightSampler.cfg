SPECIFICATION Spec
CONSTANTS
    Sizes = {0, 2}
    MaxSignals = 2
INVARIANTS TypeOK OnlyListenerFaults StoresAreLive OrphansAreSamplers NoCircularWait
CHECK_DEADLOCK FALSE
