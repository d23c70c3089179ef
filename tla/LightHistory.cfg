CONSTANTS
    Sizes = {0, 2, 3, 5}
    MaxSamples = 8
SPECIFICATION Spec
INVARIANTS
    KeepsRecent
    FaultsArePartial
    GetNIsOneOff
    DipsFade
CHECK_DEADLOCK FALSE
