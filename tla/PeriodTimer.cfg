CONSTANTS
    MAX_EVENT_TIMESTAMPS = 3
    MaxTime = 8
SPECIFICATION Spec
INVARIANTS
    TypeOK
    PeriodsAddUp
PROPERTIES
    ReportsAreReal
CHECK_DEADLOCK FALSE
