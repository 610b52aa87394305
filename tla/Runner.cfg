SPECIFICATION LiveSpec
CONSTANTS
    MaxClaims = 1
    MaxRelaunches = 2
INVARIANTS
    NoOrphanProvider
    AcknowledgedMeansStopped
PROPERTIES
    ClaimsEnd
CHECK_DEADLOCK FALSE
