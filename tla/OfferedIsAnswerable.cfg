SPECIFICATION Spec
CONSTANTS
    Ceiling <- MCCeiling
    BackoffCap = 2
    MaxRecoveries = 2
    MaxTries = 2
    MaxRevalidations = 1
    MaxDeaths = 0
INVARIANT
    OfferedIsAnswerable
CHECK_DEADLOCK FALSE
