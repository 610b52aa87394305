SPECIFICATION LiveSpec
CONSTANTS
    Ceiling <- MCCeiling
    BackoffCap = 2
    MaxRecoveries = 2
    MaxTries = 2
    MaxRevalidations = 2
    MaxDeaths = 1
INVARIANTS
    SettledIsAsked
    WholeBudgetAgain

    
CHECK_DEADLOCK FALSE
