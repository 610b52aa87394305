SPECIFICATION Spec
CONSTANTS
    MaxRuns = 4
INVARIANTS
    BaseExists
PROPERTIES
    SalvageReachesNextRun
CHECK_DEADLOCK FALSE
