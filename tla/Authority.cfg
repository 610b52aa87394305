SPECIFICATION LiveSpec
CONSTANTS
    MaxRuns = 3
    MaxGen = 2
    RefundCap = 2
    ExternalCap = 1
    MaxUncapped = 1
    MinBudget = 1
    MaxBudget = 1
INVARIANTS
    SuspendedIsAnswerable
PROPERTIES
    AuthorityRefined
    InterfaceKept
    EveryRunSettles
CHECK_DEADLOCK FALSE
