SPECIFICATION Spec
CONSTANTS
    MaxRuns = 3
    MaxGen = 1
    RefundCap = 2
    ExternalCap = 1
    MaxUncapped = 1
    MinBudget = 1
    MaxBudget = 2
INVARIANTS
    TaskHasItsRun
    EveryExtraRunIsPaidFor
    BudgetChecksAgree
CHECK_DEADLOCK FALSE
