\* The tick and two completions or sweeps of one Chain, an outside holder, crashes.
CONSTANTS
    Chains = {c1}
    Handlers = {h1, h2}
    Tick = tick
    Outside = outside
    MayCrash = TRUE
    MaxSha = 2
    MaxRuns = 2
    MaxEvents = 2
SYMMETRY Symmetry
SPECIFICATION Spec
INVARIANTS
    LeaseIsAnsweredFor
PROPERTIES
    ReleaseTakesOnlyItsOwn
    SettledStaysSettled
CHECK_DEADLOCK FALSE
