SPECIFICATION QueueLiveSpec
CONSTANTS
    Sizes = {1, 3}
    Marker = 1
    MaxEvents = 3
    MaxBytes = 5
    BatchEvents = 2
    BatchBytes = 3
    MaxPushes = 4
    MaxFailures = 1
INVARIANTS
    AccountBalances
    StaysBounded
PROPERTIES
    InOrder
    Drains
CHECK_DEADLOCK FALSE
