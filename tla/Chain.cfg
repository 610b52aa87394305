SPECIFICATION Spec
CONSTANTS
    a1 = a1
    a2 = a2
    a3 = a3
    a4 = a4
    b1 = b1
    A = A
    B = B
    Tasks <- MCTasks
    Chains = {A, B}
    ChainOf <- MCChainOf
    Layer <- MCLayer
    Agents <- MCAgents
    Gated <- MCGated
    InitialBinding <- MCBinding
    Nobody = nobody
    Id <- MCId
    Targets = {a4, b1}
    Requests = {r1}
    MaxRuns <- MCMaxRuns
    MaxResumes = 1
INVARIANTS
    HoldIsABarrier
    
    RequestActsOnce
PROPERTIES
    FirstRunFollows
CHECK_DEADLOCK FALSE
