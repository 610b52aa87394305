SPECIFICATION LiveSpec
CONSTANTS
  cp = cp
  rh = rh
  a1 = a1
  a2 = a2
  m1 = m1
  Nobody = Nobody
  Hosts = {cp}
  ControlPlane = cp
  AgentRuns = {a1}
  MergeRuns = {m1}
  HostOf <- MCHostOfOne
  Budget = 1
  AlertEvery = 1
  Deadline = 2
  MaxAttempts = 2
  NoticeMayStall = FALSE
INVARIANTS
    BarrierShutsDispatch
    RowHasOwner
    
PROPERTIES
    HalfAppliedIsFenced
    WaitsEnd
