SPECIFICATION AttemptLiveSpec
CONSTANTS
  p1 = p1
  p2 = p2
  api = api
  runner = runner
  Free = free
  Dead = dead
  Procs = {p1, p2}
  Units = {api, runner}
  Last = 3
  RetryCap = 2
  MaxCrashes = 1
  FailsTwice = FALSE
INVARIANTS
    
    
    
    HostOK
PROPERTIES
    TransientIsRetried
