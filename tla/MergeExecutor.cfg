SPECIFICATION Spec
CONSTANTS
  MaxRuns = 2
  MaxAuths = 2
  MaxHeads = 2
  MaxBranch = 2
  MaxChanges = 2
  PollAttempts = 1
  Sends = 2
INVARIANTS
    MergedIsTrue
    
    OwnMergeIsRecognised

    
CHECK_DEADLOCK FALSE
