SPECIFICATION Spec
CONSTANTS
  r1 = r1
  r2 = r2
  Reqs <- TwoReqs
  Callers <- OwnDevice
  Allow <- OwnAllow
  Calls <- JobCalls
  MaxStarts = 1
  MaxPanics = 0
CHECK_DEADLOCK FALSE
INVARIANT EveryActionRecorded
