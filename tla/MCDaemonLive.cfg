SPECIFICATION FairSpec
CONSTANTS
  r1 = r1
  r2 = r2
  Reqs <- TwoReqs
  Callers <- OwnDevice
  Allow <- OwnAllow
  Calls <- AllCalls
  MaxStarts = 1
  MaxPanics = 0
CHECK_DEADLOCK FALSE
PROPERTY InputNotBlockedByClipboard
PROPERTY ClipboardAnswered
PROPERTY ShutdownCompletes
