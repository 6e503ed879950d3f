SPECIFICATION Spec
CONSTANTS
  a1 = a1
  a2 = a2
  b1 = b1
  NoRequest = NoRequest
  AppRequests <- OneApp
  BotRequests <- None
  Resumable <- OneApp
  MaxCrashes = 3
  Steers = FALSE
INVARIANTS
  OneThread
  InputKept
  FirstMessageOnce
  RecordHonest
CHECK_DEADLOCK FALSE
