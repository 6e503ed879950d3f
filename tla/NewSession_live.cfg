SPECIFICATION FairSpec
CONSTANTS
  a1 = a1
  a2 = a2
  b1 = b1
  NoRequest = NoRequest
  AppRequests <- OneApp
  BotRequests <- OneBot
  Resumable <- None
  MaxCrashes = 0
  Steers = FALSE
PROPERTY TasksEnd
CHECK_DEADLOCK FALSE
