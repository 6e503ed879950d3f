SPECIFICATION FairSpec
CONSTANTS
  s1 = s1
  r1 = r1
  r2 = r2
  u1 = u1
  NoRequest = NoRequest
  Sessions <- OneSession
  Requests <- TwoRequests
  Untracked <- None
  SessionOf <- AllForS1
  MaxCrashes = 2
  Repairs = FALSE
INVARIANTS
  TypeOK
  FailedMeansUndelivered
  SentMeansDelivered
  OneAtATime
  DeliveredIsRemembered
PROPERTIES
  Settles
  KeepsPromise
CHECK_DEADLOCK FALSE
