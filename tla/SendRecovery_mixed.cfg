SPECIFICATION Spec
CONSTANTS
  s1 = s1
  r1 = r1
  r2 = r2
  u1 = u1
  NoRequest = NoRequest
  Sessions <- OneSession
  Requests <- OneRequest
  Untracked <- OneUntracked
  SessionOf <- AllForS1
  MaxCrashes = 1
  Repairs = TRUE
INVARIANT AtMostOnce
CHECK_DEADLOCK FALSE
