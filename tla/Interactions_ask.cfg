CHECK_DEADLOCK FALSE
SPECIFICATION Spec
CONSTANTS
  q1 = q1
  NoId = NoId
  Providers <- Both
  Approvals <- TwoApprovals
  Questions <- OneQuestion
  Parts <- TwoParts
  Decisions <- Always
  AtOnce = 1
  MaxAhead = 1
  Drift = FALSE
INVARIANTS
  AttentionTrueUnlessLate
  NothingLeft
