CHECK_DEADLOCK FALSE
SPECIFICATION FairSpec
CONSTANTS
  s1 = s1
  s2 = s2
  hi = hi
  go = go
  NoTurn = NoTurn
  AdHoc = AdHoc
  Sends <- TwoSends
  Prompts <- TwoPrompts
  Texts <- OneText
  Quiet = 1
  Tools = 1
  MaxTurns = 3
INVARIANTS
  CancelMeant
  TerminalToldApart
PROPERTY SendsEnd
