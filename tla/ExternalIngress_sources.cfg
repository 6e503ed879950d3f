SPECIFICATION Spec
CHECK_DEADLOCK FALSE
CONSTANTS
  LastTurn = 1
  Modes = {"cli", "app"}
  Talks = {1}
  Overlap = TRUE
  MaxLost = 1
INVARIANT OneSequence
INVARIANT EndTold
INVARIANT LedgerOver
