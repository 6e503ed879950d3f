SPECIFICATION Spec
CONSTANTS
  Turns <- TwoTurns
  Answer <- Two
  Kinds <- Finals
  Streamed = TRUE
  Ends <- AllEnds
  Markdown = FALSE
  MaxQueue = 3
  MaxNotes = 1
  MaxFaults = 1
INVARIANTS NotifiedOnce AnswerShown EndAnnounced
CHECK_DEADLOCK FALSE
