SPECIFICATION ConnectionSpec
CONSTANTS
  Asks = {}
  Lists = {}
  Id <- Nobody
  Verdicts = {}
  Calls <- TwoCalls
  MaxAdapters = 3
  MaxFaults = 2
INVARIANT ConnectionKept
PROPERTY CallsEnd
CHECK_DEADLOCK FALSE
