SPECIFICATION ProxySpec
CONSTANTS
  Asks <- TwoRequests
  Lists <- OneList
  Id <- Apart
  Verdicts <- Allow
  Calls = {}
  MaxAdapters = 1
  MaxFaults = 0
INVARIANTS FirstDecides
PROPERTY DecisionEnds
CHECK_DEADLOCK FALSE
