SPECIFICATION Spec
CONSTANTS
  s1 = s1
  Sessions <- OneSession
  Workspace = workspace
  Agent = agent
  LegacyKey = legacy
  CanonicalKey = canonical
  Ways <- Both
  MaxTopics = 3
  MaxFaults = 3
CHECK_DEADLOCK FALSE
INVARIANT TopicsKept
PROPERTY NeverRevived
