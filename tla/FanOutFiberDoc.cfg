SPECIFICATION MCSpec
CONSTANTS
  MaxFibers = 1
  MaxTopLevel = 1
  Calls <- MCCalls
  Outcomes = {"resolve"}
  Jobs = {"pipe"}
  Paths = {"p1", "p2"}
  PathOutcomes = {"resolve"}
PROPERTY
  FanOutEnds
CHECK_DEADLOCK FALSE
