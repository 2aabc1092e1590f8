SPECIFICATION MCSpec
CONSTANTS
  MaxFibers = 4
  MaxTopLevel = 2
  Calls <- MCCalls
  Outcomes = {"resolve", "reject", "throw", "fault"}
  Jobs = {"deliveries", "pipe"}
  Paths = {"p1", "p2", "p3"}
  PathOutcomes = {"resolve", "reject", "throw"}
INVARIANTS
  TurnsInOrder
  ResultsInIssueOrder
PROPERTIES
  QueuedDeliveriesEnd
  ImplementsTurnQueue
  TopLevelFanOutEnds
CHECK_DEADLOCK FALSE
