SPECIFICATION MCSpec
CONSTANTS
  MaxTasks = 3
  MaxCalls = 1
  MaxStatements = 1
  MaxPrompts = 1
  Workers = {"w1", "w2"}
  Sleepers = {"w1"}
  DestOf <- MCDestOf
INVARIANT
  TasksAreAccounted
PROPERTIES
  WaitsForTerminals
  ImplementsDelegation
  EveryTaskTerminates
CHECK_DEADLOCK FALSE
