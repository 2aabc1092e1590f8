SPECIFICATION MCSpec
CONSTANTS
  MaxTasks = 3
  MaxCalls = 1
  MaxStatements = 1
  MaxPrompts = 1
  Workers = {"w1", "w2"}
  Sleepers = {}
  DestOf <- MCDestOf
INVARIANT
  ReactionsAreSerial
CHECK_DEADLOCK FALSE
