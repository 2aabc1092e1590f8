SPECIFICATION MCSpec
CONSTANTS
  Lanes <- MCLanes
  Keys = {"k1", "k2"}
  MaxFaults = 0
  Answers = {"a", "b"}
  Programs <- Paths
  Microtasks = TRUE
  Parts = {"replay"}
  MaxTime = 0
  MaxRows = 0
  MaxBatch = 0
INVARIANT EveryRecordingReplays
CHECK_DEADLOCK FALSE
