SPECIFICATION MCSpec
CONSTANTS
  Lanes <- MCLanes
  Keys = {"k1", "k2"}
  MaxFaults = 1
  Answers = {"a", "b"}
  Programs <- MCPrograms
  Microtasks = FALSE
  Parts = {"replay", "times"}
  MaxTime = 3
  MaxRows = 4
  MaxBatch = 2
INVARIANTS
  DriversAreReleased
  ReplayIsFaithful
  SequentialRunsReplay
  LedgerRestores
CHECK_DEADLOCK FALSE
