SPECIFICATION Spec
CONSTANTS
  Opens = {1, 2}
  Timely = TRUE
  NoOp = NoOp
  Regions = {"A", "B"}
  Ops = {"store", "store2"}
  OpRegion <- FreshOpRegion
  OpKind <- MCOpKind
  OpenSession <- FreshOpenSession
  OpSession <- FreshOpSession
  MaxFaults = 0
  MaxRevision = 7
INVARIANT DurableSurvivesRestart
CHECK_DEADLOCK FALSE
