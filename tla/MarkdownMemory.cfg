SPECIFICATION Spec
CONSTANTS
  Opens = {1, 2, 3}
  Timely = FALSE
  NoOp = NoOp
  Regions = {"A"}
  Ops = {"store", "forget"}
  OpRegion <- MCOpRegion
  OpKind <- MCOpKind
  OpenSession <- MCOpenSession
  OpSession <- MCOpSession
  MaxFaults = 2
  MaxRevision = 6
INVARIANTS
  LeaseGuardsCopy
  ReportedIsOnDisk
PROPERTY
  ImplementsNamedMemory
CHECK_DEADLOCK FALSE
