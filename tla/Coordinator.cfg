SPECIFICATION MCSpec
CONSTANTS
  NoOp = NoOp
  Regions = {"A", "B"}
  Ops = {"store1", "store2", "storeB", "forget"}
  Recalls = {"recallA"}
  Closes = {"closeA"}
  Snapshots = {"snapshot"}
  OpRegion <- MCOpRegion
  OpKind <- MCOpKind
  CallRegion <- MCCallRegion
  Registered <- MCRegistered
  Faults = {"prepare", "prepareAck", "status", "append", "abort", "finalize", "finalizeAck", "reconcile", "reconcileAck", "recall", "rank"}
  MaxFaults = 2
  MaxAttempts = 2
INVARIANTS
  TypeOK
  RegionSerial
  CommitsForGood
  ReportsAreTrue
  ConsultsOnlyCommitted
  BarrierSettles
PROPERTIES
  SnapshotComplete
  ImplementsNamedMemory
CHECK_DEADLOCK FALSE
