CONSTANTS
  MaxTasks = 7
  MaxFaults = 2
  Faults <- WorkerFaults
  ControlPlane = FALSE
  FurtherStatic = TRUE
  StaticIP = FALSE
SPECIFICATION Spec
INVARIANTS OneVM NoOrphan
CHECK_DEADLOCK FALSE
PROPERTIES ReadyIsHonest PublishesByContract
