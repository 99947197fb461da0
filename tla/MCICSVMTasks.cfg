CONSTANTS
  MaxTasks = 5
  MaxFaults = 1
  Faults <- TaskKeepingFaults
  ControlPlane = TRUE
  FurtherStatic = TRUE
  StaticIP = TRUE
SPECIFICATION Spec
INVARIANTS TypeOK OneTaskInFlight
CHECK_DEADLOCK FALSE
