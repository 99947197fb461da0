CONSTANTS
  MaxTasks = 4
  MaxFaults = 1
  Faults = {"task"}
  ControlPlane = FALSE
  FurtherStatic = FALSE
  StaticIP = FALSE
SPECIFICATION Spec
INVARIANTS NoConcurrentClones
CHECK_DEADLOCK FALSE
