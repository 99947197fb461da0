CONSTANTS
  MaxTasks = 10
  MaxFaults = 1
  Faults <- RecoveredFaults
  ControlPlane = TRUE
  FurtherStatic = TRUE
  StaticIP = FALSE
SPECIFICATION FairSpec
PROPERTIES DeletionCompletes BecomesReady
CHECK_DEADLOCK FALSE
