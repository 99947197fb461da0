CONSTANTS
  MaxVMs = 2
  MaxFaults = 1
  Faults <- WholeFaults
SPECIFICATION FairSpec
INVARIANTS TypeOK ReadyIsComplete
PROPERTIES Converges
CHECK_DEADLOCK FALSE
