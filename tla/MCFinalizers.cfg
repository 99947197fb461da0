CONSTANTS
  Machines = {m1}
  Faults <- CachesKeepUp
  MaxFaults = 3
SPECIFICATION FairSpec
INVARIANTS TypeOK OwnersOutliveVM
PROPERTIES MachineDeletionCompletes ClusterDeletionCompletes
CHECK_DEADLOCK FALSE
