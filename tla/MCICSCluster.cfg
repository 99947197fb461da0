CONSTANTS
  m1 = m1
  m2 = m2
  Machines = {m1, m2}
  Faults <- AnyFailure
  MaxFaults = 2
SPECIFICATION FairSpec
INVARIANT TypeOK KubeconfigAgrees
PROPERTIES EndpointStable OnlineNoticed ConfigsSynced
CHECK_DEADLOCK FALSE
