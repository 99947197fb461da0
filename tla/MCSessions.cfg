CONSTANTS
  w1 = w1
  w2 = w2
  w3 = w3
  Workers = {w1, w2, w3}
  CloudName <- TwoClouds
  Identity <- OwnIdentities
  MaxSessions = 3
  Faults <- FaultKinds
  MaxFaults = 2
SPECIFICATION FairSpec
INVARIANTS TypeOK SharedWithinCloud
PROPERTIES SettledStays 
CHECK_DEADLOCK FALSE
