CONSTANTS
  m1 = m1
  m2 = m2
  Machines = {m1, m2}
  Faults = {}
  MaxFaults = 0
SPECIFICATION FairSpec
PROPERTY TriggerReleased
CHECK_DEADLOCK FALSE
