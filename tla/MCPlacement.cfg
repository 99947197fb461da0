CONSTANTS
  Hosts = {h1, h2}
  VMs = {v1, v2}
  NoHost = NoHost
  Inventories <- AllInventories
  MaxFaults = 1
SPECIFICATION FairSpec
INVARIANTS TypeOK HostReachesAll 
PROPERTIES AllProvisioned
CHECK_DEADLOCK FALSE
