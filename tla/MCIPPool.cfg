CONSTANTS
  VMs = {v1, v2}
  Cidrs <- SmallRange
  Statics <- SmallStatic
  Nameable <- AllNames
  Further = {v1}
  Faults <- FaultKinds
  MaxFaults = 1
  Nobody = Nobody
  NoAddr = NoAddr
  NilAddr = NilAddr
  v1 = v1
  v2 = v2
SPECIFICATION FairSpec
INVARIANTS TypeOK AddressUnique AddressHeld
PROPERTIES AddressesReturn
CHECK_DEADLOCK FALSE
