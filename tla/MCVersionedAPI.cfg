CONSTANTS
  CloneSpecs <- UsualAndOdd
  Groups <- Together
  MaxEdits = 2
  MaxCrashes = 1
  None = None
SPECIFICATION FairSpec
INVARIANTS TypeOK HeldIsStored VMOfUpdatableMachine ClonesAgree
PROPERTIES VMFollowsMachine ProviderIDStored
CHECK_DEADLOCK FALSE
