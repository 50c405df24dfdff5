SPECIFICATION Spec
CONSTANTS
  Node = {1, 2}
  InboxCap = 1
  MaxEpoch = 2
  Setups <- Faults
INVARIANTS
  TypeOK
  LeasesExclusiveUnlessReleased
PROPERTIES
  AwardsEpochs
CHECK_DEADLOCK FALSE
VIEW LiveState
