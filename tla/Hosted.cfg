SPECIFICATION EitherSpec
CONSTANTS
  Parts = {"hosted", "handoff"}
  Node = {1, 2, 3}
  Setups <- SmallHosted
  HandoffSetups <- SmallHandoffs
INVARIANTS
  CommittedIsKept
  ReadingsOrdered
  InstallsWhole
PROPERTIES
  
  Recovers
CHECK_DEADLOCK FALSE
