SPECIFICATION FairSpec
CONSTANTS
  Node = {1, 2, 3}
  Author = 1
  Setups <- Repairs
INVARIANTS
  TypeOK
  HighWaterCovers
  
PROPERTIES
  AuthoredKept
  Converges
