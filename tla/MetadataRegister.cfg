SPECIFICATION FairSpec
CONSTANTS
  Node = {1, 2, 3}
  Value = {v1, v2}
  NoValue = none
  MaxVersion = 2
  Restartable = {1}
INVARIANTS
  TypeOK
  StampNamesValue
PROPERTIES
  NeverBack
  StampsConverge
