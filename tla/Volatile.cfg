\* Small instances of the volatile index.  Each part may come to rest.
CONSTANTS
    Parts = {"transfer", "claims", "recovery"}
    TransferSetups <- SmallTransfers
    ClaimSetups <- SmallClaims
    RecoverySetups <- SmallRecoveries
SPECIFICATION FairSpec
INVARIANTS
    VolatileIsWhole
PROPERTIES
    
    VolatileSettles
CHECK_DEADLOCK FALSE
