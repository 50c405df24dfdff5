SPECIFICATION Spec
CONSTANTS
    Node = {1, 2, 3}
    Voters = {1, 2, 3}
    Window = 1
    Lease = 2
    Gossip = 1
    Setups <- Leases
INVARIANTS
    TypeOK
    S4cGlobal
PROPERTIES
    FenceMonotone
VIEW LiveState
