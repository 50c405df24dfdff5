SPECIFICATION Spec
CONSTANTS
    Node = {1, 2, 3}
    Voters = {1, 2, 3}
    Window = 1
    Lease = 1
    Gossip = 1
    Setups <- Crashes
INVARIANTS
    S1Strict
    OneGrantPerEpoch
    
    PublishedIsDurable
VIEW LiveState
