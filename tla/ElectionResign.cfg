SPECIFICATION FairSpec
CONSTANTS
    Node = {1, 2, 3}
    Voters = {1, 2, 3}
    Window = 1
    Lease = 1
    Gossip = 1
    Setups <- Resigns
PROPERTIES
    ResignDrains
