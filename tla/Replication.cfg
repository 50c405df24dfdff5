SPECIFICATION FairSpec
CONSTANTS
    Parts = {"subscription", "wait_named", "snapshot"}
    SubscriptionSetups <- SmallSubscriptions
    WaitSetups <- SmallWaits
    SnapshotSetups <- SmallSnapshots
INVARIANTS
    DeliveredExactly
    WaitsAreTrue
    SnapshotsWhole
PROPERTIES
    ReplicationSettles
CHECK_DEADLOCK FALSE
