SPECIFICATION Spec
CONSTANTS
    Parts = {"lease", "replay", "admission"}
    LeaseSetups <- SmallLeases
    ReplaySetups <- SmallReplays
    AdmissionSetups <- SmallAdmissions
INVARIANTS
    
    WaitIsBounded
    ServesCurrent

    
CHECK_DEADLOCK FALSE
