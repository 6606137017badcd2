SPECIFICATION LiveSpec
CONSTANTS
    Slots = {s1, s2}
    VerifyChainID = TRUE
    NodeIsSyncingEnabled = TRUE
    FinalityTagEnabled = TRUE
    HasPool = TRUE
    IsLoadBalancedRPC = FALSE
    SelectionMode = "HighestHead"
    SyncThreshold = 5
    PollFailureThreshold = 1
    PollSuccessThreshold = 1
    FinalizedStateCheckFailureThreshold = 1
    MaxFailures = 1
INVARIANTS
    Driven
    NoFsmPanic
    AliveIsVerified
    NothingLeaks
PROPERTIES
    LoopsProgress
CHECK_DEADLOCK FALSE
