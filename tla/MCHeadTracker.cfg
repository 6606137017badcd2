SPECIFICATION FairSpec
CONSTANTS
    Configs <- FourConfigs
    TagDepth = 1
    MaxAllowedFinalityDepth = 3
    ForkAt = 1
    Starts <- TwoStarts
    MaxNum = 2
    MaxTrouble = 1
INVARIANTS
    SubscribedOnce
    FinalityHolds
PROPERTIES
    FeedsRisingHeads
    TopArrives
CHECK_DEADLOCK FALSE
