SPECIFICATION LiveSpec
CONSTANTS
    Clients = {c1}
    Closers = {x1}
    Pollers = {q1}
    NoOne = NoOne
    Heads <- TwoHeads
    Kinds = {"head"}
    MaxLifeCycle = 1
    NewHeadsPollInterval = 1
    FinalizedBlockPollInterval = 1
    c1 = c1
    x1 = x1
    q1 = q1
INVARIANTS
    LatestFromCurrentLifeCycle
    RepeatableRead
    SubsUnderControl
PROPERTIES
    CloseTerminates
CHECK_DEADLOCK FALSE
