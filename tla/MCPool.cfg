SPECIFICATION Spec
CONSTANTS
    n1 = n1
    n2 = n2
    Nodes <- TwoNodes
    Order <- SameOrder
    Work <- OneWithoutWork
    LoadBalanced = {}
    Users = {u1, u2}
    Lease = lease
    NoOne = NoOne
    Setups <- ReadSetups
    EnforceRepeatableRead = TRUE
    FinalityTagEnabled = FALSE
    FinalizedBlockOffset = 0
    FinalityDepth = 0
    MaxBlock = 1
    CounterSize = 2
    lease = lease
    u1 = u1
    u2 = u2
PROPERTIES
    RepeatableRead
CHECK_DEADLOCK FALSE
