SPECIFICATION LiveSpec
CONSTANTS
    n1 = n1
    n2 = n2
    Nodes <- TwoNodes
    Order <- SameOrder
    Work <- OneWithoutWork
    LoadBalanced = {}
    Users = {u1, u2}
    Lease = lease
    NoOne = NoOne
    Setups <- LiveSetups
    EnforceRepeatableRead = TRUE
    FinalityTagEnabled = TRUE
    FinalizedBlockOffset = 0
    FinalityDepth = 1
    MaxBlock = 0
    CounterSize = 3
    lease = lease
    u1 = u1
    u2 = u2
PROPERTIES
    SelectReturns
    LeaseConverges
    RotationServesAll
CHECK_DEADLOCK FALSE
