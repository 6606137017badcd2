SPECIFICATION FairWriteSpec
CONSTANTS
    Nodes = {n1, n2}
    WriteAcceptanceState = "finalized"
    n1 = n1
    n2 = n2
INVARIANTS
    OutcomeIsTrue
PROPERTIES
    Returns
CHECK_DEADLOCK FALSE
