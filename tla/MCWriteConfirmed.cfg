SPECIFICATION WriteSpec
CONSTANTS
    Nodes = {n1, n2}
    WriteAcceptanceState = "finalized"
    n1 = n1
    n2 = n2
INVARIANT ConfirmedIsWritten
CHECK_DEADLOCK FALSE
