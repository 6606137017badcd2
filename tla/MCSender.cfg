SPECIFICATION LiveSpec
CONSTANTS
    Calls = {a}
    Primaries = {n1, n2, n3}
    SendOnlys = {s1}
    Outcomes = {"Successful", "Fatal", "Retryable"}
    a = a
    n1 = n1
    n2 = n2
    n3 = n3
    s1 = s1
INVARIANTS
    AnswerIsEarned
    ReportsAreTrue
    CloseLeavesNothing
PROPERTIES
    CallsEnd
CHECK_DEADLOCK FALSE
