SPECIFICATION FairBroadcasterSpec
CONSTANTS
    Subscribers = {s1, s2}
    HeadsBufferSize = 2
    MaxHeight = 2
    s1 = s1
    s2 = s2
INVARIANTS
    NoneMissed
PROPERTIES
    ToldRises
    HeadsArrive
CHECK_DEADLOCK FALSE
