SPECIFICATION FairSpec
CONSTANTS
  Addrs = {a}
  NoAddr = none
  MaxTrouble = 2
  MaxHead = 1
INVARIANTS
    ResetsInStep
    ClosedMeansStopped
PROPERTIES
    SentIsKept
    CallsReturn
CHECK_DEADLOCK FALSE
