SPECIFICATION FairSpec
CONSTANTS
  N = 2
  Signals = {0}
  MaxAttempts = 2
  MaxInFlight = 1
  MaxTrouble = 2
INVARIANTS
    AttemptsInOrder
    CheckedMatchesCount
    PurgesAreKnown
PROPERTIES
    Settles
CHECK_DEADLOCK FALSE
