SPECIFICATION FairSpec
CONSTANTS
  Txs = {t1, t2}
  NoTx = NoTx
  Signals = {t1}
  MaxInFlight = 1
  GiveUp = TRUE
  ChainType = "hedera"
  AutoSync = TRUE
  MaxRetries = 1
  MaxFaults = 2
  MaxRestarts = 1
INVARIANTS
    StoreInOrder
    SequencesSpentOnce
    ErroredPipelineIsRare
    WakeupKept
PROPERTIES
    HandsOutSequences
    MonitorProgresses
CHECK_DEADLOCK FALSE
