CONSTANTS
    MaxSeq = 3
    EpochOf <- MCEpochOf
    MaxDownloads = 2
    MaxExecutions = 2
    MaxFaults = 2
SPECIFICATION FairSpec
CHECK_DEADLOCK FALSE
INVARIANTS
    SyncedIsComplete
    ExecutorInStep
PROPERTIES
    WatermarksAdvance
    CatchesUp
