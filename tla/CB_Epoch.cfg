CONSTANTS
    v1 = v1
    v2 = v2
    Validator = {v1, v2}
    Tx = {2, 3, 4, 5, 6, 7}
    Prologue <- MCPrologue
    Old = {0}
    Deps <- MCDeps
    Readers <- MCReaders
    Shared = {2, 4, 5, 6, 7}
    Chunks <- MCChunks
    Size <- MCSize
    MaxTx = 2
    MaxSize = 2
    Logs <- MCLogs
    Later <- MCLater
    MaxCrashes <- MCMaxCrashes
    ADVANCE = ADVANCE
SPECIFICATION FairSpec
CHECK_DEADLOCK FALSE
INVARIANTS
    NoFork
    ExactlyOnce
    HistoryIsCausal
    LastIsComplete
    SignedIsScheduled
PROPERTIES
    EpochCompletes
