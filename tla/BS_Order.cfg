CONSTANTS
    Validator <- MCValidator
    First = 1
    Authority <- MCAuthority
    Stake <- MCStake
    Dags <- MCDags
    BaseLeader <- MCBaseLeader
    Choice <- MCChoice
    LastRound = 7
    GcDepth = 3
    SubDagsPerSchedule = 2
    BadNodesThreshold = 33
    MaxChannel = 1
    MaxCrashes <- MCMaxCrashes
SPECIFICATION Spec
CHECK_DEADLOCK FALSE
INVARIANTS
    Agreement
    CommittedOnce
    DagIsClosed
    ExecutedInOrder
