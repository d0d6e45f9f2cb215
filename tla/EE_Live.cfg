CONSTANTS
    v1 = v1
    v2 = v2
    c1 = c1
    c2 = c2
    Validator = {v1, v2}
    Cert = {c1}
    Shared = {}
    Quorum <- Majorities
    Calls <- SameCert
    MaxCommit = 1
    MaxLog = 6
    MaxFaults = 0
SPECIFICATION FairSpec
CHECK_DEADLOCK FALSE
INVARIANTS
    TypeOK
PROPERTIES
    EpochEnds
