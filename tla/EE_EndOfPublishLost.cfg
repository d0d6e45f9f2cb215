CONSTANTS
    v1 = v1
    v2 = v2
    c1 = c1
    c2 = c2
    Validator = {v1, v2}
    Cert = {c1}
    Shared = {}
    Quorum <- Heavy
    Calls <- SameCert
    MaxCommit = 2
    MaxLog = 3
    MaxFaults = 1
SPECIFICATION Spec
CHECK_DEADLOCK FALSE
INVARIANTS
    EndOfPublishKept
