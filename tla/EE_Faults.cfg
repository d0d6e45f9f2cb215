CONSTANTS
    v1 = v1
    v2 = v2
    c1 = c1
    c2 = c2
    Validator = {v1, v2}
    Cert = {c1, c2}
    Shared = {c2}
    Quorum <- Heavy
    Calls <- OwnCert
    MaxCommit = 1
    MaxLog = 3
    MaxFaults = 1
SPECIFICATION Spec
CHECK_DEADLOCK FALSE
INVARIANTS
    NoCertAfterEndOfPublish
    SameOutput
    NoSharedRevert
    ExecutedIsTracked
    EffectsQuorumFinal
