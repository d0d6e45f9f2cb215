CONSTANTS
    v1 = v1
    v2 = v2
    v3 = v3
    a = a
    c = c
    Validator = {v1, v2, v3}
    Tx = {a, c}
    Ref <- Refs
    Genesis = {"gas"}
    Inputs <- Spends
    Outputs <- Writes
    Quorum <- HonestQuorums
    Absent = Absent
    NoTx = NoTx
    Requests <- Clients
    Crashing = {v1}
    MaxCalls <- CallBounds
    MaxEpoch = 1
SPECIFICATION Spec
CHECK_DEADLOCK FALSE
PROPERTY
    LedgerSpec
INVARIANTS
    TypeOK
    NoEquivocation
    CertifiedEffectsSurvive
