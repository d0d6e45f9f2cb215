CONSTANTS
    N = 4
    x1 = x1
    Version = {x1}
    Inputs <- MCInputs
SPECIFICATION FairSpec
CHECK_DEADLOCK FALSE
INVARIANTS
    CausallySorted
    Partition
    SearchOrder
PROPERTIES
    Returns
