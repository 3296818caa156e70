CONSTANTS
    g = g a1 = a1 a2 = a2 a3 = a3 b1 = b1 b2 = b2 none = none
    Blocks = {g, a1, a2, b1, b2}
    Genesis = g
    NoBlock = none
    Parent <- ForkParent
    Work <- HeightWork
    Fault <- NoFault
    Headers = {g, a1, b1}
    AddrOrders <- OneOrder
    MinBlocksToKeep = 1
    MinimumChainWork = 0
    PruneMode = FALSE
    MaxSeq = 6
    CanInvalidate = {a1, a2}
    CanReconsider = {a1, a2}
    CanPrecious = {b2}
    MaxCalls = 3
    MaxRestarts = 0
SPECIFICATION Spec
INVARIANTS CandidatesComplete FailureHasCause ActiveChainValid
CHECK_DEADLOCK FALSE
