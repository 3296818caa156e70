CONSTANTS
    g = g a1 = a1 a2 = a2 a3 = a3 b1 = b1 b2 = b2 none = none
    Blocks = {g, a1, a2, a3, b1, b2}
    Genesis = g
    NoBlock = none
    Parent <- LongParent
    Work <- HeavyWork
    Fault <- NoFault
    Headers = {g, a1, a2, a3, b1, b2}
    AddrOrders <- OneOrder
    MinBlocksToKeep = 1
    MinimumChainWork = 0
    PruneMode = TRUE
    MaxSeq = 6
    CanInvalidate = {a1}
    CanReconsider <- NoBlocks
    CanPrecious <- NoBlocks
    MaxCalls = 1
    MaxRestarts = 1
SPECIFICATION Spec
CONSTRAINT StopsAfterCall
INVARIANTS UnlinkedExact SomeCandidate
CHECK_DEADLOCK FALSE
