CONSTANTS
    g = g a1 = a1 a2 = a2 a3 = a3 b1 = b1 b2 = b2 none = none
    Blocks = {g, a1, a2, a3, b1, b2}
    Genesis = g
    NoBlock = none
    Parent <- LongParent
    Work <- HeightWork
    Fault <- Faults
    Headers = {g}
    AddrOrders <- Orders
    MinBlocksToKeep = 1
    MinimumChainWork = 0
    PruneMode = FALSE
    MaxSeq = 8
    CanInvalidate <- NoBlocks
    CanReconsider <- NoBlocks
    CanPrecious <- NoBlocks
    MaxCalls = 0
    MaxRestarts = 1
SPECIFICATION FairSpec
INVARIANTS LinkedIffDownloaded CandidatesSound TipIsBest
PROPERTIES NoBackwardRound ActivationSettles
CHECK_DEADLOCK FALSE
