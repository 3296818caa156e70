CONSTANTS
    g = g c = c a1 = a1 a2 = a2 b1 = b1 none = none
    o1 = o1 o2 = o2 o3 = o3 o4 = o4 o5 = o5
    Blocks = {g, c, a1, a2, b1}
    Genesis = g
    NoBlock = none
    Parent <- TreeParent
    Outpoints = {o1, o2, o3, o4, o5}
    Spends <- TreeSpends
    Creates <- TreeCreates
    MinBlocksToKeep = 1
    PruneMode = TRUE
    Fits <- FilesOfThree
    MaxFlushes = 2
    MaxCrashes = 2
SPECIFICATION Spec
INVARIANTS AllBacked
CHECK_DEADLOCK FALSE
