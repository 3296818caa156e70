CONSTANTS
    g = g a1 = a1 b1 = b1 b2 = b2 none = none
    Blocks = {g, a1, b1, b2}
    Genesis = g
    NoBlock = none
    Parent <- TreeParent
    StartTips = {a1}
    MaxMoves = 0
    MaxFlushes = 0
    MaxStops = 1
    MaxQueries = 0
SPECIFICATION Spec
INVARIANT BestIsInSync
CHECK_DEADLOCK FALSE
