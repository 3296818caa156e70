CONSTANTS
    g = g a1 = a1 b1 = b1 b2 = b2 none = none
    Blocks = {g, a1, b1, b2}
    Genesis = g
    NoBlock = none
    Parent <- TreeParent
    StartTips = {none, a1}
    MaxMoves = 2
    MaxFlushes = 1
    MaxStops = 2
    MaxQueries = 1
SPECIFICATION Spec
INVARIANTS IndexExact StaleFiltersKept NeverFatal SyncedMeansIndexed
PROPERTIES CatchesUp
CHECK_DEADLOCK FALSE
