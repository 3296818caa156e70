CONSTANTS
    Peers = {h, e}
    NoPeer = NoPeer
    Honest = {h}
    Outbound = {h, e}
    NoBan = {}
    Blocks <- MCBlocks
    Genesis = "0"
    NoBlock = NoBlock
    Parent <- MCParent
    Announces <- MCAnnounces
    Sends <- MCSends
    Recent = {"1", "2", "2x", "3"}
    Fresh = {"1", "2", "2x", "3"}
    Window = 2
    CompactDepth = 1
    MaxInTransit = 2
    MaxProtect = 1
    MaxConnects = 1
SPECIFICATION Spec
INVARIANTS InFlightExact RequestsUseful StallersHold CommonDownloaded
PROPERTIES CatchesUp
