SPECIFICATION Spec
CONSTANTS
    t1 = t1
    t2 = t2
    p1 = p1
    p2 = p2
    wallet = wallet
    peers = peers
    Main = Main
    Threads = {t1, t2}
    Producers = {p1}
    Listeners = {wallet, peers}
    Residents = {wallet}
    MaxEvents = 2
    MaxSyncs = 1
    MaxSignals = 1
    MaxEntries = 3
INVARIANTS DeliveredInOrder CountsExact OneCallbackAtATime QueueAttended SyncMeansDelivered FlushedAtShutdown
PROPERTIES EventuallyDelivered
