------------------------------ MODULE IndexSync ------------------------------
(***************************************************************************)
(* An optional index of the blocks of the active chain (index/base.cpp,    *)
(* with the entries of index/blockfilterindex.cpp): the thread that brings *)
(* it up to date, the validation events that take over from there, the     *)
(* locator in its database, and crashes.                                   *)
(*                                                                         *)
(* The chain moves under cs_main and queues its events there, in order     *)
(* (ValidationQueue shows that they are delivered in that order, one at a  *)
(* time).  Filters lie in a file, at positions; the database has an entry  *)
(* for each height and, for blocks that were reorganised away, for each    *)
(* block.                                                                  *)
(***************************************************************************)
EXTENDS Integers, FiniteSets, Sequences

CONSTANTS
    Blocks, Genesis,
    NoBlock,      \* nullptr
    Parent,       \* [Blocks -> Blocks \cup {NoBlock}], pprev
    StartTips,    \* tips of the chain when the index is first switched on
    MaxMoves,     \* bound on the moves of the chain
    MaxFlushes,   \* bound on the flushes of the chain state
    MaxStops,     \* bound on crashes and shutdowns
    MaxQueries    \* bound on BlockUntilSyncedToCurrentChain

\* The blocks are a tree above the genesis block.
ASSUME IndexSyncAssumption ==
    /\ IsFiniteSet(Blocks) /\ NoBlock \notin Blocks /\ Genesis \in Blocks
    /\ Parent \in [Blocks -> Blocks \cup {NoBlock}]
    /\ \A b \in Blocks : Parent[b] = NoBlock <=> b = Genesis
    /\ \A S \in SUBSET Blocks : S # {} => \E b \in S : Parent[b] \notin S
    /\ StartTips \subseteq Blocks \cup {NoBlock}

VARIABLES
    tip, diskTip,  \* m_chain.Tip() and the best block of the coins database
    queue,         \* validation events not yet delivered
    best,          \* m_best_block_index
    synced,        \* m_synced
    interrupted,   \* m_interrupt, set by Shutdown
    pindex, pc,    \* ThreadSync's local variable, and where it is
    timed,         \* its last_locator_write_time is set
    batchPos, batchBest,  \* what its last Commit has read of pos and of best
    event, hpc,    \* the callback under way, and where it is
    locator,       \* DB_BEST_BLOCK: the first block of the locator
    pos, dbPos,    \* m_next_filter_pos and DB_FILTER_POS
    file,          \* the block whose filter is written at each position
    heightIdx,     \* DBHeightKey: the block at each height, and its position
    hashIdx,       \* DBHashKey: the position of each block
    fatal,         \* FatalError has been called
    left,          \* blocks that Rewind has left behind
    ahead,         \* blocks the locator named when Init began below them
    early,         \* blocks the database names though its position leaves them out
    gap,           \* such blocks at the time of a crash
    moves, flushes, stops, queries

chain == <<tip, diskTip, queue>>
batch == <<batchPos, batchBest>>
memory == <<best, synced, interrupted, pindex, pc, timed, batch, event, hpc, pos, fatal>>
disk == <<locator, dbPos, file, heightIdx, hashIdx>>
counts == <<moves, flushes, stops, queries>>
history == <<left, ahead, early, gap>>
vars == <<chain, memory, disk, history, counts>>

-----------------------------------------------------------------------------
\* A block and its ancestors: what every set has that has the block and, with a block, its
\* parent.  None for nullptr, whose height counts as -1.
HasParents(S) == \A b \in S : Parent[b] \in S \cup {NoBlock}
Path == [b \in Blocks \cup {NoBlock} |->
    IF b = NoBlock THEN {}
    ELSE {a \in Blocks : \A S \in SUBSET Blocks : b \in S /\ HasParents(S) => a \in S}]
Height(b) == Cardinality(Path[b]) - 1
Heights == 0..(Cardinality(Blocks) - 1)

\* The last block of S, a set of blocks of one chain (nullptr if there is none).
Last(S) == IF S = {} THEN NoBlock ELSE CHOOSE b \in S : S \subseteq Path[b]

\* CChain::FindFork; and FindForkInGlobalIndex, whose locator names the last ten
\* blocks one by one: more than the trees of the model have.
FindFork(b, t) == Last(Path[b] \cap Path[t])

\* CChain::Next on the chain of t: the block above f, which may be nullptr.
Above(f, t) ==
    IF f = t THEN NoBlock ELSE CHOOSE b \in Path[t] : Parent[b] = f

NextSyncBlockByHeight(p) ==
    IF Height(p) < Height(tip) THEN CHOOSE b \in Path[tip] : Height(b) = Height(p) + 1
    ELSE NoBlock
NextSyncBlock(p) == Above(FindFork(p, tip), tip)

None == [block |-> NoBlock, pos |-> 0]

\* The events of blocks S of one chain, from the lowest to the highest.
Connected(S) ==
    LET low == CHOOSE f \in {Parent[b] : b \in S} : f \notin S
    IN  [i \in 1..Cardinality(S) |->
            [type |-> "connected",
             block |-> CHOOSE b \in S : Height(b) = Height(low) + i]]

-----------------------------------------------------------------------------
\* BaseIndex::Init and BlockFilterIndex::Init, on a chain with tip t.
IndexInit(t) ==
    /\ tip' = t /\ diskTip' = t /\ queue' = <<>>
    /\ best' = FindFork(locator, t)
    /\ synced' = (best' = t)
    /\ pindex' = best'
    /\ pc' = IF best' = t THEN "done" ELSE "loop"
    /\ timed' = FALSE
    /\ interrupted' = FALSE /\ fatal' = FALSE
    /\ batchPos' = 1 /\ batchBest' = NoBlock
    /\ event' = NoBlock /\ hpc' = "idle"
    /\ pos' = dbPos
    /\ gap' = gap \cup early /\ early' = {}
    /\ ahead' = Path[locator] \ Path[t]

Init ==
    /\ tip \in StartTips /\ diskTip = tip /\ queue = <<>>
    /\ best = NoBlock /\ synced = (tip = NoBlock) /\ interrupted = FALSE
    /\ pindex = NoBlock /\ timed = FALSE
    /\ pc = IF tip = NoBlock THEN "done" ELSE "loop"
    /\ batchPos = 1 /\ batchBest = NoBlock
    /\ event = NoBlock /\ hpc = "idle"
    /\ locator = NoBlock /\ pos = 1 /\ dbPos = 1 /\ file = <<>>
    /\ heightIdx = [h \in Heights |-> None]
    /\ hashIdx = [b \in Blocks |-> 0]
    /\ fatal = FALSE
    /\ left = {} /\ ahead = {} /\ early = {} /\ gap = {}
    /\ moves = 0 /\ flushes = 0 /\ stops = 0 /\ queries = 0

\* ThreadSync keeps cs_main over its calls of Rewind and of the last Commit.
Final == {"final", "final_locator", "final_batch"}
MainFree == pc \notin Final \cup {"rewind"}

-----------------------------------------------------------------------------
\* The chain.  FlushStateToDisk(IF_NEEDED), in DisconnectTip and ConnectTip, comes
\* before SetTip: the coins are one block ahead of the locator of its event.
FlushInMove(t) ==
    {[coins |-> Parent[b], named |-> b] : b \in {x \in Path[tip] \ Path[t] : x # Genesis}}
    \cup {[coins |-> b, named |-> Parent[b]] : b \in {x \in Path[t] \ Path[tip] : x # Genesis}}

\* The coins are written, and ChainStateFlushed is queued.
FlushEvent(f) == <<[type |-> "flushed", block |-> f.named]>>
CountFlush == flushes < MaxFlushes /\ flushes' = flushes + 1

\* One critical section of ActivateBestChain or InvalidateBlock moves the tip to t; the
\* events of the blocks connected come after those of any flush on the way.
MoveTo(t) ==
    LET new == Path[t] \ Path[tip]
        events == IF new = {} THEN <<>> ELSE Connected(new)
    IN
    /\ MainFree /\ ~interrupted
    /\ moves < MaxMoves /\ moves' = moves + 1
    /\ tip' = t
    /\ \/ /\ queue' = queue \o events
          /\ UNCHANGED <<diskTip, flushes>>
       \/ \E f \in FlushInMove(t) :
             /\ CountFlush
             /\ diskTip' = f.coins
             /\ queue' = queue \o FlushEvent(f) \o events
    /\ UNCHANGED <<memory, disk, history, stops, queries>>

\* ActivateBestChain lets go of cs_main at the first block that is better than the old
\* tip; preciousblock makes another block of the same height the better one.
ActivateBestChain(t) ==
    /\ t \notin Path[tip]
    /\ \/ Height(t) = Height(tip) + 1
       \/ Height(t) = Height(tip)
    /\ MoveTo(t)

InvalidateBlock == tip \notin {NoBlock, Genesis} /\ MoveTo(Parent[tip])

\* FlushStateToDisk, periodically or on the way to the shutdown.
FlushStateToDisk ==
    /\ MainFree /\ tip # NoBlock
    /\ CountFlush
    /\ diskTip' = tip
    /\ queue' = queue \o FlushEvent([coins |-> tip, named |-> tip])
    /\ UNCHANGED <<tip, memory, disk, history, moves, stops, queries>>

-----------------------------------------------------------------------------
\* GetLocator(nullptr) is the locator of the chain's tip.
GetLocator(b) == IF b = NoBlock THEN tip ELSE b

\* Commit, where nobody changes the position or m_best_block_index meanwhile.
Commit(b) ==
    /\ locator' = GetLocator(b)
    /\ dbPos' = pos
    /\ early' = {} /\ ahead' = {}

\* BlockFilterIndex::WriteBlock: the entry of the previous height must be the parent's.
CanWrite(b) == b = Genesis \/ heightIdx[Height(b) - 1].block = Parent[b]

WriteBlock(b) ==
    /\ file' = [i \in 1..pos |-> IF i = pos THEN b ELSE file[i]]
    /\ heightIdx' = [heightIdx EXCEPT ![Height(b)] = [block |-> b, pos |-> pos]]
    /\ pos' = pos + 1
    /\ early' = early \cup ahead
    /\ UNCHANGED <<locator, dbPos, hashIdx, ahead>>

\* CopyHeightIndexToHashIndex, for the heights of f and of the blocks above it up to b.
Copied(b, f) == {heightIdx[h] : h \in Height(f)..Height(b)}
HashIdxWith(b, f) ==
    [x \in Blocks |->
        IF \E e \in Copied(b, f) : e.block = x
        THEN (CHOOSE e \in Copied(b, f) : e.block = x).pos ELSE hashIdx[x]]

\* BlockFilterIndex::Rewind, up to its call of BaseIndex::Rewind: one batch.
CanCopy(b, f) == None \notin Copied(b, f)
DbPosKept == dbPos
DbPosCopied == pos
CopyOut(b, f) ==
    /\ hashIdx' = HashIdxWith(b, f)
    /\ dbPos' = DbPosCopied
    /\ left' = left \cup (Path[b] \ Path[f])
    /\ UNCHANGED <<locator, file, heightIdx>>

\* FatalError: StartShutdown.
FatalError == fatal' = TRUE /\ interrupted' = TRUE

-----------------------------------------------------------------------------
\* ThreadSync.
SyncInterrupted ==
    /\ pc = "loop" /\ interrupted
    /\ best' = pindex
    /\ Commit(pindex)
    /\ gap' = IF pindex = NoBlock THEN gap \cup Path[tip] ELSE gap
    /\ pc' = "done"
    /\ UNCHANGED <<chain, timed, batch, synced, interrupted, pindex, event, hpc, pos, fatal, file,
                   heightIdx, hashIdx, left, counts>>

\* Nothing left to do: m_synced is set ...
SyncDone ==
    /\ pc = "loop" /\ ~interrupted
    /\ NextSyncBlock(pindex) = NoBlock
    /\ best' = pindex /\ synced' = TRUE
    /\ pc' = "final"
    /\ UNCHANGED <<chain, timed, batch, interrupted, pindex, event, hpc, pos, fatal, disk, history,
                   counts>>

\* ... before the state is committed, and now a callback may change it.  CommitInternal of
\* BlockFilterIndex takes the position, ...
CommitPosition ==
    /\ pc = "final"
    /\ batchPos' = pos
    /\ pc' = "final_locator"
    /\ UNCHANGED <<chain, timed, best, synced, interrupted, pindex, batchBest, event, hpc, pos, fatal,
                   disk, history, counts>>

\* ... then that of BaseIndex the locator of m_best_block_index, ...
CommitLocator ==
    /\ pc = "final_locator"
    /\ batchBest' = GetLocator(best)
    /\ pc' = "final_batch"
    /\ UNCHANGED <<chain, timed, best, synced, interrupted, pindex, batchPos, event, hpc, pos, fatal,
                   disk, history, counts>>

\* ... and both are written: the filters of blocks that were written in between lie beyond
\* the position.
CommitBatch ==
    /\ pc = "final_batch"
    /\ locator' = batchBest /\ dbPos' = batchPos
    /\ early' = {file[i] : i \in batchPos..(pos - 1)} \cap (Path[batchBest] \cup left)
    /\ ahead' = {}
    /\ batchPos' = 1 /\ batchBest' = NoBlock
    /\ pc' = "done"
    /\ UNCHANGED <<chain, timed, best, synced, interrupted, pindex, event, hpc, pos, fatal, file,
                   heightIdx, hashIdx, left, gap, counts>>

\* The next block is the child of the last one.
SyncNext ==
    /\ pc = "loop" /\ ~interrupted
    /\ LET next == NextSyncBlock(pindex) IN
       /\ next # NoBlock /\ Parent[next] = pindex
       /\ pindex' = next
    /\ pc' = "locator"
    /\ UNCHANGED <<chain, timed, batch, best, synced, interrupted, event, hpc, pos, fatal, disk, history,
                   counts>>

\* It is not: the chain has been reorganised, and Rewind begins.
SyncRewind ==
    /\ pc = "loop" /\ ~interrupted
    /\ LET next == NextSyncBlock(pindex) IN
       /\ next # NoBlock /\ Parent[next] # pindex
       /\ IF CanCopy(pindex, Parent[next])
          THEN /\ CopyOut(pindex, Parent[next])
               /\ pc' = "rewind"
               /\ UNCHANGED <<interrupted, fatal>>
          ELSE /\ FatalError
               /\ pc' = "failed"
               /\ UNCHANGED <<disk, left>>
    /\ UNCHANGED <<chain, timed, batch, best, synced, pindex, event, hpc, pos, ahead, early, gap, counts>>

\* The locator is made to name the fork, so that it is not stale.
StaleLocator(f) == locator
RewoundLocator(f) == f

\* BaseIndex::Rewind, which asserts current_tip == m_best_block_index; and the next block.
SyncRewound ==
    /\ pc = "rewind" /\ best = pindex
    /\ LET next == NextSyncBlock(pindex) IN
       /\ best' = Parent[next]
       /\ locator' = RewoundLocator(Parent[next])
       /\ dbPos' = pos /\ early' = {} /\ ahead' = {}
       /\ pindex' = next
    /\ pc' = "locator"
    /\ UNCHANGED <<chain, timed, batch, synced, interrupted, event, hpc, pos, fatal, file, heightIdx,
                   hashIdx, left, gap, counts>>

\* SYNC_LOCATOR_WRITE_INTERVAL may have passed, and has the first time: pindex is named
\* before it is written.
SyncLocator ==
    /\ pc = "locator"
    /\ \/ timed /\ UNCHANGED <<best, locator, dbPos, early, ahead>>
       \/ best' = pindex /\ locator' = pindex /\ dbPos' = pos
          /\ early' = {pindex} /\ ahead' = {}
    /\ timed' = TRUE
    /\ pc' = "write"
    /\ UNCHANGED <<chain, batch, synced, interrupted, pindex, event, hpc, pos, fatal, file,
                   heightIdx, hashIdx, left, gap, counts>>

SyncWrite ==
    /\ pc = "write"
    /\ IF CanWrite(pindex)
       THEN WriteBlock(pindex) /\ pc' = "loop" /\ UNCHANGED <<interrupted, fatal>>
       ELSE FatalError /\ pc' = "failed" /\ UNCHANGED <<pos, disk, early, ahead>>
    /\ UNCHANGED <<chain, timed, batch, best, synced, pindex, event, hpc, left, gap, counts>>

ThreadSync ==
    \/ SyncInterrupted \/ SyncDone \/ CommitPosition \/ CommitLocator \/ CommitBatch
    \/ SyncNext \/ SyncRewind \/ SyncRewound \/ SyncLocator \/ SyncWrite

-----------------------------------------------------------------------------
\* Callbacks, run one at a time.
Delivered == queue' = Tail(queue)
NextIs(type) == hpc = "idle" /\ queue # <<>> /\ Head(queue).type = type

\* The block connects to an ancestor of the index's best block.
ConnectsTip(b) == Parent[b] = best
Connects(b) == Parent[b] = NoBlock \/ Parent[b] \in Path[best]

\* BlockConnected, up to the call of Rewind or of WriteBlock.
BlockConnected ==
    /\ NextIs("connected") /\ Delivered
    /\ LET b == Head(queue).block
           rewinds == best # Parent[b]
       IN  IF ~synced \/ (best # NoBlock /\ ~Connects(b))
           THEN UNCHANGED <<best, event, hpc, interrupted, fatal, disk, left>>
           ELSE IF (best = NoBlock /\ b # Genesis) \/ (rewinds /\ ~CanCopy(best, Parent[b]))
           THEN /\ FatalError
                /\ UNCHANGED <<best, event, hpc, disk, left>>
           ELSE /\ event' = b
                /\ best' = Parent[b]
                /\ IF rewinds THEN CopyOut(best, Parent[b]) /\ hpc' = "commit"
                              ELSE UNCHANGED <<disk, left>> /\ hpc' = "write"
                /\ UNCHANGED <<interrupted, fatal>>
    /\ UNCHANGED <<tip, diskTip, timed, batch, synced, pindex, pc, pos, ahead, early, gap, counts>>

\* Rewind has set m_best_block_index and commits.
RewindCommit ==
    /\ hpc = "commit" /\ MainFree
    /\ locator' = RewoundLocator(best) /\ dbPos' = pos /\ early' = {} /\ ahead' = {}
    /\ hpc' = "write"
    /\ UNCHANGED <<chain, timed, batch, best, synced, interrupted, pindex, pc, event, pos, fatal, file,
                   heightIdx, hashIdx, left, gap, counts>>

WriteConnected ==
    /\ hpc = "write"
    /\ IF CanWrite(event)
       THEN WriteBlock(event) /\ hpc' = "best" /\ UNCHANGED <<event, interrupted, fatal>>
       ELSE /\ FatalError /\ hpc' = "idle" /\ event' = NoBlock
            /\ UNCHANGED <<pos, disk, early, ahead>>
    /\ UNCHANGED <<chain, timed, best, synced, pindex, pc, batch, left, gap, counts>>

\* The block is written, and m_best_block_index is set.
BestConnected ==
    /\ hpc = "best"
    /\ best' = event
    /\ event' = NoBlock /\ hpc' = "idle"
    /\ UNCHANGED <<chain, timed, synced, interrupted, pindex, pc, batch, pos, fatal, disk, history,
                   counts>>

\* ChainStateFlushed.
Commits(b) == b \in Path[best]

ChainStateFlushed ==
    /\ NextIs("flushed") /\ Delivered
    /\ IF synced /\ Commits(Head(queue).block)
       THEN MainFree /\ Commit(best)
       ELSE UNCHANGED <<locator, dbPos, early, ahead>>
    /\ UNCHANGED <<tip, diskTip, memory, file, heightIdx, hashIdx, left, gap, counts>>

\* BlockUntilSyncedToCurrentChain has to wait: its promise is queued.  (RPCs are served
\* once the genesis block is there.)
BlockUntilSyncedToCurrentChain ==
    /\ MainFree /\ synced /\ ~interrupted
    /\ best # NoBlock /\ tip \notin Path[best]
    /\ queries < MaxQueries /\ queries' = queries + 1
    /\ queue' = Append(queue, [type |-> "promise", block |-> tip])
    /\ UNCHANGED <<tip, diskTip, memory, disk, history, moves, flushes, stops>>

KeepPromise ==
    /\ NextIs("promise") /\ Delivered
    /\ UNCHANGED <<tip, diskTip, memory, disk, history, counts>>

Callbacks ==
    \/ BlockConnected \/ RewindCommit \/ WriteConnected \/ BestConnected
    \/ ChainStateFlushed \/ KeepPromise

-----------------------------------------------------------------------------
\* The process dies: by a crash, or because Rewind's assertion fails.  What the filter
\* file holds beyond the committed position need not survive.
Die ==
    /\ IndexInit(diskTip)
    /\ file' = SubSeq(file, 1, dbPos - 1)
    /\ UNCHANGED <<locator, dbPos, heightIdx, hashIdx, left, moves, flushes, queries>>

Crash == stops < MaxStops /\ stops' = stops + 1 /\ Die
AssertFails == pc = "rewind" /\ best # pindex /\ UNCHANGED stops /\ Die

\* Shutdown interrupts the index, ...
Interrupt ==
    /\ ~interrupted /\ stops < MaxStops
    /\ interrupted' = TRUE
    /\ UNCHANGED <<chain, timed, batch, best, synced, pindex, pc, event, hpc, pos, fatal, disk, history,
                   counts>>

\* ... flushes the chain state, empties the queue and joins the thread.
Restart ==
    /\ interrupted /\ stops < MaxStops
    /\ pc \in {"done", "failed"} /\ hpc = "idle" /\ queue = <<>> /\ diskTip = tip
    /\ stops' = stops + 1
    /\ IndexInit(tip)
    /\ UNCHANGED <<disk, left, moves, flushes, queries>>

Next ==
    \/ \E t \in Blocks : ActivateBestChain(t)
    \/ InvalidateBlock
    \/ FlushStateToDisk
    \/ ThreadSync
    \/ Callbacks
    \/ BlockUntilSyncedToCurrentChain
    \/ Crash \/ AssertFails
    \/ Interrupt \/ Restart

\* The sync thread and the scheduler's threads run on.
Spec == Init /\ [][Next]_vars /\ WF_vars(ThreadSync) /\ WF_vars(Callbacks) /\ WF_vars(AssertFails)

-----------------------------------------------------------------------------
\* Every variable has its type.
TypeOK ==
    /\ {tip, diskTip, best, pindex, batchBest, event, locator} \subseteq Blocks \cup {NoBlock}
    /\ \A i \in 1..Len(queue) :
          /\ queue[i].type \in {"connected", "flushed", "promise"}
          /\ queue[i].block \in Blocks
    /\ pc \in {"loop", "rewind", "locator", "write", "done", "failed"} \cup Final
    /\ hpc \in {"idle", "commit", "write", "best"}
    /\ {dbPos, batchPos} \subseteq 1..pos
    /\ Len(file) >= pos - 1 /\ \A i \in 1..Len(file) : file[i] \in Blocks
    /\ \A h \in Heights : heightIdx[h].block \in Blocks \cup {NoBlock}
    /\ \A b \in Blocks : hashIdx[b] \in Nat
    /\ left \cup ahead \cup early \cup gap \subseteq Blocks
    /\ {synced, interrupted, timed, fatal} \subseteq BOOLEAN

\* The block up to which the index is written: the sync thread's, then m_best_block_index.
Indexed ==
    IF pc \in {"locator", "write", "failed"} THEN Parent[pindex]
    ELSE IF synced THEN best ELSE pindex

\* A filter can be read back.
Readable(b, p) == p \in 1..(pos - 1) /\ file[p] = b

\* LookupFilter finds the filter of every block of the chain the index is at, after any
\* order of reorganisations, callbacks and crashes, except of blocks that the database
\* named at a crash though its position left them out.
IndexExact ==
    \A b \in Path[Indexed] \ gap :
        LET e == heightIdx[Height(b)] IN e.block = b /\ Readable(b, e.pos)

\* The filters of the blocks that Rewind has left behind are in the hash index, also
\* after a crash in the middle of it, and are never overwritten (with the same exception).
StaleFiltersKept == gap = {} => \A b \in left : Readable(b, hashIdx[b])

\* FatalError: the index never meets a block it cannot write or a height it cannot copy,
\* unless the database had named such a block at a crash.
NeverFatal == fatal => gap # {}

\* BlockUntilSyncedToCurrentChain: when its promise is kept, the index has the tip of the
\* time of the call.
SyncedMeansIndexed ==
    hpc = "idle" /\ queue # <<>> /\ Head(queue).type = "promise" /\ ~fatal =>
        Head(queue).block \in Path[best]

\* m_best_block_index: "The last block in the chain that the index is in sync with."
BestIsInSync == synced => \A b \in Path[best] : heightIdx[Height(b)].block = b

\* The index catches up with the chain, unless it is told to stop.
CatchesUp == []<>(interrupted \/ (synced /\ tip \in Path[best] \cup {NoBlock}))
=============================================================================
