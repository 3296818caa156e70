# A TLA+ verification of Palladium's chain state

Palladium is a full node derived from Bitcoin Core. These modules model the part of the node
that fetches blocks, decides which chain is active, keeps the set of unspent outputs and the
memory pool, survives crashes and tells the rest of the program what happened. TLC checks them on
small instances; TLAPS proves properties of seven of the components for all instances. Every definition is translated from the C++
source under `src/src/`; `PROJECT.json` names the lines of each one.

## The system's parts and how they interact

The message handler asks its peers for headers, then for the blocks it misses. A block comes in
from a peer, a file or an RPC. `AcceptBlock` stores it and enters it into the
block index; `ActivateBestChain` chooses the chain with the most work among the candidates and
connects or disconnects blocks one by one. Each of these blocks changes the unspent outputs
through a temporary `CCoinsViewCache` over `CoinsTip()`, itself a cache over the coins database.
`ConnectBlock` hands the script checks of a block to the threads of the `CCheckQueue`.
`FlushStateToDisk` writes block files, index and coins in that order, and `ReplayBlocks` repairs
an interrupted write at the next start. What has happened is queued as events, which the
scheduler's threads deliver to wallets, indexes, peers and the other listeners. The memory pool
follows every block connected or disconnected; an optional index follows the chain, at first on
a thread of its own and then by the events.

| Part | Source | Module | State |
|---|---|---|---|
| Coins cache | coins.cpp, coins.h | `CoinsCache`, `UtxoSet` | modelled, proved |
| Block index, choice of the chain | validation.cpp, chain.h | `BlockIndex`, `ChainSelection` | partly, proved in part |
| Flush and recovery | validation.cpp, txdb.cpp, init.cpp | `ChainstateFlush` | partly, proved in part |
| Script-check threads | checkqueue.h | `CheckQueue` | modelled, proved but for liveness |
| Scheduler, events | scheduler.cpp, validationinterface.cpp, init.cpp | `ValidationQueue` | partly, proved but for liveness |
| Optional indexes | index/base.cpp, index/blockfilterindex.cpp | `IndexSync` | partly, proved but for liveness |
| Memory pool | txmempool.cpp, validation.cpp | `Mempool` | partly |
| Block download | net_processing.cpp | `BlockDownload` | partly, proved in part |
| Connections, address manager, ban list, HTTP work queue, block assembly, wallet | net.cpp, addrman.cpp, banman.cpp, httpserver.cpp, miner.cpp, wallet/ | | not modelled |
| Version bits, proof of work, signature cache | versionbits.cpp, pow.cpp, cuckoocache.h | | not modelled |
| Scripts, cryptography, encodings, fee statistics, GUI, tools | script/, crypto/, policy/fees.cpp, qt/ | | not modelled |

`PROJECT.json` has the full list of components with the reasons, and the list of hazards: the
places where an order of steps, a crash or a boundary could go wrong, with the properties that
would show it.

## The modules

**`UtxoSet`** is the abstract specification: three versions of a map from outpoints to coins (on
disk, at the tip, in the view of the block being worked on), with the block hash they belong to.
There are no caches in it.

**`CoinsCache`** has the caches. `tip` and `view` are the `cacheCoins` maps of the two levels, an
entry is a coin with its DIRTY and FRESH bits, `db` is the database. The operators `FetchCoin`,
`AddedEntry`, `SpentEntry`, `BatchWriteEntry` are the member functions on one cache over any
parent; the actions apply them to the two levels. `thrown` records a `std::logic_error`. The
callers' contract is part of the model: only a coinbase may overwrite when a block is connected
(BIP30 has been checked), and undo and replay ask `HaveCoin` first. The property
`CachesAreInvisible` is the refinement of `UtxoSet`, and says of each call which abstract step it
is: without that a spend that did nothing would pass for a stuttering step.

**`BlockIndex`** has the tree of `CBlockIndex` entries and what runs in one critical section of
`cs_main`: a header or block arrives (`AcceptBlockHeader`, `AcceptBlock` with
`ReceivedBlockTransactions`), pruning of a block file, `ResetBlockFailureFlags`, `PreciousBlock`,
`LoadBlockIndex`. **`ChainSelection`** extends it with what holds `m_cs_chainstate` over several
critical sections: `ActivateBestChain` (`BeginRound`, `FindMostWorkChain` with `DropCandidate`,
`BeginStep`, `DisconnectTip`, `ConnectTip`, `FailToConnect`, `Abort`, `EndStep`, `EndRound`) and
`InvalidateBlock` (`InvalidateTip`, `LeaveLoop`, `MarkInvalid`). `pc` says where it is; `MainFree`
says whether `cs_main` is free there, which is when the other operations can run and when the
clauses of `CheckBlockIndex` are asked for. Which check a block fails, `Fault`, is a constant.

**`ChainstateFlush`** has memory on one side and what survives a crash on the other: block files,
index database, coins database with `DB_BEST_BLOCK` and `DB_HEAD_BLOCKS`. `nFile` and `last` say
which file a block is in and which file is the last one, the only one `FlushBlockFile` commits to disk, with
its undo file: on a flush and when `FindBlockPos` leaves it for a new one. Undo data goes to the
file of its block. `files` is what has been committed, `buffered` what has been written and not
committed: it survives the death of the process, and when the power fails any part of it may be lost. The stages of
`FlushStateToDisk` are separate actions with crashes between them; a partial batch writes any
subset of the changed coins. `Start`, `Rollback`, `RollforwardBlock`, `FlushReplayed` are the next
start. `UtxoAt` is the definition the database is compared with: the coins of a chain validated
from its beginning.

**`CheckQueue`**: an action is one critical section of the queue's mutex, or the execution of a
batch outside. **`ValidationQueue`**: an action is one critical section of the scheduler, of
the `SingleThreadedSchedulerClient`, or of the list of listeners; `Shutdown` stops the threads,
flushes the chain state, which queues `ChainStateFlushed` (`JoinAll`), empties the queue on its own
thread (`EmptyQueue`), flushes once more when nobody empties it any longer (`ForceFlushAgain`) and
clears the list (`Clear`).

**`IndexSync`** has a block filter index beside the chain: `ThreadSync` between its critical
sections (`SyncNext`, `SyncRewind`, `SyncRewound`, `SyncLocator`, `SyncWrite`, `SyncDone`), the
callbacks `BlockConnected` and `ChainStateFlushed` run from a queue,
`BlockUntilSyncedToCurrentChain`, interruption, crash and `Init` of the next start. The height
index, hash index, filter file, its committed position and the locator are what survives. The
chain moves as `ActivateBestChain` and `InvalidateBlock` move it and is flushed before `SetTip`, so
the coins may be a block away from what `ChainStateFlushed` names. The last `Commit` of `ThreadSync`
comes after `m_synced` is set, so that callbacks run beside it; it is three actions, `CommitPosition`
(`BlockFilterIndex::CommitInternal` takes the filter position), `CommitLocator`
(`BaseIndex::CommitInternal` takes `m_best_block_index`) and `CommitBatch`, and `BlockConnected` sets
`m_best_block_index` in an action of its own, `BestConnected`. The other commits meet nobody who changes
what they read. `early` and `gap` are history: blocks the database names though its position leaves
their filters out, because they are named before they are written or were written between the
two halves of the last `Commit`; and such blocks at the time of a crash.
`Path` is the least set with a block and, with each block, its parent: without a recursion, so
that its properties can be proved and need not be assumed.

**`Mempool`** has the pool as one record (`mapTx`, the links, `mapNextTx`, `mapDeltas` and the
package totals) and a sequential operator for each member function. A total is a bag of the
transactions counted in it, of which count, size, fees and sigops are sums: counting one twice,
or forgetting it, shows. The actions are acceptance with replacement and eviction,
`PrioritiseTransaction`, `ConnectTip`, `DisconnectTip`, and `UpdateMempoolForReorg` one
transaction at a time, between which the totals are known to be incomplete.

**`BlockDownload`** has the state of `net_processing.cpp` about headers and blocks: `nodes` is
`CNodeState`, `flight` is `mapBlocksInFlight` with the peers' queues and counters. An action is one
message processed (`Headers`, `Announce`, `Block`, `CmpctBlock`, `BlockTxn`), one `SendMessages`,
whose `expired` says which timer has run out, or a connection made or finalized. What peers that are
not `Honest` send is a free choice among the blocks of `Sends` and those asked of them.

The theorems are in modules of their own: `CoinsCacheProofs`, `ChainstateFlushProofs`,
`ValidationQueueProofs`, `CheckQueueProofs`, `IndexSyncProofs`, `BlockDownloadProofs`; for `ChainSelection`,
`ChainSelectionSafety` (the tree, the order of candidates, what holds in every mode of the node)
and `ChainSelectionProofs` (the books of an unpruned node). Each component has an `MC` module with trees or names for TLC; the `.cfg` files give the bounds.
Operators whose names extend another's (`MustGoOnNever`, `KeptAll`), or that a comment calls a
variant, are the variants of that operator which `PROJECT.json` lists as mutants; nothing else uses them.

## What the runs check

| Run | States | What it shows |
|---|---|---|
| `coins_cache` | 31,626 | The flags mean what `coins.h` says at both levels, no `logic_error`, and the caches are invisible. |
| `select` | 51,792 | Headers and blocks of two forks, some invalid, arrive in any order, with a restart: clauses of `CheckBlockIndex` hold, the tip is the best usable block when activation is idle, `cs_main` is never released with a worse tip, every activation ends. |
| `rpc` | 173,227 | `invalidateblock`, `reconsiderblock`, `preciousblock` interleaved with new blocks: no failed block is active; before the first `reconsiderblock` every failure mark goes back to a block marked invalid, and no candidate is missing. |
| `prune` | 1,264,721 | Block files are pruned at any moment and downloaded again; `invalidateblock` meets a pruned block and fails half way, and the node restarts: until the call every waiting block is on the list it will be found on; throughout, the list holds only blocks that miss data, and there is a candidate. |
| `check_queue` | 79,116 | A block's verdict is that of its own checks, and `Wait` returns. |
| `flush` | 990,219 | The process dies or the power fails anywhere in a flush, a reorganisation, pruning and the replay: the database is exact whenever it names a best block, the index points to missing data only for undo data in a file before the last, a node that has neither pruned nor lost undo data starts again. |
| `callbacks` | 231,922 | A listener comes and goes during delivery and beside synchronous signals: callbacks run one at a time, order is kept, none is forgotten, reference counts are exact, synchronisation and shutdown deliver everything but the event of the second flush. |
| `index` | 668,628 | Reorganisations, flushes, interruptions and crashes during the synchronisation and after it: filters of the index's chain can be read, those of blocks left behind are kept, a kept promise means the tip is indexed, the index catches up. |
| `mempool` | 51,540 | Acceptance, replacement, prioritisation, eviction, blocks and reorganisations: entries, links and `mapNextTx` agree, the package totals are exact along the links at every step, what waits to be added back conflicts with nothing, the limits hold. |
| `download` | 50,747 | An honest peer and one that stalls, misleads and disconnects: the bookkeeping of blocks in flight is exact, only missing blocks are in flight, only a peer that owes a block is marked as stalling, the window starts at a missing block, the node gets to the honest chain. |

The type invariant `TypeOK` of each module holds with the same configurations; it was checked
apart and is in none of them, and for the coins cache it is proved.

Two runs show the code in disagreement with its documentation. `undo` (8 states): a block is stored in file 0, further
blocks open file 1, the block is connected, and the state is flushed. `FlushBlockFile` commits
the last pair of files (validation.cpp:1744-1749), the undo data is in file 0's, and the index entry with
`BLOCK_HAVE_UNDO` is written with a sync: after a power failure it may refer to what is not there. The
comment at the call says "First make sure all block and undo data is flushed to disk."
(validation.cpp:2296). If the undo data is lost and a replay needs it, the start fails. `index_gap`: when the index is
interrupted before `ThreadSync` has taken its first block, `m_best_block_index` is null and `Commit`
writes `GetLocator(nullptr)`, which is the locator of the tip (chain.cpp:28). The next start takes
the index for synchronised with no block in it, while base.h:43 calls the member "The last
block in the chain that the index is in sync with."

Some invariants carry a condition, because the code does not keep them otherwise; each exception
is among the observations below:

- `CandidatesComplete`, `FailureHasCause` and `TipIsBest`: no `reconsiderblock` yet (variable
  `reconsidered`). `CandidatesComplete` and the half of `UnlinkedExact` that says nothing
  waiting is forgotten also exclude, on a pruned node, `invalidateblock` and restarts
  (`Undisturbed`).
- The other half of `UnlinkedExact` asks that a waiting block have its data until the first
  restart only.
- `LinkedIffDownloaded` is checked without pruning, `invalidateblock` and `reconsiderblock`; `Recovers` is conditioned on `havePruned`
  and on no undo data being lost; `IndexBacked` excepts undo data in files before the last.
- `FlushedAtShutdown` and `EventuallyDelivered` are about the events queued until
  `FlushBackgroundCallbacks` has returned, and the former says that only one comes later: "Any
  future callbacks will be dropped" (init.cpp:268).
- `IndexExact` excepts blocks in `gap`, `StaleFiltersKept` and `NeverFatal` suppose there are none.

### Bounds

- `coins_cache`: two outpoints and three coins, one unspendable. No operation relates two
  outpoints except a flush, which treats them alike. The theorems remove the bound.
- Trees have two branches above the genesis block and up to three blocks on a branch: enough for
  a reorganisation, a tie in work, a block that fails in the middle of a reorganisation, and a
  block waiting two levels above a missing one. `MaxCalls` bounds the RPCs, `MaxRestarts` the
  restarts, `MaxSeq` the sequence numbers. `MinBlocksToKeep` is 1, not 288, so that pruning
  meets small trees; a reorganisation below the pruned depth then leads to `Abort`, as in the code.
  `MCPrune` has six sequence numbers, one `invalidateblock`, and a restart only after it
  (`StopsAfterCall`): with the restart at any point and eight numbers the search was stopped after 25
  minutes and 12.9 million states, with no violation, and with six it completes in seven minutes.
  `Orders` are two memory layouts, because the comparator of candidates falls back on addresses.
- `flush`: two flushes and two crashes, so that a replay is interrupted as well and a
  second flush follows a repaired one. The two branches share a transaction, which makes a coin
  of both with two heights. A block file has room for three of the five blocks (`Fits`; 128 MiB in the
  code), so that there are two files and blocks of the first are connected when the second is the
  last. The theorems are for any `Fits`.
- `check_queue`: two workers and the master, four checks of which one fails, two blocks.
- `callbacks`: two service threads and a producer, two events and the two of the shutdown, a
  synchronisation and a synchronous signal; one listener that stays and one that comes and goes; three list
  entries, so that it can return while its old entry is in use. `AddToProcessQueue` is one critical
  section and a wakeup, and the service threads schedule callbacks as well, so that threads meet there with one
  producer; the theorems are for any number.
- `index`: a chain g, a1 and a longer branch b1, b2; two moves of the tip, one flush, two stops (crash or
  interruption), one query. One stop can leave the sync half done and the next interrupt the
  repair. A locator of these trees names every block, which is so for the last ten in the code.
- `mempool`: nine transactions: a parent with three outputs, three that compete for one of them (one
  locked to a height), a diamond, a grandchild, and two that compete for a coinbase output that
  matures at depth two. Three ancestors and two descendants (25 and 25 in the code), so that the limits, the
  carve-out and a reorganisation that exceeds them all happen; blocks of two transactions,
  chains of two blocks, three disconnected transactions kept.
- `download`: an honest outbound peer and one other, which connects once; a chain of four blocks and
  a fork. The window is 2 (1024), two blocks in transit (16), one protected peer (4), and
  compact blocks one block above the tip (2), so each limit is reached. `NoBan` is empty: the
  branch for whitelisted peers is covered by the proofs only.

Deadlock is checked except for the trees, the flush and the index, where the bounds on
blocks, calls and crashes let the system come to rest.

### Fairness

`ActivateBestChain` and `InvalidateBlock` are loops of one thread: weak fairness of their steps
says the thread goes on. No fairness is assumed of peers, RPCs, pruning or restarts. In
`CheckQueue` and `ValidationQueue` every thread that can take a step in the end does (the mutexes
are held for short sections); spurious wakeups, new work and shutdown need not happen. In
`ChainstateFlush` the start-up code goes on and the last batch of a flush is written
(a flush has finitely many). Crashes are bounded, which is what recovery needs:
a node that crashes in every start never comes up. In `IndexSync` the sync thread and the scheduler's
threads go on, and an assertion that fails ends the process. In `BlockDownload` clocks advance, so that the timer of a silent
peer expires; the socket thread finalizes a peer with `fDisconnect`; an honest peer answers; and
the message handler visits the peers in turn, which gives an honest peer its `SendMessages`. That
another peer holds the sync slot needs no stronger assumption: its timers free it. `Mempool` has safety properties only and no fairness.

## What is proved

`CoinsCacheProofs` proves, for any sets of outpoints, coins and block hashes:

- `TypeCorrect`, `FlagsCorrect`, `NeverThrows`: the invariants of the run;
- `Refinement`: `CoinsCache` implements `UtxoSet`, call by call.

The assumption is `CoinsAssumption`: `Spent` is no coin, `NoEntry` no entry, and the null hash no
block. The inductive invariant `IInv` is the type invariant, the coherence of both levels
(`FlagsMeanWhatTheySay`), that nothing was thrown, and that the upper cache is empty while it is
not open. Coherence is needed for the rest: `AddCoin` throws
for a coin that is unspent in the cache's entry, and only coherence relates the entry to what the
caller saw through the stack; `BatchWrite` throws for a FRESH entry over an unspent one, and only
the meaning of FRESH excludes it. The lemmas `FetchLemma`, `AddLemma`, `SpendLemma`,
`BatchWriteLemma`, `DBWriteLemma` are about one cache over an arbitrary parent and say what each
operation does to coherence and to what a reader sees; `NextLemma` applies them to the two
levels, one case for each action, and gives the step of `UtxoSet` that it is.

`ChainstateFlushProofs` proves, for any tree of blocks and any coins they create and spend:

- `CoinsExact` and `TipCoinsExact`: `DatabaseExact` and `ViewExact`. The invariant `CoinsInv` says what the database
  is when it is not exact: while `DB_HEAD_BLOCKS` names two chains, each outpoint holds the coin of one or
  the other (`Mixed`). The view is exact while the node is up and mixed between cursor and tip
  during a replay; that a batch of any subset keeps `Mixed`, and that rolling a block back or
  forward over a mixed database is right at each outpoint, is the argument.
- `IndexAlwaysBacked`: `IndexBacked`. `FilesInv` adds that what memory says of a block in the last
  file is committed or in the buffer, of a block in an earlier file committed but for undo data; that
  nothing of the last file is in the buffer only from `FlushBlockFile` until the index is
  written; that the last file of the index database is not after that of memory; and that files about
  to be unlinked are named no more.
- `StartsAfterAnyCrash` (`NeverFailsToStart`): no start of a node fails that has neither pruned nor lost undo
  data its index names, which is the safety half of `Recovers`. `StartInv` says why: the coins database only names
  blocks that the index database knows and whose chains it has with data and undo data
  (`OnDisk`), as the index is written before the coins, and what has both has a parent that has both, so
  that the way back to the fork can be read as well as the way up. With pruning it is
  false, and so it is when undo data is lost: see `Recovers`.

The assumptions are `TreeAssumption`, `PathAssumption` (a path is its block and the parent's path)
and `CreatesAssumption` (BIP 30: a block creates no output where one is unspent).

`ValidationQueueProofs` proves the six invariants of its run for any finite sets of threads,
producers and listeners and any number of events:

- `QueueSafe` (`QueueAttended`) and `CallbacksSerial` (`OneCallbackAtATime`).
  `m_are_callbacks_running` alone does not tell that the thread that resets it is the one that set
  it; `QueueInv` adds where a thread is while it runs a callback.
- `CountsSafe` (`CountsExact`). `ListInv` has the list, `m_map` and the iterators of the running
  `Iterate`s as one set of books: the identities of the entries ascend, each iterator and each
  registration points to an entry, an entry's count is the number of both and is not zero. The lemmas
  say what registering, unregistering and moving on (which releases one entry, perhaps erasing it,
  and takes the next one registered) do to the books. The sets of threads are finite because
  a count is a cardinality.
- `OrderSafe` (`DeliveredInOrder`) and `SyncSafe` (`SyncMeansDelivered`). `OrderInv` says that the
  numbers of the queued callbacks run on from those taken up to the last event, and that the
  callback being run is the last one taken. `GotInv` says what each listener has received: an ascending
  sequence, and for a `Resident` (one that stays registered) all events taken, except the one in
  delivery while its iterator has not passed the listener.
- `FlushSafe` (`FlushedAtShutdown`). `PlaceInv` says what `Shutdown` has waited for: the producers are
  idle, the scheduler's threads have left, the queue is empty when
  `FlushBackgroundCallbacks` is done, and holds the event of the second flush afterwards.

The assumption is `ValidationQueueAssumption`.

`IndexSyncProofs` proves the four invariants of its run for every finite tree of blocks and
any number of moves, flushes, queries, crashes and shutdowns:

- `PromiseSafe` (`SyncedMeansIndexed`). The index at its best block need not be on the chain of the
  events that wait: `BlockConnected` ignores a block whose parent is not below its best block, so the
  promise is right only if an event that *will* be taken comes in between whenever the index is
  not above the promised block. `ReachInv` says this of the index's present block and of each
  block queued: as long as no event is taken, it is above the block of the next promise, and above
  the tip if there is none.
- `IndexSafe` (`IndexExact`), `StaleSafe` (`StaleFiltersKept`), `FatalSafe` (`NeverFatal`). `DiskInv` says
  the same of two chains: the entries of the index's own chain lie below the position in memory, those of
  the locator's chain below the position that was committed with it, which is what is left after a crash.
  What the locator names beyond the index's chain was named `early`, is being written, or is in `gap`;
  that is suspended between the two batches of `Rewind`, and the copies that `Rewind` made are below
  the committed position. `WindowInv` is about the last `Commit` while callbacks run: the position it
  has taken is not beyond the one in memory, and the chain it will name is part of the index's unless a
  callback is about to rewind, which has to wait for `cs_main` until the batch is written.

Both rest on `CInv`: which states of `ThreadSync`, of the callbacks and of the queue occur
together (no callback works before `m_synced`; the genesis block's event comes first). The
lemmas on the tree (paths are chains, a fork is the last common block, heights tell the blocks of a
path apart) are proved from `IndexSyncAssumption`, which says that the blocks are a finite tree
above the genesis block and that each set of blocks has one whose parent is outside of it.

`BlockDownloadProofs` proves `DownloadExact` (`InFlightExact`), `OnlyMissingRequested`
(`RequestsUseful`), `StallersOwe` (`StallersHold`) and `WindowStartsDownloaded`
(`CommonDownloaded`) for any peers, tree, window and limits. `DownloadInv`
is `ChainInv` (headers have their ancestors', the active chain is downloaded), `NodesInv` (the
blocks a peer is known by are known headers, and all is downloaded up to its common block),
`FlightInv` (queues and `mapBlocksInFlight` are each other's inverse) and `Counters`. Lemmas give
what one peer more or less does to a count, and that a non-empty set of blocks has a lowest one. The
assumptions are `PeerAssumption`, `TreeAssumption` and `PathAssumption`; the last lists
consequences of the path equations that take an induction over the tree, which the
prover does not do. TLC evaluates all of the assumptions on the instances.

`CheckQueueProofs` proves `WaitCorrect` (`ResultCorrect`) for any workers, blocks, checks and batch
size. The result is right only if no worker still holds a check when the master leaves, and the
code knows this by `nTodo = 0` alone. `QueueInv` therefore says that the queue and the batches hold
distinct checks of the present block, that `nTodo` is the size of their union, and that `fAllOk`, with
the `fOk` of those who have not yet reported it, accounts for every check that is done. The lemmas
are about sequences of distinct elements: what taking `nNow` of them from the back and appending a
block's checks does to elements and lengths. The assumption is `CheckQueueAssumption`.

`ChainSelectionSafety` proves, for every tree of blocks, pruned or not, with all RPCs and restarts:

- `ChainStaysValid`: `ActiveChainValid`;
- `MarksHaveCause`: `FailureHasCause`;
- `WaitingSound`: `UnlinkedSound`, and `NoneForgotten`: a stored block that was never linked is in
  `m_blocks_unlinked` unless an ancestor has failed. This one supposes that `invalidateblock` and
  `reconsiderblock` are not called.

`SafeInv` adds to them that `pindexMostWork`, which `ActivateBestChain` keeps over the moments
`cs_main` is free, stays clear of failed blocks as well, and that neither it nor a candidate has
less work than the tip. Without the first `ConnectTip` could put a block on the chain that
was condemned in the meantime; without the second a round could disconnect down to it. That a block is
condemned with all its descendants, while the chain in use stays good, is a matter of paths in
the tree; the lemmas on paths are proved from the one equation in `BlockIndexAssumption`,
by taking the lightest block that is an exception.

For `WaitingSound` the question is why a block may be left out of `m_blocks_unlinked`.
`ReceivedBlockTransactions` leaves it out when its parent has failed, and that is right only if the mark
keeps the chain below from ever being completed. `Blocked` says so: some ancestor that is not linked has
failed and was never received, or is the first on its path that is not linked and is not
downloaded because of the mark. `WaitInv` says that every failed block that is not linked is `Blocked`,
every stored one is `Blocked` or waits, and a linked block that waits does so above a pruned one,
together with all blocks between the two; the last is what makes `ReceivedBlockTransactions` reach
it when the pruned block comes back. `LinkInv` has the rest: what is linked is linked from the
genesis block up.

`ChainSelectionProofs` proves about an unpruned node (`~PruneMode`):

- `CandidatesStaySound`: `CandidatesSound`, whatever RPCs are used;
- `NoCandidateMissing`: `CandidatesComplete`;
- `CandidateAlwaysThere`: `SomeCandidate` until `reconsiderblock` is used;
- `RestsOnBestTip`: `TipIsBest`;
- `RoundsGoForward`: the action property `NoBackwardRound`;
- `LinkedExactly`: `LinkedIffDownloaded`, and `WaitingExactly`: `UnlinkedExact`, both from
  `LinkInv` and `WaitInv` and under the conditions of `WaitingSound`, restarts included.

The four in the middle suppose that `preciousblock` is called for one block only (any number of times), and
`RoundsGoForward` that `reconsiderblock` is not called; the observations below say what happens
otherwise. `NodeInv` has five parts. `StoredInv`: what is stored has its data, what is linked is
linked from the genesis block up, and the tip, the candidates and the candidates that
`InvalidateBlock` collects are linked. `BestInv`: no candidate has more work than
`pindexMostWork`, or than the tip of a node at rest, unless an activation is due. `RoundInv`: the
tip a round started from remains a good block. `CompleteInv`: which blocks are candidates while the
tip moves. While a round disconnects down to the fork, blocks come to sort above the tip that are
no candidates; completeness is then about the blocks that are no worse than the tip the round
started from either, and the round cannot end on a block worse than that one. `SeqInv`: only a precious block
has a negative sequence number. The candidates are ordered by work, sequence number and
address; `WorseOrder` shows this order to be total, which every part uses.

The prover of a leaf is Zenon, except where one names SMT for its arithmetic.

Only model-checked: everything in `Mempool`, which sums over closures of a graph and so takes induction over
data; of `ChainSelection` the candidates of a pruned node, and that such a node forgets no linked block
that waits for a pruned one (both depend on how much work lies within `MinBlocksToKeep`), and
`UnlinkedExact` with `invalidateblock`. Liveness under fairness is outside what the prover handles
and stays with TLC everywhere; of `Recovers`, that is that a start comes to its end.

## What is not modelled, and why

- Consensus rules and scripts: a block either fails a given check or does not.
- `RewindBlockIndex`, `VerifyDB`, `-reindex`, the fork warnings, `pindexBestHeader`, the chunks
  of 32 blocks of `ActivateBestChainStep` (never filled by small trees), invalidation of the
  genesis block.
- `BLOCK_MUTATED` in `InvalidBlockFound`: `ConnectBlock` aborts before it gets there.
- Failing disks: a write that returns has succeeded; a LevelDB batch is atomic and there once it is
  written. The index database is written with a sync, the coins database is not: a power failure
  that takes back its last batches is not modelled, nor is `VerifyDB`, which may find lost undo
  data at the start.
- Tasks in the future, `scheduleEvery` and `MockForward` of the scheduler. Shutdown starts with
  the producers idle; the import thread, which is joined together with the scheduler's, is not
  among them.
- Indexes: the migration of the transaction index, the contents of filters, failing disks.
- Memory pool: which transaction a fee, script or standardness rule refuses, and which packages are
  evicted, is a free choice; `rollingMinimumFeeRate`, the fee estimator, `mempool.dat`,
  `m_unbroadcast_txids`. Transactions count as small enough for the carve-out. Orphans.
- Block download: blocks that fail validation and `mapBlockSource`, pruned and light peers,
  `nMinimumChainWork`, witness flags, the scoring of unconnecting headers, `submitblock`,
  `fTooFarAhead`, `EvictExtraOutboundPeers`, the exemption of manual connections, the order within
  `vBlocksInFlight`. The latch of `IsInitialBlockDownload` is replaced by a set of recent blocks that
  is closed upwards. Relay of transactions and addresses.
- Address manager, ban list, HTTP work queue and block assembly: data structures under one
  lock, or queries, that share little state with what is modelled. Wallet and connections: large
  parts of their own, of which `PROJECT.json` names what a model could start with. (A ban made while
  `DumpBanlist` writes loses its dirty flag and waits for the next change to be saved.)
- Version bits, proof of work, signature cache, fee statistics, scripts, cryptography: pure
  functions, wide or floating-point arithmetic, or memory-order arguments, which TLC's integers
  and interleavings do not reach or where test vectors are the better check.

Observations made while modelling which have no run of their own:

- On a pruned node `UnlinkPrunedFiles` comes before the coins are written. A crash within the
  batches can call for a block that is gone, and the start fails; `Recovers` says so by its
  condition on `havePruned`. With 288 blocks kept it takes a flush spanning that many.
- `ResetBlockFailureFlags` clears the flags of ancestors without putting them back among the
  candidates (validation.cpp:3103), where `CheckBlockIndex` wants them (4829-4832). It leaves
  `BLOCK_FAILED_CHILD` on siblings that failed because of the same ancestor.
- The condition at validation.cpp:3011 never selects a block, so that all blocks `InvalidateBlock`
  disconnects keep `BLOCK_FAILED_VALID`; the comment beside it wants it on the last one only.
- A waiting block that is pruned is taken off `m_blocks_unlinked` (3876) and is not linked when its
  parent arrives, against the equivalence `CheckBlockIndex` states for `HaveTxsDownloaded()`.
- `ReceivedBlockTransactions` does not let a block wait whose parent has failed (3193). When
  `invalidateblock` has marked a stored block that is itself waiting, its child is stored and not put on the
  list; once the missing ancestor arrives the marked block is linked and its child is not, against
  the same equivalence. `LinkedIffDownloaded` is therefore run and proved without `invalidateblock`; TLC
  finds the case with `CanInvalidate = {a2}`, one branch of three blocks whose headers are known.
- After a restart `LoadBlockIndex` enters a waiting block that was pruned into `m_blocks_unlinked` again, since
  it goes by `nTx` (4070-4076); `CheckBlockIndex` asserts "Can't be in m_blocks_unlinked if we don't
  HAVE_DATA" (4858). TLC shows the assertion violated when `UnlinkedSound` is stated without its
  condition on `restarts` and the node may stop at any time.
- `ReceivedBlockTransactions` gives a block that is downloaded again after pruning a new sequence
  number (3179). If it is the tip, after an `invalidateblock` or an aborted reorganisation that went as
  deep as the pruned blocks, a block of equal work now sorts better than the tip and is in
  no list, against `CheckBlockIndex`.
- `PreciousBlock` starts its numbers at -1 again when the chain has grown since the last call
  (2914-2917), although blocks numbered before keep theirs: a block made precious while it was
  above the tip, and another one now, both have -1. The order falls back on addresses, and the
  earlier block may sort better than the tip without being a candidate, against
  `CheckBlockIndex`. TLC finds it with `CanPrecious = {a2, b2}`, two branches of two blocks, three
  calls and the two memory layouts.
- `BlockChecked` and `NewPoWValidBlock` call listeners beside the queue, so that a listener can
  be in two callbacks at the same time.
- A listener that unregisters and registers again during a delivery may get the event twice.
- `ThreadSync` commits a locator that names `pindex` before it writes that block (index/base.cpp:131-135);
  after a crash between the two the block is never indexed (`gap`), and a filter looked up above the
  index's best block may be another block's.
- The last `Commit` of `ThreadSync` is not atomic: `m_synced` is set before it (base.cpp:111-113), and a
  block connected after the filter position is in the batch (blockfilterindex.cpp:145) and before
  `m_best_block_index` is read (base.cpp:171) is named by the locator while its filter lies beyond the position. A crash
  before the next commit leaves it in `gap`: the next filter is written over it. base.h:77 has
  `CommitInternal` "overridden to atomically commit more index state". TLC reaches such a
  database in 12 steps.
- `Rewind` asserts `current_tip == m_best_block_index` (base.cpp:177), which `ThreadSync` does not keep up to date
  between locator writes: a reorganisation there ends the process (`AssertFails`).
- `m_best_block_index` is null until the first block is indexed; `BlockUntilSyncedToCurrentChain` and
  `ChainStateFlushed` dereference it. RPCs of the model start after the genesis block.
- While the only preferred peer is silent, initial download does not fetch from inbound peers, as a
  comment in `SendMessages` says; `CatchesUp` is about honest outbound peers.
