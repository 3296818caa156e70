------------------------------ MODULE Mempool ------------------------------
(***************************************************************************)
(* The memory pool (CTxMemPool), what AcceptToMemoryPool lets into it, and *)
(* how connecting and disconnecting blocks keeps it consistent with the    *)
(* active chain (ConnectTip, DisconnectTip, UpdateMempoolForReorg).        *)
(*                                                                         *)
(* cs_main and mempool.cs are held from the first DisconnectTip of a       *)
(* reorganisation to the end of UpdateMempoolForReorg, so nothing else     *)
(* runs in between; the steps in between are nevertheless states of the    *)
(* model, because the pool is inconsistent there and the code works on it. *)
(*                                                                         *)
(* The totals an entry keeps for its package (count, size, signature       *)
(* operations, base fees) are one bag of transactions: every one of them   *)
(* is the sum of a weight over that bag.  Fee deltas are kept apart.       *)
(* Chosen freely: the fees and scripts that make policy refuse a           *)
(* transaction, the times and fee rates that select what is evicted.       *)
(***************************************************************************)
EXTENDS Integers, Sequences, FiniteSets, FiniteSetsExt, SequencesExt

CONSTANTS
    Txs,                \* the transactions
    NoTx,               \* no transaction
    Inputs,             \* tx.vin: for each transaction the sequence of its prevouts <<hash, n>>
    Outputs,            \* all the outpoints
    Base,               \* the outpoints that blocks below the modelled chain leave unspent
    Coinbases,          \* the transactions that are coinbases
    LockTime,           \* nLockTime, as a height
    OptOut,             \* the transactions that do not signal replaceability
    CoinbaseMaturity,   \* COINBASE_MATURITY
    LimitAncestors,     \* -limitancestorcount
    LimitDescendants,   \* -limitdescendantcount
    MaxDisconnected,    \* MAX_DISCONNECTED_TX_POOL_SIZE, in transactions
    MaxBlockTxs,        \* bound: transactions in a block
    MaxHeight,          \* bound: blocks of the modelled chain
    Prioritised,        \* bound: the transactions that are given a fee delta
    MaxDelta,           \* bound: fee delta of a transaction
    MaxEvict            \* bound: packages evicted by one LimitMempoolSize

VARIABLES
    chain,              \* m_chain above the base: a sequence of blocks
    pool,               \* CTxMemPool
    disconnectpool,     \* DisconnectedBlockTransactions::queuedTx, in insertion order
    vHashUpdate,        \* UpdateMempoolForReorg: what was added back, in order
    phase,              \* "idle"; in a reorganisation "disconnect", "connect", "add", "erase"
    oldHeight,          \* pindexOldTip, by height
    relinked            \* history: UpdateTransactionsFromBlock has joined packages

vars == <<chain, pool, disconnectpool, vHashUpdate, phase, oldHeight, relinked>>

-----------------------------------------------------------------------------
(* The chain and its coins.                                                 *)

Vin(t) == ToSet(Inputs[t])
ParentHashes(t) == {o[1] : o \in Vin(t)}

Confirmed(c) == UNION {ToSet(c[h]) : h \in DOMAIN c}
Unspent(c) == (Base \cup {o \in Outputs : o[1] \in Confirmed(c)})
                 \ UNION {Vin(t) : t \in Confirmed(c)}
CoinHeight(c, t) == CHOOSE h \in DOMAIN c : t \in ToSet(c[h])

\* CheckFinalTx and CheckSequenceLocks for the block after c.
CheckFinalTx(c, t) == LockTime[t] < Len(c) + 1

Immature(c, o) ==
    o[1] \in Coinbases /\ Len(c) + 1 - CoinHeight(c, o[1]) < CoinbaseMaturity

\* ConnectBlock accepts block after chain c.
ValidBlock(c, block) ==
    /\ IsInjective(block)
    /\ \A i \in DOMAIN block :
          LET t == block[i]
              seen == Append(c, SubSeq(block, 1, i - 1)) IN
          /\ t \notin Confirmed(c)
          /\ t \in Coinbases => i = 1
          /\ Vin(t) \subseteq Unspent(seen)
          /\ CheckFinalTx(c, t)
          /\ \A o \in Vin(t) \cap Unspent(c) : ~Immature(c, o)

-----------------------------------------------------------------------------
(* Entries and links.                                                       *)

None == [x \in Txs |-> 0]
Zero == [t \in Txs |-> None]

EmptyPool ==
    [mapTx |-> {},                          \* the entries
     mapNextTx |-> [o \in Outputs |-> NoTx],
     parents |-> [t \in Txs |-> {}],        \* mapLinks
     children |-> [t \in Txs |-> {}],
     anc |-> Zero,                          \* n...WithAncestors, as a bag
     desc |-> Zero,                         \* n...WithDescendants, as a bag
     ancDelta |-> None,                     \* the fee deltas in nModFeesWithAncestors
     descDelta |-> None,                    \* the fee deltas in nModFeesWithDescendants
     feeDelta |-> None,                     \* CTxMemPoolEntry::feeDelta
     mapDeltas |-> None]                    \* mapDeltas, 0 for no entry

\* Everything reached from S along the links.
Closure(links, S) ==
    LET upTo[n \in 0 .. Cardinality(Txs)] ==
          IF n = 0 THEN S
          ELSE LET near == upTo[n - 1] IN near \cup UNION {links[x] : x \in near}
    IN upTo[Cardinality(Txs)]

\* CalculateDescendants of the members of S, themselves included.
CalculateDescendants(p, S) == Closure(p.children, S)

\* CalculateMemPoolAncestors without limits, with fSearchForParents and without.
CalculateMemPoolAncestors(p, t) == Closure(p.parents, ParentHashes(t) \cap p.mapTx)
LinkedAncestors(p, t) == Closure(p.parents, p.parents[t])

Owners(owners, S, a) == {x \in S : a \in owners[x]}
Shift(bags, owners, S, n) ==
    [a \in Txs |-> [x \in Txs |-> bags[a][x] + (IF x \in Owners(owners, S, a) THEN n ELSE 0)]]
ShiftDelta(p, deltas, owners, S, n) ==
    [a \in Txs |-> deltas[a] + n * MapThenSumSet(LAMBDA x : p.feeDelta[x], Owners(owners, S, a))]

\* n times: update_descendant_state, by each x in S, of the entries owners[x].
UpdateDescendantState(p, owners, S, n) ==
    [p EXCEPT !.desc = Shift(@, owners, S, n),
              !.descDelta = ShiftDelta(p, @, owners, S, n)]

\* The same with update_ancestor_state.
UpdateAncestorState(p, owners, S, n) ==
    [p EXCEPT !.anc = Shift(@, owners, S, n),
              !.ancDelta = ShiftDelta(p, @, owners, S, n)]

\* Only(t, S): S for t, nothing for another transaction.
Only(t, S) == [x \in Txs |-> IF x = t THEN S ELSE {}]

-----------------------------------------------------------------------------
(* Adding and removing.                                                     *)

\* addUnchecked(entry, setAncestors): the new entry is taken to have no children.
addUnchecked(p, t, setAncestors) ==
    LET newParents == ParentHashes(t) \cap p.mapTx
        q == [p EXCEPT !.mapTx = @ \cup {t},
                       !.mapNextTx = [o \in Outputs |-> IF o \in Vin(t) /\ @[o] = NoTx THEN t ELSE @[o]],
                       !.feeDelta[t] = p.mapDeltas[t],
                       !.parents[t] = newParents,
                       !.children = [x \in Txs |-> IF x \in newParents THEN @[x] \cup {t} ELSE @[x]]]
        r == UpdateDescendantState(q, Only(t, setAncestors \cup {t}), {t}, 1)
    IN UpdateAncestorState(r, [x \in Txs |-> IF x \in setAncestors \cup {t} THEN {t} ELSE {}],
                           setAncestors \cup {t}, 1)

\* Variant: the ancestors are searched for instead of followed along mapLinks.
SearchedForRemove(p, S, updateDescendants) ==
    LET below == [x \in Txs |-> CalculateDescendants(p, {x}) \ {x}]
        above == [x \in Txs |-> CalculateMemPoolAncestors(p, x)]
        q == IF updateDescendants THEN UpdateAncestorState(p, below, S, -1) ELSE p
        r == UpdateDescendantState(q, above, S, -1)
    IN [r EXCEPT !.children = [x \in Txs |-> {y \in @[x] : ~(y \in S /\ x \in p.parents[y])}],
                 !.parents = [y \in Txs |-> {x \in @[y] : ~(x \in S /\ y \in p.children[x])}]]

\* UpdateForRemoveFromMempool: the statistics of those that stay, then the links.
UpdateForRemoveFromMempool(p, S, updateDescendants) ==
    LET below == [x \in Txs |-> CalculateDescendants(p, {x}) \ {x}]
        above == [x \in Txs |-> LinkedAncestors(p, x)]
        q == IF updateDescendants THEN UpdateAncestorState(p, below, S, -1) ELSE p
        r == UpdateDescendantState(q, above, S, -1)
    IN [r EXCEPT !.children = [x \in Txs |-> {y \in @[x] : ~(y \in S /\ x \in p.parents[y])}],
                 !.parents = [y \in Txs |-> {x \in @[y] : ~(x \in S /\ y \in p.children[x])}]]

\* removeUnchecked for each member of S: entry, links and prevouts are erased.
removeUnchecked(p, S) ==
    [p EXCEPT !.mapTx = @ \ S,
              !.mapNextTx = [o \in Outputs |-> IF \E t \in S : o \in Vin(t) THEN NoTx ELSE @[o]],
              !.parents = [t \in Txs |-> IF t \in S THEN {} ELSE @[t]],
              !.children = [t \in Txs |-> IF t \in S THEN {} ELSE @[t]],
              !.anc = [t \in Txs |-> IF t \in S THEN None ELSE @[t]],
              !.desc = [t \in Txs |-> IF t \in S THEN None ELSE @[t]],
              !.ancDelta = [t \in Txs |-> IF t \in S THEN 0 ELSE @[t]],
              !.descDelta = [t \in Txs |-> IF t \in S THEN 0 ELSE @[t]],
              !.feeDelta = [t \in Txs |-> IF t \in S THEN 0 ELSE @[t]]]

RemoveStaged(p, S, updateDescendants) ==
    removeUnchecked(UpdateForRemoveFromMempool(p, S, updateDescendants), S)

\* Variant: nothing is removed when t itself is not in the pool.
removeOnlyPresent(p, t) == RemoveStaged(p, CalculateDescendants(p, {t} \cap p.mapTx), FALSE)

\* removeRecursive: t and what depends on it, or what spends t when t is not in the pool.
removeRecursive(p, t) ==
    LET txToRemove == IF t \in p.mapTx THEN {t}
                      ELSE {p.mapNextTx[o] : o \in {o \in Outputs : o[1] = t}} \ {NoTx}
    IN RemoveStaged(p, CalculateDescendants(p, txToRemove), FALSE)

ClearPrioritisation(p, t) == [p EXCEPT !.mapDeltas[t] = 0]

\* removeConflicts: who else spends an input of t goes, with its descendants.
removeConflicts(p, t) ==
    FoldLeft(LAMBDA q, o : IF q.mapNextTx[o] \in {NoTx, t} THEN q
                           ELSE removeRecursive(ClearPrioritisation(q, q.mapNextTx[o]), q.mapNextTx[o]),
             p, Inputs[t])

\* CTxMemPool::removeForBlock, one transaction of the block after the other.
removeForBlock(p, vtx) ==
    FoldLeft(LAMBDA q, t : ClearPrioritisation(
                 removeConflicts(IF t \in q.mapTx THEN RemoveStaged(q, {t}, TRUE) ELSE q, t), t),
             p, vtx)

\* removeForReorg: what the shorter or other chain makes non-final or immature.
removeForReorg(p, c) ==
    LET SpendsCoinbase(t) == ParentHashes(t) \cap Coinbases # {}
        txToRemove ==
          {t \in p.mapTx :
              \/ ~CheckFinalTx(c, t)
              \/ /\ SpendsCoinbase(t)
                 /\ \E o \in Vin(t) : /\ o[1] \notin p.mapTx
                                      /\ o \notin Unspent(c) \/ Immature(c, o)}
    IN RemoveStaged(p, CalculateDescendants(p, txToRemove), FALSE)

\* LimitMempoolSize: Expire and TrimToSize evict packages; times and fee rates say which.
Evictions(p) == {S \in SUBSET p.mapTx : Cardinality(S) <= MaxEvict}
LimitMempoolSize(p, S) == RemoveStaged(p, CalculateDescendants(p, S), FALSE)

-----------------------------------------------------------------------------
(* AcceptToMemoryPool.                                                      *)

setConflicts(p, t) == {p.mapNextTx[o] : o \in Vin(t)} \ {NoTx}

\* CalculateMemPoolAncestors stays within these limits.
Size(bag) == MapThenSumSet(LAMBDA x : bag[x], Txs)
WithinLimits(p, t, limitAncestors, limitDescendants) ==
    LET A == CalculateMemPoolAncestors(p, t) IN
    /\ Cardinality(A) + 1 <= limitAncestors
    /\ \A a \in A : Size(p.desc[a]) + 1 <= limitDescendants

\* The package limits, one higher for a single conflict, and the carve-out for one more
\* child of a lone parent.
PackageLimits(p, t) ==
    LET limit == LimitDescendants + (IF Cardinality(setConflicts(p, t)) = 1 THEN 1 ELSE 0) IN
    WithinLimits(p, t, LimitAncestors, limit) \/ WithinLimits(p, t, 2, limit + 1)

\* Variant: a replacement may add unconfirmed parents.
ReplacementAddsParents(p, t) ==
    LET C == setConflicts(p, t) IN
    C \cap OptOut = {} /\ C \cap CalculateMemPoolAncestors(p, t) = {}

\* A replacement neither spends what it replaces nor has a new unconfirmed parent.
ReplacementAllowed(p, t) ==
    LET C == setConflicts(p, t) IN
    /\ C \cap OptOut = {}
    /\ C \cap CalculateMemPoolAncestors(p, t) = {}
    /\ C # {} => ParentHashes(t) \cap p.mapTx \subseteq UNION {ParentHashes(x) : x \in C}

\* MemPoolAccept::PreChecks, without the rules on fees, standardness and scripts.
PreChecks(p, c, t) ==
    /\ t \notin Coinbases
    /\ CheckFinalTx(c, t)
    /\ t \notin p.mapTx
    /\ \A o \in Vin(t) : o[1] \in p.mapTx \/ o \in Unspent(c)
    /\ \A o \in Vin(t) : o[1] \notin p.mapTx => ~Immature(c, o)
    /\ PackageLimits(p, t)
    /\ ReplacementAllowed(p, t)

\* MemPoolAccept::Finalize up to the size limit; the ancestors are those PreChecks found.
Finalize(p, t) ==
    addUnchecked(RemoveStaged(p, CalculateDescendants(p, setConflicts(p, t)), FALSE),
                 t, CalculateMemPoolAncestors(p, t))

-----------------------------------------------------------------------------
(* UpdateTransactionsFromBlock.                                             *)

\* UpdateForDescendants: what is below t and outside setExclude joins t's package.
\* The descendants of a cached child are taken from the cache.
UpdateForDescendants(p, cache, t, setExclude) ==
    LET uncached == [x \in Txs |-> {k \in p.children[x] : cache[k] = {}}]
        walked == Closure(uncached, p.children[t])
        all == walked \cup UNION {cache[k] : k \in UNION {p.children[x] : x \in walked}}
        new == all \ setExclude
        q == UpdateAncestorState(p, Only(t, new), {t}, 1)
    IN [pool |-> UpdateDescendantState(q, [x \in Txs |-> IF x \in new THEN {t} ELSE {}], new, 1),
        cache |-> [cache EXCEPT ![t] = @ \cup new]]

\* The children outside the list that spend t are linked to it.
Relink(p, t, setAlreadyIncluded) ==
    LET kids == {p.mapNextTx[o] : o \in {o \in Outputs : o[1] = t}} \ ({NoTx} \cup setAlreadyIncluded)
    IN [p EXCEPT !.children[t] = @ \cup kids,
                 !.parents = [x \in Txs |-> IF x \in kids THEN @[x] \cup {t} ELSE @[x]]]

\* UpdateTransactionsFromBlock: from the last of the list to the first.
UpdateTransactionsFromBlock(p, vHashesToUpdate) ==
    FoldRight(LAMBDA t, s :
                 IF t \notin s.pool.mapTx THEN s
                 ELSE UpdateForDescendants(Relink(s.pool, t, ToSet(vHashesToUpdate)),
                                           s.cache, t, ToSet(vHashesToUpdate)),
              vHashesToUpdate, [pool |-> p, cache |-> [x \in Txs |-> {}]]).pool

-----------------------------------------------------------------------------
Init ==
    /\ chain = <<>>
    /\ pool = EmptyPool
    /\ disconnectpool = <<>>
    /\ vHashUpdate = <<>>
    /\ phase = "idle"
    /\ oldHeight = 0
    /\ relinked = FALSE

\* A transaction from a peer, the wallet or an RPC that no rule left out here refuses.
AcceptToMemoryPool(t) ==
    /\ phase = "idle"
    /\ PreChecks(pool, chain, t)
    /\ LET q == Finalize(pool, t) IN \E S \in Evictions(q) : pool' = LimitMempoolSize(q, S)
    /\ UNCHANGED <<chain, disconnectpool, vHashUpdate, phase, oldHeight, relinked>>

\* PrioritiseTransaction with a delta of 1.
PrioritiseTransaction(t) ==
    /\ phase = "idle"
    /\ pool.mapDeltas[t] < MaxDelta
    /\ LET q == [pool EXCEPT !.mapDeltas[t] = @ + 1]
           up == LinkedAncestors(pool, t)
           down == CalculateDescendants(pool, {t}) \ {t} IN
       pool' = IF t \notin pool.mapTx THEN q
               ELSE [q EXCEPT !.feeDelta[t] = q.mapDeltas[t],
                              !.descDelta = [x \in Txs |-> @[x] + (IF x \in up \cup {t} THEN 1 ELSE 0)],
                              !.ancDelta = [x \in Txs |-> @[x] + (IF x \in down \cup {t} THEN 1 ELSE 0)]]
    /\ UNCHANGED <<chain, disconnectpool, vHashUpdate, phase, oldHeight, relinked>>

\* DisconnectTip: the block's transactions are queued from the last to the first; what
\* exceeds the size limit leaves at the front, with its children in the pool.
DisconnectTip ==
    /\ phase \in {"idle", "disconnect"}
    /\ chain # <<>>
    /\ LET queued == disconnectpool \o Reverse(Last(chain))
           excess == Max({0, Len(queued) - MaxDisconnected}) IN
       /\ pool' = FoldLeft(removeRecursive, pool, SubSeq(queued, 1, excess))
       /\ disconnectpool' = SubSeq(queued, excess + 1, Len(queued))
    /\ chain' = Front(chain)
    /\ oldHeight' = IF phase = "idle" THEN Len(chain) ELSE oldHeight
    /\ phase' = "disconnect"
    /\ UNCHANGED <<vHashUpdate, relinked>>

\* Variant: what the new branch confirms stays queued.
UnqueueNothing(queue, block) == queue

\* disconnectpool.removeForBlock.
Unqueue(queue, block) == SelectSeq(queue, LAMBDA t : t \notin ToSet(block))

\* ConnectTip, for a block on the tip or for the next one of a better branch.
ConnectTip(block) ==
    /\ Len(chain) < MaxHeight
    /\ phase = "idle" \/ (phase \in {"disconnect", "connect"} /\ Len(chain) <= oldHeight)
    /\ ValidBlock(chain, block)
    /\ chain' = Append(chain, block)
    /\ pool' = removeForBlock(pool, block)
    /\ disconnectpool' = Unqueue(disconnectpool, block)
    /\ phase' = IF phase = "idle" THEN "idle" ELSE "connect"
    /\ UNCHANGED <<vHashUpdate, oldHeight, relinked>>

\* UpdateMempoolForReorg is called: the branch is better, a block of it is invalid, or
\* InvalidateBlock has disconnected one more block; without fAddToMempool after a system
\* error or from the eleventh block of InvalidateBlock on.
UpdateMempoolForReorg ==
    /\ phase \in {"disconnect", "connect"}
    /\ phase' \in {"add", "erase"}
    /\ UNCHANGED <<chain, pool, disconnectpool, vHashUpdate, oldHeight, relinked>>

\* One iteration of its loop, from the earliest transaction on: AcceptToMemoryPool takes it
\* back, or refuses it and what depends on it goes.
ReAdd ==
    /\ phase \in {"add", "erase"}
    /\ disconnectpool # <<>>
    /\ LET t == Last(disconnectpool) IN
       \/ /\ phase = "add"
          /\ PreChecks(pool, chain, t)
          /\ pool' = Finalize(pool, t)
          /\ vHashUpdate' = Append(vHashUpdate, t)
       \/ /\ pool' = removeRecursive(pool, t)
          /\ UNCHANGED vHashUpdate
    /\ disconnectpool' = Front(disconnectpool)
    /\ UNCHANGED <<chain, phase, oldHeight, relinked>>

\* The rest of UpdateMempoolForReorg.
FinishReorg ==
    /\ phase \in {"add", "erase"}
    /\ disconnectpool = <<>>
    /\ LET joined == UpdateTransactionsFromBlock(pool, vHashUpdate)
           final == removeForReorg(joined, chain) IN
       /\ \E S \in Evictions(final) : pool' = LimitMempoolSize(final, S)
       /\ relinked' = (relinked \/ joined.children # pool.children)
    /\ vHashUpdate' = <<>>
    /\ phase' = "idle"
    /\ oldHeight' = 0
    /\ UNCHANGED <<chain, disconnectpool>>

Next ==
    \/ \E t \in Txs : AcceptToMemoryPool(t)
    \/ \E t \in Prioritised : PrioritiseTransaction(t)
    \/ DisconnectTip
    \/ \E block \in BoundedSeq(Txs, MaxBlockTxs) : ConnectTip(block)
    \/ UpdateMempoolForReorg
    \/ ReAdd
    \/ FinishReorg

Spec == Init /\ [][Next]_vars

-----------------------------------------------------------------------------
\* Types.
TypeOK ==
    /\ chain \in Seq(Seq(Txs))
    /\ pool.mapTx \subseteq Txs \ Coinbases
    /\ pool.mapNextTx \in [Outputs -> Txs \cup {NoTx}]
    /\ disconnectpool \in Seq(Txs) /\ vHashUpdate \in Seq(Txs)
    /\ phase \in {"idle", "disconnect", "connect", "add", "erase"}

\* What CTxMemPool::check asserts whenever the locks are free: each entry spends unspent
\* coins or outputs of other entries, mapNextTx holds exactly the prevouts of the entries,
\* and the links are exactly who spends whom.
PoolConsistent ==
    phase = "idle" =>
        /\ \A t \in pool.mapTx :
              /\ \A o \in Vin(t) : o[1] \in pool.mapTx \/ o \in Unspent(chain)
              /\ pool.parents[t] = ParentHashes(t) \cap pool.mapTx
              /\ pool.children[t] = {x \in pool.mapTx : t \in ParentHashes(x)}
              /\ \A o \in Vin(t) : ~(o[1] \notin pool.mapTx /\ Immature(chain, o))
              /\ CheckFinalTx(chain, t)
        /\ \A o \in Outputs : {t \in pool.mapTx : o \in Vin(t)} = {pool.mapNextTx[o]} \ {NoTx}

\* At every point of a reorganisation the packages an entry is counted in are those of its
\* ancestors along mapLinks, once each, with its fee delta: what UpdateForRemoveFromMempool
\* relies on when it removes entries before UpdateTransactionsFromBlock has run.
PackagesMatchLinks ==
    LET Above == [t \in Txs |-> IF t \in pool.mapTx THEN LinkedAncestors(pool, t) \cup {t} ELSE {}]
        Deltas(S) == MapThenSumSet(LAMBDA x : pool.mapDeltas[x], S) IN
    \A a \in pool.mapTx :
        /\ \A t \in Txs : /\ pool.desc[a][t] = IF a \in Above[t] THEN 1 ELSE 0
                          /\ pool.anc[a][t] = IF t \in Above[a] THEN 1 ELSE 0
        /\ pool.descDelta[a] = Deltas({t \in Txs : a \in Above[t]})
        /\ pool.ancDelta[a] = Deltas(Above[a])

\* UpdateMempoolForReorg's assumption: a disconnected transaction is neither confirmed by
\* the new branch nor in the pool, and no entry conflicts with it, so adding it back never
\* replaces anything.
DisconnectedApart ==
    \A t \in ToSet(disconnectpool) :
        /\ t \notin pool.mapTx
        /\ t \notin Confirmed(chain)
        /\ setConflicts(pool, t) = {}

\* Unless a reorganisation joins packages, no package has more than the descendant limit and
\* the one child of the carve-out, however replacements, evictions and blocks alternate.
LimitsHold ==
    ~relinked => \A t \in pool.mapTx : /\ Size(pool.desc[t]) <= LimitDescendants + 1
                                       /\ Size(pool.anc[t]) <= Max({LimitAncestors, 2})
=============================================================================
