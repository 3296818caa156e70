----------------------------- MODULE BlockIndex -----------------------------
(***************************************************************************)
(* The tree of known blocks (validation.cpp: BlockManager, CChainState;    *)
(* chain.h: CBlockIndex) and the operations on it that run in one critical *)
(* section of cs_main: a header or a block arrives, a block file is        *)
(* pruned, a block's failure flags are reset, the index is loaded again.   *)
(* ChainSelection adds the operations that hold m_cs_chainstate over       *)
(* several critical sections.                                              *)
(*                                                                         *)
(* A block is a model value; the constants say which tree the blocks form, *)
(* how much work each one's chain has, and which checks it would fail.     *)
(* Every block file holds one block.                                       *)
(***************************************************************************)
EXTENDS Integers, FiniteSets

CONSTANTS
    Blocks, Genesis, NoBlock,
    Parent,           \* [Blocks \ {Genesis} -> Blocks], hashPrevBlock
    Work,             \* [Blocks -> Nat], nChainWork
    Fault,            \* [Blocks -> {"none", "contextual", "connect"}]: what it
                      \* fails, ContextualCheckBlock or ConnectBlock
    Headers,          \* the headers received so far, Genesis included
    AddrOrders,       \* orders in which CBlockIndex objects may lie in memory
    MinBlocksToKeep,  \* MIN_BLOCKS_TO_KEEP
    MinimumChainWork, \* nMinimumChainWork
    PruneMode,        \* fPruneMode
    MaxSeq            \* bound on nBlockSequenceId

VARIABLES
    index,         \* m_block_index: the blocks whose header is known
    level,         \* nStatus & BLOCK_VALID_MASK
    flags,         \* the other bits of nStatus
    nTx,           \* blocks whose transactions were received at some time
    linked,        \* HaveTxsDownloaded(): nChainTx is set
    seqId,         \* nSequenceId
    addr,          \* where each CBlockIndex lies in memory
    candidates,    \* setBlockIndexCandidates
    unlinked,      \* m_blocks_unlinked (each pair is a block and its parent)
    failedBlocks,  \* m_failed_blocks
    tip,           \* m_chain.Tip()
    nextSeq,       \* nBlockSequenceId
    lastFile       \* the block in the last block file

treeVars == <<index, level, flags, nTx, linked, seqId, addr, candidates,
              unlinked, failedBlocks, tip, nextSeq, lastFile>>

TREE == 2           \* BLOCK_VALID_TREE
TRANSACTIONS == 3   \* BLOCK_VALID_TRANSACTIONS
SCRIPTS == 5        \* BLOCK_VALID_SCRIPTS
Flags == {"HAVE_DATA", "HAVE_UNDO", "FAILED_VALID", "FAILED_CHILD"}
FAILED_MASK == {"FAILED_VALID", "FAILED_CHILD"}

\* A block and its ancestors; its height.
Path[b \in Blocks] == IF b = Genesis THEN {b} ELSE Path[Parent[b]] \cup {b}
Height(b) == Cardinality(Path[b]) - 1

\* The blocks form a tree below Genesis in which work grows, as every block's proof of work
\* is positive; Path's equation then has one solution.  Genesis breaks no rule, headers are
\* only taken after their parents', and no two CBlockIndex objects have one address.
ASSUME BlockIndexAssumption ==
    /\ IsFiniteSet(Blocks) /\ Genesis \in Blocks /\ NoBlock \notin Blocks
    /\ Parent \in [Blocks \ {Genesis} -> Blocks] /\ Work \in [Blocks -> Nat]
    /\ \A b \in Blocks \ {Genesis} : Work[Parent[b]] < Work[b]
    /\ \A b \in Blocks : Path[b] = IF b = Genesis THEN {b} ELSE Path[Parent[b]] \cup {b}
    /\ Fault \in [Blocks -> {"none", "contextual", "connect"}] /\ Fault[Genesis] = "none"
    /\ Headers \subseteq Blocks /\ Genesis \in Headers
    /\ \A b \in Headers \ {Genesis} : Parent[b] \in Headers
    /\ \A m \in AddrOrders : \A a, b \in Blocks : m[a] \in Int /\ (m[a] = m[b] => a = b)

InChain(b) == b \in Path[tip]                       \* m_chain.Contains
Have(b, f) == f \in flags[b]
Failed(b) == flags[b] \cap FAILED_MASK # {}
IsValid(b, upTo) == ~Failed(b) /\ level[b] >= upTo

\* CBlockIndexWorkComparator, given the sequence ids s and the addresses m: a sorts
\* before (is worse than) b.
CBlockIndexWorkComparator(s, m, a, b) ==
    \/ Work[a] < Work[b]
    \/ Work[a] = Work[b] /\ s[a] > s[b]
    \/ Work[a] = Work[b] /\ s[a] = s[b] /\ m[a] > m[b]
Worse(a, b) == CBlockIndexWorkComparator(seqId, addr, a, b)

\* nStatus |= f for all blocks of S.
Raise(S, f) == [b \in Blocks |-> IF b \in S THEN flags[b] \cup {f} ELSE flags[b]]

\* LoadGenesisBlock, the activation of the genesis block at startup, and the headers
\* received by then.
TreeInit ==
    /\ index = Headers
    /\ level = [b \in Blocks |-> IF b = Genesis THEN TRANSACTIONS
                                 ELSE IF b \in Headers THEN TREE ELSE 0]
    /\ flags = [b \in Blocks |-> IF b = Genesis THEN {"HAVE_DATA"} ELSE {}]
    /\ nTx = {Genesis}
    /\ linked = {Genesis}
    /\ seqId = [b \in Blocks |-> IF b = Genesis THEN 1 ELSE 0]
    /\ addr \in AddrOrders
    /\ candidates = {Genesis}
    /\ unlinked = {}
    /\ failedBlocks = {}
    /\ tip = Genesis
    /\ nextSeq = 2
    /\ lastFile = Genesis

-----------------------------------------------------------------------------
\* The failed blocks the header of b descends from, looked at only when the
\* parent has not been fully validated.
FailedAncestors(b) ==
    IF IsValid(Parent[b], SCRIPTS) THEN {} ELSE failedBlocks \cap Path[Parent[b]]

\* AcceptBlockHeader and AddToBlockIndex: a new header on a good parent.
AcceptBlockHeader(b) ==
    /\ b \notin index
    /\ Parent[b] \in index
    /\ ~Failed(Parent[b])
    /\ FailedAncestors(b) = {}
    /\ index' = index \cup {b}
    /\ level' = [level EXCEPT ![b] = TREE]
    /\ UNCHANGED <<flags, nTx, linked, seqId, addr, candidates, unlinked,
                   failedBlocks, tip, nextSeq, lastFile>>

\* AcceptBlockHeader turns the header down because of a failed ancestor, and marks
\* the blocks between the two.
RejectBlockHeader(b) ==
    /\ b \notin index
    /\ Parent[b] \in index
    /\ ~Failed(Parent[b])
    /\ \E f \in FailedAncestors(b) :
          flags' = Raise(Path[Parent[b]] \ Path[f], "FAILED_CHILD")
    /\ UNCHANGED <<index, level, nTx, linked, seqId, addr, candidates, unlinked,
                   failedBlocks, tip, nextSeq, lastFile>>

\* AcceptBlock's conditions for looking at the block at all.  (It takes the header
\* first; here that is a step of its own, which a headers message takes as well.)
Wanted(b, fRequested) ==
    /\ b \in index \ {Genesis} /\ ~Failed(b)
    /\ ~Have(b, "HAVE_DATA")
    /\ fRequested \/ /\ b \notin nTx
                     /\ Work[b] >= Work[tip]
                     /\ Height(b) <= Height(tip) + MinBlocksToKeep
                     /\ Work[b] >= MinimumChainWork

\* AcceptBlock: ContextualCheckBlock fails (a block that fails CheckBlock
\* never gets here: ProcessNewBlock looks first).
RejectBlock(b, fRequested) ==
    /\ Wanted(b, fRequested)
    /\ Fault[b] = "contextual"
    /\ flags' = Raise({b}, "FAILED_VALID")
    /\ UNCHANGED <<index, level, nTx, linked, seqId, addr, candidates, unlinked,
                   failedBlocks, tip, nextSeq, lastFile>>

\* The blocks ReceivedBlockTransactions links: b, and what waited for it in
\* m_blocks_unlinked.
NowLinkedAlone(b) == {b}
NowLinked(b) ==
    {b} \cup {u \in unlinked : b \in Path[u] /\ Path[u] \ Path[b] \subseteq unlinked}

\* The orders in which its queue may hold them: breadth first.
QueueOrders(S) ==
    {f \in [S -> 0..(Cardinality(S) - 1)] :
        \A x, y \in S : x # y => f[x] # f[y] /\ (Height(x) < Height(y) => f[x] < f[y])}

\* ReceivedBlockTransactions for a block whose parents are all there.
LinkBlocks(b) ==
    LET S == NowLinked(b) IN
    /\ nextSeq + Cardinality(S) <= MaxSeq
    /\ \E order \in QueueOrders(S) :
          seqId' = [x \in Blocks |-> IF x \in S THEN nextSeq + order[x] ELSE seqId[x]]
    /\ nextSeq' = nextSeq + Cardinality(S)
    /\ linked' = linked \cup S
    /\ candidates' = candidates \cup
          {x \in S : ~CBlockIndexWorkComparator(seqId', addr, x, tip)}
    /\ unlinked' = unlinked \ (S \ {b})

\* ... and for one that has to wait: it does unless its parent has failed.
CanWait(b) == IsValid(Parent[b], TREE)

LinkLater(b) ==
    /\ unlinked' = IF CanWait(b) THEN unlinked \cup {b} ELSE unlinked
    /\ linked' = linked \ {b}
    /\ UNCHANGED <<seqId, nextSeq, candidates>>

\* AcceptBlock: the block is stored.
AcceptBlock(b, fRequested) ==
    /\ Wanted(b, fRequested)
    /\ Fault[b] # "contextual"
    /\ flags' = Raise({b}, "HAVE_DATA")
    /\ nTx' = nTx \cup {b}
    /\ level' = [level EXCEPT ![b] = IF @ < TRANSACTIONS THEN TRANSACTIONS ELSE @]
    /\ lastFile' = b
    /\ IF Parent[b] \in linked THEN LinkBlocks(b) ELSE LinkLater(b)
    /\ UNCHANGED <<index, addr, failedBlocks, tip>>

\* What is left of a pruned block's flags, and of m_blocks_unlinked.
FlagsKept(b) == flags[b] \ {"HAVE_DATA", "HAVE_UNDO"}
StillWaiting(b) == unlinked \ {b}

\* PruneOneBlockFile, from FlushStateToDisk: the last file, and those with a block
\* within MIN_BLOCKS_TO_KEEP of the tip, are kept.
PruneOneBlockFile(b) ==
    /\ PruneMode
    /\ Have(b, "HAVE_DATA")
    /\ b # lastFile
    /\ Height(b) + MinBlocksToKeep <= Height(tip)
    /\ flags' = [flags EXCEPT ![b] = FlagsKept(b)]
    /\ unlinked' = StillWaiting(b)
    /\ UNCHANGED <<index, level, nTx, linked, seqId, addr, candidates,
                   failedBlocks, tip, nextSeq, lastFile>>

\* What is erased from m_failed_blocks for b, given its failed descendants.
Forgiven(b, cleared) == cleared \cup Path[b]

\* ResetBlockFailureFlags: b, its descendants and its ancestors.
ResetBlockFailureFlags(b) ==
    LET below == {x \in index : b \in Path[x]}
        cleared == {x \in below : ~IsValid(x, TRANSACTIONS)}
        flags1 == [x \in Blocks |-> IF x \in cleared \cup Path[b]
                                    THEN flags[x] \ FAILED_MASK ELSE flags[x]]
    IN
    /\ b \in index
    /\ flags' = flags1
    /\ candidates' = candidates \cup
          {x \in cleared : level[x] >= TRANSACTIONS /\ x \in linked /\ Worse(tip, x)}
    /\ failedBlocks' = failedBlocks \ Forgiven(b, cleared)
    /\ UNCHANGED <<index, level, nTx, linked, seqId, addr, unlinked, tip, nextSeq,
                   lastFile>>

\* LoadBlockIndex and LoadChainTip after a clean shutdown: what is not stored is
\* derived again, sequence ids start over, objects lie elsewhere in memory.
LoadBlockIndex ==
    /\ linked' = {b \in index : Path[b] \subseteq nTx}
    /\ unlinked' = {b \in nTx \ {Genesis} : Parent[b] \notin linked'}
    /\ flags' = Raise({b \in index : ~Failed(b) /\ \E a \in Path[b] : Failed(a)},
                      "FAILED_CHILD")
    /\ seqId' = [b \in Blocks |-> 0]
    /\ addr' \in AddrOrders
    /\ candidates' = {b \in linked' :
                          /\ flags'[b] \cap FAILED_MASK = {}
                          /\ level[b] >= TRANSACTIONS
                          /\ ~CBlockIndexWorkComparator(seqId', addr', b, tip)}
    /\ failedBlocks' = {}
    /\ nextSeq' = 1
    /\ UNCHANGED <<index, level, nTx, tip, lastFile>>
=============================================================================
