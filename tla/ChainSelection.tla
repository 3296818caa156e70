--------------------------- MODULE ChainSelection ---------------------------
(***************************************************************************)
(* Choosing the active chain (validation.cpp: ActivateBestChain,           *)
(* InvalidateBlock, PreciousBlock, and the callers of ResetBlockFailure-   *)
(* Flags) while headers and blocks keep arriving and block files are       *)
(* pruned.                                                                 *)
(*                                                                         *)
(* ActivateBestChain and InvalidateBlock hold m_cs_chainstate from start   *)
(* to end, so at most one of them is under way (pc and the variables of    *)
(* its stack frame).  Both let go of cs_main between rounds; everything    *)
(* else only needs cs_main, and steps in wherever it is free.              *)
(***************************************************************************)
EXTENDS BlockIndex

CONSTANTS
    CanInvalidate, CanReconsider, CanPrecious,  \* arguments of the RPCs
    MaxCalls,         \* bound on the calls of these RPCs
    MaxRestarts       \* bound on restarts

VARIABLES
    pc,            \* where the holder of m_cs_chainstate is
    mostWork,      \* pindexMostWork
    startTip,      \* starting_tip
    oldTip,        \* pindexOldTip
    progressed,    \* blocks_connected
    target,        \* InvalidateBlock's pindex
    toMark,        \* to_mark_failed
    byWork,        \* candidate_blocks_by_work
    pending,       \* a caller of ActivateBestChain has yet to get m_cs_chainstate
    shutdown,      \* ShutdownRequested()
    revSeq,        \* nBlockReverseSequenceId
    lastPrecious,  \* nLastPreciousChainwork
    reconsidered,  \* reconsiderblock has been called
    calls, restarts

frame == <<mostWork, startTip, oldTip, progressed, target, toMark, byWork>>
others == <<revSeq, lastPrecious, reconsidered, calls, restarts>>
vars == <<treeVars, frame, others, pc, pending, shutdown>>

\* The parts of the tree a step of chain selection leaves alone.
treeSame == <<index, nTx, linked, seqId, addr, nextSeq, lastFile>>

Init ==
    /\ TreeInit
    /\ pc = "idle"
    /\ mostWork = NoBlock /\ startTip = NoBlock /\ oldTip = NoBlock
    /\ progressed = FALSE
    /\ target = NoBlock /\ toMark = NoBlock /\ byWork = {}
    /\ pending = FALSE /\ shutdown = FALSE
    /\ revSeq = -1 /\ lastPrecious = 0 /\ reconsidered = FALSE
    /\ calls = 0 /\ restarts = 0

\* cs_main is not held by chain selection.
MainFree == pc \in {"idle", "abc", "inv", "mark"}

\* An RPC user is still busy.
CountCall == calls < MaxCalls /\ calls' = calls + 1

\* The frame is gone when m_cs_chainstate is released.
Return ==
    /\ pc' = "idle"
    /\ mostWork' = NoBlock /\ startTip' = NoBlock /\ oldTip' = NoBlock
    /\ progressed' = FALSE
    /\ target' = NoBlock /\ toMark' = NoBlock /\ byWork' = {}

-----------------------------------------------------------------------------
\* ActivateBestChain takes m_cs_chainstate ...
EnterActivateBestChain ==
    /\ pc = "idle" /\ pending
    /\ pc' = "abc" /\ pending' = FALSE
    /\ UNCHANGED <<treeVars, frame, others, shutdown>>

\* ... and, for every round, cs_main.
BeginRound ==
    /\ pc = "abc"
    /\ pc' = "find" /\ startTip' = tip /\ progressed' = FALSE
    /\ UNCHANGED <<treeVars, others, mostWork, oldTip, target, toMark, byWork,
                   pending, shutdown>>

\* The block FindMostWorkChain looks at: the last one of setBlockIndexCandidates.
BestCandidate == CHOOSE c \in candidates : \A d \in candidates \ {c} : Worse(d, c)

\* The blocks between the active chain and c that rule c out, and the highest.
ObstaclesMissing(c) == {x \in Path[c] \ Path[tip] : ~Have(x, "HAVE_DATA")}
Obstacles(c) == {x \in Path[c] \ Path[tip] : Failed(x) \/ ~Have(x, "HAVE_DATA")}
Obstacle(c) == CHOOSE x \in Obstacles(c) : Obstacles(c) \subseteq Path[x]

\* What becomes of the blocks above an obstacle x: failed as well, or waiting.
FlagsAbove(x, above) == IF Failed(x) THEN Raise(above, "FAILED_CHILD") ELSE flags
WaitingAboveNone(x, above) == unlinked
WaitingAbove(x, above) == IF Failed(x) THEN unlinked ELSE unlinked \cup above

\* FindMostWorkChain: the best candidate is unusable; drop the chain down to the
\* obstacle, as failed or to wait for the missing data.
DropCandidate ==
    /\ pc = "find" /\ mostWork = NoBlock /\ candidates # {}
    /\ Obstacles(BestCandidate) # {}
    /\ LET x == Obstacle(BestCandidate)
           above == Path[BestCandidate] \ Path[x]
       IN  /\ candidates' = candidates \ (above \cup {x})
           /\ flags' = FlagsAbove(x, above)
           /\ unlinked' = WaitingAbove(x, above)
    /\ UNCHANGED <<treeSame, level, failedBlocks, tip, frame, others, pc, pending,
                   shutdown>>

\* FindMostWorkChain: it is usable.
FindMostWorkChain ==
    /\ pc = "find" /\ mostWork = NoBlock /\ candidates # {}
    /\ Obstacles(BestCandidate) = {}
    /\ mostWork' = BestCandidate
    /\ UNCHANGED <<treeVars, others, pc, startTip, oldTip, progressed, target,
                   toMark, byWork, pending, shutdown>>

\* The end of a round: cs_main is released, and another round is due unless the
\* best chain has been reached (or the node is shutting down).
EndRound ==
    IF tip = mostWork \/ shutdown
    THEN Return
    ELSE /\ pc' = "abc" /\ startTip' = NoBlock /\ oldTip' = NoBlock
         /\ progressed' = FALSE
         /\ UNCHANGED <<mostWork, target, toMark, byWork>>

\* Nothing (more) to do.
NothingToDo ==
    /\ pc = "find"
    /\ mostWork = tip \/ (mostWork = NoBlock /\ candidates = {})
    /\ IF progressed THEN EndRound ELSE Return
    /\ UNCHANGED <<treeVars, others, pending, shutdown>>

\* ActivateBestChainStep begins.
BeginStep ==
    /\ pc = "find" /\ mostWork \notin {NoBlock, tip}
    /\ pc' = "step" /\ oldTip' = tip
    /\ UNCHANGED <<treeVars, others, mostWork, startTip, progressed, target,
                   toMark, byWork, pending, shutdown>>

\* DisconnectTip can read the block and its undo data.
CanDisconnect == Have(tip, "HAVE_DATA") /\ Have(tip, "HAVE_UNDO")

\* DisconnectTip, while the tip is not an ancestor of pindexMostWork.
DisconnectTip ==
    /\ pc = "step" /\ tip \notin Path[mostWork]
    /\ CanDisconnect
    /\ tip' = Parent[tip]
    /\ UNCHANGED <<treeSame, level, flags, candidates, unlinked, failedBlocks, frame,
                   others, pc, pending, shutdown>>

\* The block vpindexToConnect has next (no fork of the model is 32 blocks long).
NextToConnect == CHOOSE x \in Path[mostWork] \ {Genesis} : Parent[x] = tip

\* PruneBlockIndexCandidates, given the tip and the sequence ids.
KeptAll(S, s, t) == S
KeptBetter(S, s, t) == {c \in S : CBlockIndexWorkComparator(s, addr, t, c)}
Kept(S, s, t) == {c \in S : ~CBlockIndexWorkComparator(s, addr, c, t)}

\* ConnectTip succeeds; ActivateBestChainStep returns once the tip is better than
\* the one it began with, or the list is exhausted.
ConnectTip ==
    /\ pc = "step" /\ tip \in Path[mostWork]
    /\ LET x == NextToConnect IN
       /\ Have(x, "HAVE_DATA")
       /\ Fault[x] # "connect"
       /\ flags' = Raise({x}, "HAVE_UNDO")
       /\ level' = IF Failed(x) THEN level ELSE [level EXCEPT ![x] = SCRIPTS]
       /\ tip' = x
       /\ candidates' = Kept(candidates, seqId, x)
       /\ pc' = IF Work[x] > Work[oldTip] \/ x = mostWork THEN "stepped" ELSE "step"
    /\ UNCHANGED <<treeSame, unlinked, failedBlocks, frame, others, pending, shutdown>>

\* The status InvalidBlockFound leaves.
CondemnedNot(x) == flags
Condemned(x) == Raise({x}, "FAILED_VALID")

\* ConnectTip finds the block invalid (InvalidBlockFound); pindexMostWork is wiped.
FailToConnect ==
    /\ pc = "step" /\ tip \in Path[mostWork]
    /\ LET x == NextToConnect IN
       /\ Have(x, "HAVE_DATA")
       /\ Fault[x] = "connect"
       /\ flags' = Condemned(x)
       /\ failedBlocks' = failedBlocks \cup {x}
       /\ candidates' = candidates \ {x}
    /\ mostWork' = NoBlock
    /\ pc' = "stepped"
    /\ UNCHANGED <<treeSame, level, unlinked, tip, startTip, oldTip, progressed, target,
                   toMark, byWork, others, pending, shutdown>>

\* A block cannot be read: AbortNode.
Abort ==
    /\ pc = "step"
    /\ IF tip \in Path[mostWork] THEN ~Have(NextToConnect, "HAVE_DATA") ELSE ~CanDisconnect
    /\ shutdown' = TRUE
    /\ Return
    /\ UNCHANGED <<treeVars, others, pending>>

\* The inner loop of ActivateBestChain: cs_main is kept while the tip is worse than
\* when it was taken.
MustGoOnNever == FALSE
MustGoOn == Worse(tip, startTip)

EndStep ==
    /\ pc = "stepped"
    /\ IF MustGoOn
       THEN /\ pc' = "find" /\ progressed' = TRUE /\ oldTip' = NoBlock
            /\ UNCHANGED <<mostWork, startTip, target, toMark, byWork>>
       ELSE EndRound
    /\ UNCHANGED <<treeVars, others, pending, shutdown>>

-----------------------------------------------------------------------------
\* InvalidateBlock: the other chains that may become the best one are collected
\* before any block is disconnected.
InvalidateBlock(b) ==
    /\ pc = "idle"
    /\ b \in index \ {Genesis}
    /\ pc' = "inv" /\ target' = b /\ toMark' = b
    /\ byWork' = {c \in index : /\ ~InChain(c)
                                /\ ~Worse(c, Parent[b])
                                /\ IsValid(c, TRANSACTIONS)
                                /\ c \in linked}
    /\ CountCall
    /\ UNCHANGED <<treeVars, revSeq, lastPrecious, reconsidered, restarts, mostWork,
                   startTip, oldTip, progressed, pending, shutdown>>

\* Its loop: one block is disconnected and marked in one critical section.
InvalidateTip ==
    /\ pc = "inv" /\ ~shutdown
    /\ InChain(target) /\ CanDisconnect
    /\ LET walk == tip
           parent == Parent[tip]
           back == {c \in byWork : ~Worse(c, parent)}
       IN  /\ tip' = parent
           /\ flags' = [x \in Blocks |->
                 IF x = walk THEN flags[x] \cup {"FAILED_VALID"}
                 ELSE IF x = parent /\ x = toMark /\ Have(x, "FAILED_VALID")
                 THEN (flags[x] \ {"FAILED_VALID"}) \cup {"FAILED_CHILD"}
                 ELSE flags[x]]
           /\ candidates' = (candidates \ {walk}) \cup {parent} \cup back
           /\ byWork' = byWork \ back
           /\ toMark' = walk
    /\ UNCHANGED <<treeSame, level, unlinked, failedBlocks, mostWork, startTip, oldTip,
                   progressed, target, others, pc, pending, shutdown>>

\* DisconnectTip fails; invalidateblock goes on to ActivateBestChain all the same.
InvalidateFails ==
    /\ pc = "inv" /\ ~shutdown
    /\ InChain(target) /\ ~CanDisconnect
    /\ Return
    /\ pending' = TRUE
    /\ UNCHANGED <<treeVars, others, shutdown>>

\* Every block is off the chain, or the node is shutting down.
LeaveLoop ==
    /\ pc = "inv"
    /\ shutdown \/ ~InChain(target)
    /\ pc' = "mark"
    /\ UNCHANGED <<treeVars, frame, others, pending, shutdown>>

\* The chains that are missing in setBlockIndexCandidates once S has failed.
MissedNone(S) == {}
Missed(S) == {c \in index \ S : IsValid(c, TRANSACTIONS) /\ c \in linked /\ ~Worse(c, tip)}

\* Its last critical section, and the RPC's call of ActivateBestChain.
MarkInvalid ==
    /\ pc = "mark"
    /\ Return
    /\ pending' = TRUE
    /\ IF InChain(toMark)
       THEN UNCHANGED <<flags, candidates, failedBlocks>>
       ELSE /\ flags' = Raise({toMark}, "FAILED_VALID")
            /\ failedBlocks' = failedBlocks \cup {toMark}
            /\ candidates' = (candidates \ {toMark}) \cup Missed({toMark})
    /\ UNCHANGED <<treeSame, level, unlinked, tip, others, shutdown>>

-----------------------------------------------------------------------------
\* ProcessNewBlockHeaders.
ReceiveHeader(b) ==
    /\ MainFree
    /\ AcceptBlockHeader(b) \/ RejectBlockHeader(b)
    /\ UNCHANGED <<frame, others, pc, pending, shutdown>>

\* ProcessNewBlock: AcceptBlock and, unless it fails, a call of ActivateBestChain;
\* so also for a block that AcceptBlock has no use for.
ReceiveBlock(b, fRequested) ==
    /\ MainFree
    /\ \/ AcceptBlock(b, fRequested) /\ pending' = TRUE
       \/ RejectBlock(b, fRequested) /\ UNCHANGED pending
       \/ /\ b \in index /\ ~Failed(b) /\ ~Wanted(b, fRequested)
          /\ pending' = TRUE /\ UNCHANGED treeVars
    /\ UNCHANGED <<frame, others, pc, shutdown>>

\* preciousblock.
PreciousBlock(b) ==
    /\ MainFree
    /\ b \in index /\ Work[b] >= Work[tip]
    /\ LET rev == IF Work[tip] > lastPrecious THEN -1 ELSE revSeq
           s == [seqId EXCEPT ![b] = rev]
       IN  /\ revSeq' = rev - 1
           /\ seqId' = s
           /\ candidates' = IF IsValid(b, TRANSACTIONS) /\ b \in linked
                            THEN Kept(candidates \cup {b}, s, tip)
                            ELSE candidates \ {b}
    /\ lastPrecious' = Work[tip]
    /\ pending' = TRUE
    /\ CountCall
    /\ UNCHANGED <<index, level, flags, nTx, linked, addr, unlinked, failedBlocks, tip,
                   nextSeq, lastFile, frame, reconsidered, restarts, pc, shutdown>>

\* reconsiderblock.
ReconsiderBlock(b) ==
    /\ MainFree
    /\ ResetBlockFailureFlags(b)
    /\ pending' = TRUE /\ reconsidered' = TRUE
    /\ CountCall
    /\ UNCHANGED <<frame, revSeq, lastPrecious, restarts, pc, shutdown>>

\* FlushStateToDisk prunes; ConnectTip and DisconnectTip call it as well.
Prune(b) ==
    /\ MainFree \/ pc = "step"
    /\ PruneOneBlockFile(b)
    /\ UNCHANGED <<frame, others, pc, pending, shutdown>>

RequestShutdown ==
    /\ ~shutdown /\ restarts < MaxRestarts
    /\ shutdown' = TRUE
    /\ UNCHANGED <<treeVars, frame, others, pc, pending>>

\* Everything is flushed and loaded again, and ThreadImport activates the best chain.
Restart ==
    /\ pc = "idle" /\ shutdown /\ restarts < MaxRestarts
    /\ LoadBlockIndex
    /\ shutdown' = FALSE /\ pending' = TRUE
    /\ revSeq' = -1 /\ lastPrecious' = 0 /\ restarts' = restarts + 1
    /\ UNCHANGED <<frame, pc, reconsidered, calls>>

ActivateBestChain ==
    \/ EnterActivateBestChain \/ BeginRound \/ DropCandidate \/ FindMostWorkChain
    \/ NothingToDo \/ BeginStep \/ DisconnectTip \/ ConnectTip \/ FailToConnect
    \/ Abort \/ EndStep
Invalidation == InvalidateTip \/ InvalidateFails \/ LeaveLoop \/ MarkInvalid

Next ==
    \/ ActivateBestChain
    \/ Invalidation
    \/ \E b \in CanInvalidate : InvalidateBlock(b)
    \/ \E b \in CanPrecious : PreciousBlock(b)
    \/ \E b \in CanReconsider : ReconsiderBlock(b)
    \/ \E b \in Blocks \ {Genesis} : ReceiveHeader(b)
    \/ \E b \in Blocks \ {Genesis}, fRequested \in BOOLEAN : ReceiveBlock(b, fRequested)
    \/ \E b \in Blocks : Prune(b)
    \/ RequestShutdown
    \/ Restart

Spec == Init /\ [][Next]_vars

\* The caller that waits for m_cs_chainstate gets it, and the thread that has it
\* runs on; nothing is assumed of peers, of RPC users or of pruning.
FairSpec == Spec /\ WF_vars(ActivateBestChain) /\ WF_vars(Invalidation)

-----------------------------------------------------------------------------
Pcs == {"idle", "abc", "find", "step", "stepped", "inv", "mark"}
BlockOrNone == Blocks \cup {NoBlock}

\* Every variable has its type.
TypeOK ==
    /\ index \subseteq Blocks /\ nTx \subseteq index /\ linked \subseteq nTx
    /\ level \in [Blocks -> {0, TREE, TRANSACTIONS, SCRIPTS}]
    /\ flags \in [Blocks -> SUBSET Flags]
    /\ seqId \in [Blocks -> (-MaxCalls)..MaxSeq]
    /\ addr \in AddrOrders
    /\ candidates \subseteq index /\ unlinked \subseteq index
    /\ failedBlocks \subseteq index
    /\ tip \in index /\ nextSeq \in 1..MaxSeq /\ lastFile \in index
    /\ pc \in Pcs
    /\ mostWork \in BlockOrNone /\ startTip \in BlockOrNone /\ oldTip \in BlockOrNone
    /\ target \in BlockOrNone /\ toMark \in BlockOrNone /\ byWork \subseteq index
    /\ progressed \in BOOLEAN /\ pending \in BOOLEAN /\ shutdown \in BOOLEAN
    /\ revSeq \in (-MaxCalls - 1)..(-1)
    /\ lastPrecious \in {0} \cup {Work[b] : b \in Blocks}
    /\ reconsidered \in BOOLEAN
    /\ calls \in 0..MaxCalls /\ restarts \in 0..MaxRestarts

\* CheckBlockIndex: "All parents having had data (at some point) is equivalent to all
\* parents being VALID_TRANSACTIONS, which is equivalent to HaveTxsDownloaded()."
LinkedIffDownloaded ==
    MainFree => \A b \in index : b \in linked <=> Path[b] \subseteq nTx

FirstInvalid(b) == \E a \in Path[b] : Have(a, "FAILED_VALID")   \* pindexFirstInvalid
HaveAll(b) == \A a \in Path[b] : Have(a, "HAVE_DATA")          \* no pindexFirstMissing

\* CheckBlockIndex: "If this block sorts at least as good as the current tip and is valid
\* and we have all data for its parents, it must be in setBlockIndexCandidates", and so
\* must the tip; outside of an invalidation, and while the node is not going down
\* (AbortNode stops in the middle of a step).
CandidatesAlwaysComplete ==
    MainFree /\ target = NoBlock /\ ~shutdown =>
        \A b \in linked : ~Worse(b, tip) /\ ~FirstInvalid(b) /\ (HaveAll(b) \/ b = tip)
                           => b \in candidates

\* Nothing has happened yet that breaks the books for good: reconsiderblock loses
\* candidates, and so may an invalidateblock that meets a pruned block, or a restart
\* on a pruned tip, whose second download makes its nSequenceId the latest.
Undisturbed == ~reconsidered /\ (PruneMode => calls = 0 /\ restarts = 0)

\* No block that CheckBlockIndex wants in setBlockIndexCandidates is missing there,
\* as long as reconsiderblock is not used, nor, on a pruned node, invalidateblock or a
\* restart.
CandidatesComplete == Undisturbed => CandidatesAlwaysComplete

\* CheckBlockIndex: no candidate sorts worse than the tip or lacks an ancestor.
CandidatesSound ==
    MainFree => \A b \in candidates : ~Worse(b, tip) /\ b \in linked

\* A block that waits for an ancestor's data is in m_blocks_unlinked: one whose ancestor
\* never came and, unless AbortNode stopped a step half way, one that is better than the
\* tip and no candidate because an ancestor was pruned.
UnlinkedComplete ==
    MainFree => \A b \in index \ {Genesis} :
        /\ Have(b, "HAVE_DATA") /\ ~FirstInvalid(b)
        /\ \/ b \notin linked
           \/ ~HaveAll(b) /\ ~Worse(b, tip) /\ b \notin candidates /\ ~shutdown
        => b \in unlinked

\* m_blocks_unlinked holds blocks that miss an ancestor's data, and, until the node
\* restarts, have their own: LoadBlockIndex also enters blocks that were pruned, which
\* CheckBlockIndex's "Can't be in m_blocks_unlinked if we don't HAVE_DATA" excludes.
UnlinkedSound ==
    MainFree => \A b \in unlinked :
        /\ ~HaveAll(b)
        /\ restarts = 0 => Have(b, "HAVE_DATA")

\* CheckBlockIndex on m_blocks_unlinked: it holds the blocks that wait for data of an
\* ancestor, however pruning, new blocks and rounds of ActivateBestChain interleave
\* (nothing that waits is forgotten until a pruned node sees invalidateblock or a
\* restart, after which it may also hold pruned blocks).
UnlinkedExact == UnlinkedSound /\ (Undisturbed => UnlinkedComplete)

\* CheckBlockIndex: "The failed mask cannot be set for blocks without invalid parents."
\* (reconsiderblock clears an ancestor's mark and not those of its other descendants.)
FailureHasCause ==
    MainFree /\ ~reconsidered => \A b \in index : Failed(b) => FirstInvalid(b)

\* No block of the active chain is marked failed or breaks a rule, whatever happened
\* to the tree between two rounds that share one pindexMostWork.
ActiveChainValid == \A b \in Path[tip] : ~Failed(b) /\ Fault[b] = "none"

\* PruneBlockIndexCandidates' assertion; FindMostWorkChain always has a candidate.
SomeCandidate == candidates # {}

\* A block that could be activated: all there, nothing known against it.
Usable(b) == b \in linked /\ \A a \in Path[b] : InChain(a) \/ (~Failed(a) /\ Have(a, "HAVE_DATA"))

\* When no activation is due or under way, no usable block has more work than the tip
\* (unless reconsiderblock lost a candidate).
TipIsBest ==
    pc = "idle" /\ ~pending /\ ~shutdown /\ ~reconsidered =>
        \A b \in index : Usable(b) => Work[b] <= Work[tip]

\* "We absolutely may not unlock cs_main until we've made forward progress": a round
\* of ActivateBestChain that ends without an abort leaves no worse tip.
NoBackwardRound ==
    [][(pc \in {"find", "stepped"} /\ pc' \in {"abc", "idle"}) => ~Worse(tip, startTip)]_vars

\* A call of ActivateBestChain ends, and it ends with the best tip.
Settled == pc = "idle" /\ (shutdown \/ \A b \in index : Usable(b) => Work[b] <= Work[tip])
ActivationSettles == pending ~> Settled
=============================================================================
