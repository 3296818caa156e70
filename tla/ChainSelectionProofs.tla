------------------------ MODULE ChainSelectionProofs ------------------------
(***************************************************************************)
(* Proofs about the books of an unpruned node, for every tree of blocks:   *)
(* setBlockIndexCandidates holds no block it should not hold; and, as long *)
(* as reconsiderblock is not used and no two blocks are made precious, no  *)
(* candidate is missing, a round of ActivateBestChain never ends with a    *)
(* worse tip, and the node comes to rest on the best chain.  Without       *)
(* invalidateblock and reconsiderblock, the linked and the waiting blocks  *)
(* are exactly those they should be.                                       *)
(***************************************************************************)
EXTENDS ChainSelectionSafety

\* The prover of a step that names no other.
USE ZenonT(120)

InRound == pc \in {"find", "step", "stepped"}

\* What is stored has its data, and is linked from Genesis up; the chain in use, the
\* candidates and InvalidateBlock's candidates are linked.
StoredInv ==
    /\ \A b \in index \ {Genesis} : Parent[b] \in index
    /\ \A b \in nTx : Have(b, "HAVE_DATA") /\ level[b] >= TRANSACTIONS
    /\ \A b \in index : level[b] >= TREE
    /\ linked \in SUBSET nTx /\ \A b \in linked : Path[b] \in SUBSET linked
    /\ unlinked \in SUBSET nTx /\ unlinked \cap linked = {}
    /\ tip \in linked /\ candidates \in SUBSET linked /\ byWork \in SUBSET linked
    /\ mostWork # NoBlock => mostWork \in linked
    /\ \A c \in candidates : ~Worse(c, tip)
    /\ \A a \in Path[tip] \ {Genesis} : Have(a, "HAVE_UNDO")

\* No candidate has more work than pindexMostWork, or than the tip of a node at rest,
\* unless a call of ActivateBestChain is due; between rounds the tip is on the way to
\* pindexMostWork.
BestInv ==
    /\ mostWork # NoBlock /\ ~pending => \A c \in candidates : Work[c] <= Work[mostWork]
    /\ pc = "idle" /\ ~pending /\ ~shutdown => \A c \in candidates : Work[c] <= Work[tip]
    /\ pc = "abc" /\ mostWork # NoBlock => tip # mostWork /\ tip \in Path[mostWork]
    /\ pc = "stepped" /\ mostWork # NoBlock => tip \in Path[mostWork]

\* The tip a round started from stays clear of failed blocks; the round disconnects only
\* while the tip is no better.
RoundInv ==
    /\ InRound => startTip \in linked /\ Good(startTip) /\ \A a \in Path[startTip] : Fault[a] = "none"
    /\ pc = "find" => ~Worse(startTip, tip)
    /\ pc = "step" => tip \in Path[mostWork] \/ ~Worse(startTip, tip)

\* reconsiderblock has not been used, and no two blocks are made precious.
Kempt == ~reconsidered /\ \A a, b \in CanPrecious : a = b

\* The blocks that belong into setBlockIndexCandidates, during a round if they are also
\* no worse than the tip it started from.
CompleteInv ==
    Kempt =>
      /\ pc \in {"idle", "abc"} \/ (pc \in {"inv", "mark"} /\ InChain(toMark)) =>
            \A b \in linked : Good(b) /\ ~Worse(b, tip) => b \in candidates
      /\ InRound =>
            \A b \in linked : Good(b) /\ ~Worse(b, tip) /\ ~Worse(b, startTip) => b \in candidates
      /\ pc \in {"inv", "mark"} => tip \in candidates
      /\ InRound /\ mostWork # NoBlock => ~Worse(mostWork, startTip)

\* Only a precious block has a negative sequence id.
SeqInv ==
    /\ nextSeq >= 0 /\ revSeq < 0
    /\ \A b \in Blocks \ CanPrecious : seqId[b] >= 0

NodeInv == StoredInv /\ BestInv /\ RoundInv /\ CompleteInv /\ SeqInv

-----------------------------------------------------------------------------
(* The order of candidates.                                                *)

\* Worse is a strict total order that respects work.
LEMMA WorseOrder ==
    ASSUME ShapeInv
    PROVE  \A a, b, c \in Blocks :
              /\ ~Worse(a, a)
              /\ a # b => Worse(a, b) \/ Worse(b, a)
              /\ Worse(a, b) => ~Worse(b, a)
              /\ Worse(a, b) /\ Worse(b, c) => Worse(a, c)
              /\ Work[a] < Work[b] => Worse(a, b)
              /\ Worse(a, b) => Work[a] <= Work[b]
<1> TAKE a, b, c \in Blocks
<1>1. seqId \in [Blocks -> Int] /\ addr \in AddrOrders BY DEF ShapeInv
<1>2. \A x \in Blocks : seqId[x] \in Int BY <1>1
<1> QED BY <1>1, <1>2, ComparatorOrder DEF Worse

\* No worse than what is no worse than c.
LEMMA NoWorse ==
    ASSUME ShapeInv
    PROVE  \A a, b, c \in Blocks : ~Worse(a, b) /\ ~Worse(b, c) => ~Worse(a, c)
BY WorseOrder

\* The parent of the tip, and the tip itself, have less work than the blocks above.
LEMMA MoreWork ==
    ASSUME ShapeInv, NEW a \in Blocks, NEW b \in Path[a]
    PROVE  ~Worse(a, b)
<1>1. b \in Blocks /\ (b = a \/ Work[b] < Work[a]) BY PathFacts
<1> QED BY <1>1, WorseOrder

\* ReceivedBlockTransactions numbers the blocks it links.
LEMMA LinkedIds ==
    ASSUME ShapeInv, SeqInv, NEW b \in Blocks, LinkBlocks(b)
    PROVE  /\ nextSeq' >= 0 /\ \A x \in Blocks \ CanPrecious : seqId'[x] >= 0
           /\ \A x \in Blocks \ NowLinked(b) : seqId'[x] = seqId[x]
<1> DEFINE S == NowLinked(b)
<1>1. S \in SUBSET Blocks BY DEF NowLinked, ShapeInv
<1>2. IsFiniteSet(S) /\ Cardinality(S) \in Nat BY <1>1, BasicFacts, FS_Subset, FS_CardinalityType
<1>3. PICK order \in QueueOrders(S) :
         seqId' = [x \in Blocks |-> IF x \in S THEN nextSeq + order[x] ELSE seqId[x]]
  BY DEF LinkBlocks
<1>4. nextSeq' = nextSeq + Cardinality(S) BY DEF LinkBlocks
<1> HIDE DEF S
<1>5. \A x \in S : order[x] \in Nat
  <2>1. order \in [S -> 0..(Cardinality(S) - 1)] BY <1>3 DEF QueueOrders
  <2> QED BY <1>2, <2>1, SMTT(30)
<1>6. nextSeq \in Int /\ nextSeq >= 0 /\ \A x \in Blocks \ CanPrecious : seqId[x] >= 0
  BY DEF ShapeInv, SeqInv
<1>7. nextSeq' >= 0 /\ \A x \in Blocks \ CanPrecious : seqId'[x] >= 0
  BY <1>2, <1>3, <1>4, <1>5, <1>6, SMTT(30)
<1> QED BY <1>3, <1>7 DEF S

\* A precious block sorts after the others of its work; the others keep their order.
LEMMA PreciousOrder ==
    ASSUME ShapeInv, SeqInv, NEW b \in Blocks, NEW rev \in Int, rev < 0, addr' = addr,
           seqId' = [seqId EXCEPT ![b] = rev]
    PROVE  /\ \A x, y \in Blocks \ {b} : Worse(x, y)' <=> Worse(x, y)
           /\ \A x \in Blocks \ {b} : x \notin CanPrecious /\ Worse(x, b) => Worse(x, b)'
           /\ \A x \in Blocks : ~Worse(x, x)'
<1>1. seqId \in [Blocks -> Int] /\ \A x \in Blocks : Work[x] \in Nat BY BasicFacts DEF ShapeInv
<1>2. \A x \in Blocks : seqId'[x] = IF x = b THEN rev ELSE seqId[x] BY <1>1
<1>3. \A x \in Blocks : seqId'[x] \in Int BY <1>1, <1>2
<1>4. \A x, y \in Blocks \ {b} : Worse(x, y)' <=> Worse(x, y)
  BY <1>2 DEF Worse, CBlockIndexWorkComparator
<1>5. \A x \in Blocks \ {b} : x \notin CanPrecious /\ Worse(x, b) => Worse(x, b)'
  BY <1>1, <1>2, SMTT(30) DEF Worse, CBlockIndexWorkComparator, SeqInv
<1>6. \A x \in Blocks : ~Worse(x, x)' BY <1>3, ComparatorOrder DEF Worse, ShapeInv
<1> QED BY <1>4, <1>5, <1>6

\* Storing a block, or taking its header, lowers no status.
LEMMA StatusRises ==
    ASSUME ShapeInv, NEW b \in Blocks,
           \/ level' = [level EXCEPT ![b] = TREE]
           \/ level' = [level EXCEPT ![b] = IF @ < TRANSACTIONS THEN TRANSACTIONS ELSE @]
    PROVE  /\ \A x \in Blocks : (level[x] >= TREE \/ x = b => level'[x] >= TREE)
           /\ \A x \in Blocks \ {b} : level'[x] = level[x]
           /\ level' = [level EXCEPT ![b] = IF @ < TRANSACTIONS THEN TRANSACTIONS ELSE @] => level'[b] >= TRANSACTIONS
<1>1. level \in [Blocks -> Int] BY DEF ShapeInv
<1> QED BY <1>1, SMTT(30) DEF TREE, TRANSACTIONS

-----------------------------------------------------------------------------
(* What most steps leave of the stored tree.                               *)

Keeping ==
    /\ UNCHANGED <<index, level, nTx, linked, unlinked, seqId, addr>>
    /\ \A b \in Blocks : /\ Have(b, "HAVE_DATA") => Have(b, "HAVE_DATA")'
                         /\ Have(b, "HAVE_UNDO") => Have(b, "HAVE_UNDO")'
    /\ candidates' \in SUBSET linked /\ byWork' \in SUBSET linked
    /\ mostWork' # NoBlock => mostWork' \in linked
    /\ tip' \in Path[tip] /\ \A c \in candidates' : ~Worse(c, tip')

\* A step that keeps the books, with the tip where it is or further down, keeps StoredInv.
LEMMA KeepingStored ==
    ASSUME SafeInv, StoredInv, Keeping
    PROVE  StoredInv'
<1>1. tip \in Blocks /\ tip \in linked /\ Path[tip] \in SUBSET linked /\ nTx \in SUBSET Blocks
  BY DEF SafeInv, ShapeInv, StoredInv
<1>2. tip' \in linked /\ Path[tip'] \in SUBSET Path[tip]
  <2>1. Path[tip'] \in SUBSET Path[tip] BY <1>1, PathFacts DEF Keeping
  <2> QED BY <1>1, <2>1 DEF Keeping
<1>3. \A c \in candidates' : ~Worse(c, tip)' BY DEF Keeping, Worse
<1>4. \A a \in Path[tip'] \ {Genesis} : Have(a, "HAVE_UNDO")'
  <2>1. \A a \in Path[tip'] \ {Genesis} : a \in Blocks /\ Have(a, "HAVE_UNDO")
    BY <1>1, <1>2 DEF StoredInv
  <2> QED BY <2>1 DEF Keeping
<1>5. \A b \in nTx' : Have(b, "HAVE_DATA")' BY <1>1 DEF StoredInv, Keeping
<1> QED BY <1>2, <1>3, <1>4, <1>5 DEF StoredInv, Keeping

\* Flags are only added.
LEMMA Raised ==
    ASSUME ShapeInv, NEW S, NEW f \in Flags, flags' = Raise(S, f), nTx' = nTx
    PROVE  /\ \A b \in Blocks : /\ Have(b, "HAVE_DATA") => Have(b, "HAVE_DATA")'
                                /\ Have(b, "HAVE_UNDO") => Have(b, "HAVE_UNDO")'
                                /\ Failed(b) => Failed(b)'
                                /\ Failed(b)' => Failed(b) \/ b \in S
                                /\ b \in S /\ f \in FAILED_MASK => Failed(b)'
           /\ \A b \in Blocks : \A a \in Path[b] : (a \in nTx /\ ~Failed(a))' => a \in nTx /\ ~Failed(a)
<1>1. \A b \in Blocks : flags'[b] = IF b \in S THEN flags[b] \cup {f} ELSE flags[b] BY RaiseIs, SMTT(30)
<1>2. \A b \in Blocks : /\ Have(b, "HAVE_DATA") => Have(b, "HAVE_DATA")'
                        /\ Have(b, "HAVE_UNDO") => Have(b, "HAVE_UNDO")'
                        /\ Failed(b) => Failed(b)'
                        /\ Failed(b)' => Failed(b) \/ b \in S
                        /\ b \in S /\ f \in FAILED_MASK => Failed(b)'
  BY <1>1 DEF Have, Failed
<1>3. \A b \in Blocks : Path[b] \in SUBSET Blocks BY PathFacts
<1> QED BY <1>2, <1>3

-----------------------------------------------------------------------------
(* Steps that leave the tree alone.                                        *)

\* A step that leaves the tree alone keeps StoredInv and SeqInv.
LEMMA QuietNode ==
    ASSUME SafeInv, NodeInv, UNCHANGED treeVars, revSeq' = revSeq, byWork' \in SUBSET linked,
           mostWork' # NoBlock => mostWork' \in linked
    PROVE  StoredInv' /\ SeqInv'
<1> USE DEF treeVars
<1>1. tip \in Path[tip] BY PathFacts DEF SafeInv, ShapeInv
<1>2. Keeping BY <1>1 DEF Keeping, NodeInv, StoredInv, Have
<1>3. StoredInv' BY <1>2, KeepingStored DEF NodeInv
<1>5. SeqInv' BY DEF NodeInv, SeqInv
<1> QED BY <1>3, <1>5

\* What the invariant says where cs_main is free.
LEMMA AtRest ==
    ASSUME SafeInv, NodeInv
    PROVE  /\ tip \in Blocks /\ tip \in linked /\ Good(tip) /\ ~Worse(tip, tip)
           /\ Kempt /\ pc \in {"idle", "abc"} => tip \in candidates
<1>1. tip \in Blocks /\ tip \in linked /\ Good(tip) BY DEF SafeInv, ShapeInv, ChainInv, NodeInv, StoredInv
<1>2. ~Worse(tip, tip) BY <1>1, WorseOrder DEF SafeInv
<1>3. Kempt /\ pc \in {"idle", "abc"} => tip \in candidates
  BY <1>1, <1>2 DEF NodeInv, CompleteInv
<1> QED BY <1>1, <1>2, <1>3

\* EnterActivateBestChain keeps NodeInv.
LEMMA EnterActivateBestChainNode ==
    ASSUME SafeInv, NodeInv, EnterActivateBestChain
    PROVE  NodeInv'
<1>1. /\ pc = "idle" /\ pc' = "abc" /\ UNCHANGED treeVars /\ UNCHANGED <<frame, others, shutdown>>
  BY DEF EnterActivateBestChain
<1>2. StoredInv' /\ SeqInv'
  BY <1>1, QuietNode DEF frame, others, NodeInv, StoredInv
<1>3. mostWork' = NoBlock BY <1>1 DEF SafeInv, ChainInv, frame
<1>4. BestInv' /\ RoundInv' BY <1>1, <1>3 DEF BestInv, RoundInv, InRound
<1>5. CompleteInv'
  BY <1>1 DEF NodeInv, CompleteInv, InRound, Kempt, Good, Failed, Worse, treeVars, frame, others
<1> QED BY <1>2, <1>4, <1>5 DEF NodeInv

\* BeginRound keeps NodeInv.
LEMMA BeginRoundNode ==
    ASSUME SafeInv, NodeInv, BeginRound
    PROVE  NodeInv'
<1>1. /\ pc = "abc" /\ pc' = "find" /\ startTip' = tip /\ UNCHANGED treeVars
      /\ UNCHANGED <<mostWork, toMark, byWork, pending, shutdown>> /\ UNCHANGED others
  BY DEF BeginRound
<1>2. StoredInv' /\ SeqInv' BY <1>1, QuietNode DEF others, NodeInv, StoredInv
<1>3. BestInv' BY <1>1 DEF BestInv, NodeInv, treeVars
<1>4. RoundInv'
  <2>1. tip \in linked /\ Good(tip) /\ ~Worse(tip, tip) /\ \A a \in Path[tip] : Fault[a] = "none"
    BY AtRest DEF SafeInv, ChainInv
  <2> QED BY <1>1, <2>1 DEF RoundInv, Good, Failed, Worse, InRound, treeVars
<1>5. mostWork # NoBlock => ~Worse(mostWork, tip)
  <2> SUFFICES ASSUME mostWork # NoBlock PROVE ~Worse(mostWork, tip) OBVIOUS
  <2>1. mostWork \in Blocks /\ tip \in Path[mostWork]
    BY <1>1 DEF NodeInv, BestInv, SafeInv, ShapeInv, BlockOrNone
  <2> QED BY <2>1, MoreWork DEF SafeInv
<1>6. Kempt => \A b \in linked : Good(b) /\ ~Worse(b, tip) => b \in candidates
  BY <1>1 DEF NodeInv, CompleteInv
<1>7. CompleteInv'
  BY <1>1, <1>5, <1>6 DEF CompleteInv, InRound, Kempt, Good, Failed, Worse, treeVars, others
<1> QED BY <1>2, <1>3, <1>4, <1>7 DEF NodeInv

\* During a round the better of the tip and the one it started from is a candidate.
LEMMA RoundCandidate ==
    ASSUME SafeInv, NodeInv, InRound, Kempt
    PROVE  /\ ~Worse(startTip, tip) => startTip \in candidates
           /\ ~Worse(tip, startTip) => tip \in candidates
<1>1. /\ startTip \in linked /\ Good(startTip) /\ startTip \in Blocks
      /\ \A b \in linked : Good(b) /\ ~Worse(b, tip) /\ ~Worse(b, startTip) => b \in candidates
  BY DEF NodeInv, RoundInv, CompleteInv, SafeInv, ShapeInv
<1>2. ~Worse(startTip, startTip) BY <1>1, WorseOrder DEF SafeInv
<1> QED BY <1>1, <1>2, AtRest

\* FindMostWorkChain keeps NodeInv.
LEMMA FindMostWorkChainNode ==
    ASSUME SafeInv, NodeInv, FindMostWorkChain
    PROVE  NodeInv'
<1>1. /\ pc = "find" /\ pc' = "find" /\ mostWork' = BestCandidate /\ candidates # {} /\ UNCHANGED treeVars
      /\ UNCHANGED <<startTip, toMark, byWork, pending, shutdown>> /\ UNCHANGED others
  BY DEF FindMostWorkChain
<1>s. ShapeInv BY DEF SafeInv
<1>2. BestCandidate \in candidates /\ \A d \in candidates \ {BestCandidate} : Worse(d, BestCandidate)
  BY <1>1, <1>s, BestIs
<1>3. BestCandidate \in linked /\ BestCandidate \in Blocks /\ candidates \in SUBSET Blocks
  BY <1>2, <1>s DEF NodeInv, StoredInv, ShapeInv
<1>4. StoredInv' /\ SeqInv' BY <1>1, <1>3, QuietNode DEF others, NodeInv, StoredInv
<1>5. \A c \in candidates : Work[c] <= Work[BestCandidate] /\ ~Worse(BestCandidate, c)
  <2>1. Work[BestCandidate] <= Work[BestCandidate] BY <1>3, BasicFacts, SMTT(30)
  <2> QED BY <1>2, <1>3, <1>s, <2>1, WorseOrder
<1>6. BestInv' BY <1>1, <1>5 DEF BestInv, treeVars
<1>7. RoundInv' BY <1>1 DEF NodeInv, RoundInv, Good, Failed, Worse, InRound, treeVars
<1>8. CompleteInv'
  <2>1. Kempt => ~Worse(BestCandidate, startTip)
    BY <1>1, <1>5, RoundCandidate DEF NodeInv, RoundInv, InRound
  <2>2. Kempt => \A b \in linked : Good(b) /\ ~Worse(b, tip) /\ ~Worse(b, startTip) => b \in candidates
    BY <1>1 DEF NodeInv, CompleteInv, InRound
  <2> HIDE DEF BestCandidate
  <2> QED BY <1>1, <2>1, <2>2 DEF CompleteInv, InRound, Kempt, Good, Failed, Worse, treeVars, others
<1> QED BY <1>4, <1>6, <1>7, <1>8 DEF NodeInv

\* The end of a round.
LEMMA RoundEnds ==
    ASSUME SafeInv, NodeInv, InRound, Kempt => ~Worse(tip, startTip),
           UNCHANGED treeVars, UNCHANGED others, UNCHANGED <<pending, shutdown>>,
           \/ Return /\ (mostWork = tip \/ candidates = {} \/ shutdown)
           \/ /\ pc' = "abc" /\ UNCHANGED <<mostWork, byWork>>
              /\ mostWork # NoBlock => tip # mostWork /\ tip \in Path[mostWork]
    PROVE  NodeInv'
<1>1. \/ pc' = "idle" /\ mostWork' = NoBlock /\ byWork' = {} /\ (mostWork = tip \/ candidates = {} \/ shutdown)
      \/ /\ pc' = "abc" /\ UNCHANGED <<mostWork, byWork>>
         /\ mostWork # NoBlock => tip # mostWork /\ tip \in Path[mostWork]
  BY DEF Return
<1>2. StoredInv' /\ SeqInv' BY <1>1, QuietNode DEF others, NodeInv, StoredInv
<1>3. RoundInv' BY <1>1 DEF RoundInv, InRound
<1>4. BestInv'
  <2>1. ~pending /\ mostWork = tip => \A c \in candidates : Work[c] <= Work[tip]
    <3>1. tip # NoBlock BY BasicFacts DEF SafeInv, ShapeInv
    <3> QED BY <3>1 DEF NodeInv, BestInv
  <2>2. CASE pc' = "idle" BY <1>1, <2>1, <2>2 DEF BestInv, treeVars
  <2>3. CASE pc' = "abc" BY <1>1, <2>3 DEF NodeInv, BestInv, treeVars
  <2> QED BY <1>1, <2>2, <2>3
<1>5. CompleteInv'
  <2>1. Kempt => \A b \in linked : Good(b) /\ ~Worse(b, tip) => b \in candidates
    <3>1. Kempt => \A b \in linked : Good(b) /\ ~Worse(b, tip) /\ ~Worse(b, startTip) => b \in candidates
      BY DEF NodeInv, CompleteInv
    <3>2. linked \in SUBSET Blocks /\ tip \in Blocks /\ startTip \in Blocks
      BY DEF NodeInv, RoundInv, SafeInv, ShapeInv
    <3>3. \A b \in linked : ~Worse(b, tip) /\ ~Worse(tip, startTip) => ~Worse(b, startTip)
      BY <3>2, NoWorse DEF SafeInv
    <3> QED BY <3>1, <3>3
  <2> QED BY <1>1, <2>1 DEF CompleteInv, InRound, Kempt, Good, Failed, Worse, treeVars, others
<1> QED BY <1>2, <1>3, <1>4, <1>5 DEF NodeInv

\* A round that has nothing more to do has not gone backward.
LEMMA NothingToDoForward ==
    ASSUME SafeInv, NodeInv, NothingToDo, Kempt
    PROVE  ~Worse(tip, startTip)
<1>1. pc = "find" /\ (mostWork = tip \/ candidates = {}) BY DEF NothingToDo
<1>2. tip # NoBlock BY BasicFacts DEF SafeInv, ShapeInv
<1>3. CASE mostWork = tip BY <1>1, <1>2, <1>3 DEF NodeInv, CompleteInv, InRound
<1>4. CASE candidates = {} BY <1>1, <1>4, RoundCandidate DEF NodeInv, RoundInv, InRound
<1> QED BY <1>1, <1>3, <1>4

\* NothingToDo keeps NodeInv.
LEMMA NothingToDoNode ==
    ASSUME SafeInv, NodeInv, NothingToDo
    PROVE  NodeInv'
<1>1. /\ pc = "find" /\ UNCHANGED treeVars /\ UNCHANGED others /\ UNCHANGED <<pending, shutdown>>
      /\ mostWork = tip \/ (mostWork = NoBlock /\ candidates = {})
      /\ Return \/ EndRound
  BY DEF NothingToDo
<1>2. InRound BY <1>1 DEF InRound
<1>3. CASE Return BY <1>1, <1>2, <1>3, NothingToDoForward, RoundEnds
<1>4. CASE EndRound
  <2>1. \/ Return
        \/ tip # mostWork /\ pc' = "abc" /\ UNCHANGED <<mostWork, byWork>>
    BY <1>4 DEF EndRound
  <2> QED BY <1>1, <1>2, <2>1, NothingToDoForward, RoundEnds
<1> QED BY <1>1, <1>3, <1>4

\* EndStep keeps NodeInv.
LEMMA EndStepNode ==
    ASSUME SafeInv, NodeInv, EndStep
    PROVE  NodeInv'
<1>1. /\ pc = "stepped" /\ UNCHANGED treeVars /\ UNCHANGED others /\ UNCHANGED <<pending, shutdown>>
  BY DEF EndStep
<1>2. InRound BY <1>1 DEF InRound
<1>3. CASE ~Worse(tip, startTip)
  <2>1. \/ Return /\ (tip = mostWork \/ shutdown)
        \/ tip # mostWork /\ pc' = "abc" /\ UNCHANGED <<mostWork, byWork>>
    BY <1>3 DEF EndStep, MustGoOn, EndRound
  <2>2. mostWork # NoBlock => tip \in Path[mostWork] BY <1>1 DEF NodeInv, BestInv
  <2> QED BY <1>1, <1>2, <1>3, <2>1, <2>2, RoundEnds
<1>4. CASE Worse(tip, startTip)
  <2>1. pc' = "find" /\ UNCHANGED <<mostWork, startTip, toMark, byWork>> BY <1>4 DEF EndStep, MustGoOn
  <2>2. StoredInv' /\ SeqInv' BY <1>1, <2>1, QuietNode DEF others, NodeInv, StoredInv
  <2>3. BestInv' BY <1>1, <2>1 DEF NodeInv, BestInv, treeVars
  <2>4. ~Worse(startTip, tip)
    <3>1. tip \in Blocks /\ startTip \in Blocks BY <1>2 DEF NodeInv, RoundInv, SafeInv, ShapeInv
    <3> QED BY <1>4, <3>1, WorseOrder DEF SafeInv
  <2>5. RoundInv' BY <1>1, <1>2, <2>1, <2>4 DEF NodeInv, RoundInv, Good, Failed, Worse, InRound, treeVars
  <2>6. CompleteInv'
    BY <1>1, <1>2, <2>1 DEF NodeInv, CompleteInv, InRound, Kempt, Good, Failed, Worse, treeVars, others
  <2> QED BY <2>2, <2>3, <2>5, <2>6 DEF NodeInv
<1> QED BY <1>3, <1>4

\* BeginStep keeps NodeInv.
LEMMA BeginStepNode ==
    ASSUME SafeInv, NodeInv, BeginStep
    PROVE  NodeInv'
<1>1. /\ pc = "find" /\ pc' = "step" /\ UNCHANGED treeVars
      /\ UNCHANGED <<mostWork, startTip, toMark, byWork, pending, shutdown>> /\ UNCHANGED others
  BY DEF BeginStep
<1>2. StoredInv' /\ SeqInv' BY <1>1, QuietNode DEF others, NodeInv, StoredInv
<1>3. BestInv' BY <1>1 DEF NodeInv, BestInv, treeVars
<1>4. RoundInv' BY <1>1 DEF NodeInv, RoundInv, Good, Failed, Worse, InRound, treeVars
<1>5. CompleteInv'
  BY <1>1 DEF NodeInv, CompleteInv, InRound, Kempt, Good, Failed, Worse, treeVars, others
<1> QED BY <1>2, <1>3, <1>4, <1>5 DEF NodeInv

\* InvalidateBlock keeps NodeInv.
LEMMA InvalidateBlockNode ==
    ASSUME SafeInv, NodeInv, NEW b \in CanInvalidate, InvalidateBlock(b)
    PROVE  NodeInv'
<1>1. /\ pc = "idle" /\ pc' = "inv" /\ byWork' \in SUBSET linked
      /\ UNCHANGED treeVars /\ UNCHANGED <<revSeq, mostWork, pending, shutdown, reconsidered>>
  BY DEF InvalidateBlock
<1>2. StoredInv' /\ SeqInv' BY <1>1, QuietNode DEF NodeInv, StoredInv
<1>3. BestInv' BY <1>1 DEF NodeInv, BestInv, treeVars
<1>4. RoundInv' BY <1>1 DEF RoundInv, InRound
<1>5. CompleteInv'
  <2>1. Kempt => /\ \A x \in linked : Good(x) /\ ~Worse(x, tip) => x \in candidates
                 /\ tip \in candidates
    BY <1>1, AtRest DEF NodeInv, CompleteInv
  <2> QED BY <1>1, <2>1 DEF CompleteInv, InRound, Kempt, Good, Failed, Worse, treeVars
<1> QED BY <1>2, <1>3, <1>4, <1>5 DEF NodeInv

\* LeaveLoop keeps NodeInv.
LEMMA LeaveLoopNode ==
    ASSUME SafeInv, NodeInv, LeaveLoop
    PROVE  NodeInv'
<1>1. /\ pc = "inv" /\ pc' = "mark" /\ UNCHANGED treeVars /\ UNCHANGED others
      /\ UNCHANGED <<mostWork, toMark, byWork, pending, shutdown>>
  BY DEF LeaveLoop, frame
<1>2. StoredInv' /\ SeqInv' BY <1>1, QuietNode DEF others, NodeInv, StoredInv
<1>3. BestInv' BY <1>1 DEF NodeInv, BestInv, treeVars
<1>4. RoundInv' BY <1>1 DEF RoundInv, InRound
<1>5. CompleteInv'
  BY <1>1 DEF NodeInv, CompleteInv, InRound, InChain, Kempt, Good, Failed, Worse, treeVars, others
<1> QED BY <1>2, <1>3, <1>4, <1>5 DEF NodeInv

\* RequestShutdown, ReceiveBlock for a block that is of no use, and stuttering.
LEMMA SameNode ==
    ASSUME SafeInv, NodeInv, UNCHANGED treeVars, UNCHANGED frame, UNCHANGED <<others, pc>>,
           shutdown' = shutdown \/ shutdown', pending' = pending \/ pending'
    PROVE  NodeInv'
<1>1. UNCHANGED <<mostWork, startTip, toMark, byWork, revSeq, reconsidered, pc>> BY DEF frame, others
<1>2. StoredInv' /\ SeqInv' BY <1>1, QuietNode DEF NodeInv, StoredInv
<1>3. BestInv' BY <1>1 DEF NodeInv, BestInv, treeVars
<1>4. RoundInv' BY <1>1 DEF NodeInv, RoundInv, Good, Failed, Worse, InRound, treeVars
<1>5. CompleteInv'
  BY <1>1 DEF NodeInv, CompleteInv, InRound, InChain, Kempt, Good, Failed, Worse, treeVars
<1> QED BY <1>2, <1>3, <1>4, <1>5 DEF NodeInv

\* An unpruned node can always disconnect its tip and read the next block.
LEMMA NoAbort ==
    ASSUME SafeInv, NodeInv
    PROVE  ~Abort /\ ~InvalidateFails
<1>1. tip # Genesis => CanDisconnect
  <2>1. tip \in Path[tip] /\ tip \in nTx
    BY PathFacts DEF NodeInv, StoredInv, SafeInv, ShapeInv
  <2> QED BY <2>1 DEF CanDisconnect, NodeInv, StoredInv
<1>2. ASSUME Abort PROVE FALSE
  <2>1. mostWork \in Blocks /\ tip \in Blocks /\ mostWork # tip /\ Good(mostWork)
    BY <1>2 DEF Abort, SafeInv, ShapeInv, ChainInv, BlockOrNone
  <2>2. CASE tip \in Path[mostWork]
    <3>1. NextToConnect \in Path[mostWork] BY <2>1, <2>2, NextIs
    <3>2. Have(NextToConnect, "HAVE_DATA") BY <2>1, <3>1 DEF Good, NodeInv, StoredInv
    <3> QED BY <1>2, <2>2, <3>2 DEF Abort
  <2>3. CASE tip \notin Path[mostWork]
    <3>1. Genesis \in Path[mostWork] BY <2>1, PathFacts
    <3> QED BY <1>1, <1>2, <2>3, <3>1 DEF Abort
  <2> QED BY <2>2, <2>3
<1>3. ASSUME InvalidateFails PROVE FALSE
  <2>1. target \in Path[tip] /\ target # Genesis /\ ~CanDisconnect
    BY <1>3 DEF InvalidateFails, InChain, SafeInv, ShapeInv
  <2> QED BY <1>1, <2>1, BasicFacts, SMTT(30)
<1> QED BY <1>2, <1>3

-----------------------------------------------------------------------------
(* Steps of ActivateBestChainStep.                                         *)

\* DisconnectTip keeps NodeInv.
LEMMA DisconnectTipNode ==
    ASSUME SafeInv, NodeInv, DisconnectTip
    PROVE  NodeInv'
<1>s. ShapeInv BY DEF SafeInv
<1>1. /\ pc = "step" /\ tip \notin Path[mostWork]
      /\ UNCHANGED <<index, level, flags, nTx, linked, seqId, addr, nextSeq, revSeq, candidates,
                     unlinked, failedBlocks, mostWork, startTip, toMark, byWork, reconsidered, pc, pending,
                     shutdown>>
  BY DEF DisconnectTip, treeSame, frame, others
<1>2. tip \in Blocks /\ tip' \in Blocks /\ tip' \in Path[tip] BY DisconnectTipIs
<1>3. ~Worse(tip, tip') BY <1>s, <1>2, MoreWork
<1>4. InRound /\ startTip \in Blocks /\ linked \in SUBSET Blocks /\ candidates \in SUBSET Blocks
  BY <1>s, <1>1 DEF InRound, NodeInv, RoundInv, ShapeInv
<1>5. ~Worse(startTip, tip) BY <1>1 DEF NodeInv, RoundInv
<1>6. StoredInv'
  <2>1. \A c \in candidates : ~Worse(c, tip') BY <1>s, <1>2, <1>3, <1>4, NoWorse DEF NodeInv, StoredInv
  <2>2. Keeping BY <1>1, <1>2, <2>1 DEF Keeping, NodeInv, StoredInv, Have
  <2> QED BY <2>2, KeepingStored DEF NodeInv
<1>7. SeqInv' BY <1>1 DEF NodeInv, SeqInv
<1>8. BestInv' BY <1>1 DEF NodeInv, BestInv
<1>9. RoundInv'
  <2>1. ~Worse(startTip, tip') BY <1>s, <1>2, <1>3, <1>4, <1>5, NoWorse
  <2> QED BY <1>1, <1>4, <2>1 DEF NodeInv, RoundInv, Good, Failed, Worse, InRound
<1>10. CompleteInv'
  <2>1. \A b \in linked : ~Worse(b, startTip) => ~Worse(b, tip) BY <1>s, <1>2, <1>4, <1>5, NoWorse
  <2> QED BY <1>1, <1>4, <2>1 DEF NodeInv, CompleteInv, Kempt, Good, Failed, Worse, InRound
<1> QED BY <1>6, <1>7, <1>8, <1>9, <1>10 DEF NodeInv

\* What ActivateBestChainStep connects next is linked.
LEMMA NextLinked ==
    ASSUME SafeInv, NodeInv, pc = "step", tip \in Path[mostWork]
    PROVE  /\ NextToConnect \in Blocks /\ NextToConnect \in linked /\ NextToConnect \in Path[mostWork]
           /\ Path[NextToConnect] = Path[tip] \cup {NextToConnect} /\ NextToConnect \notin Path[tip]
           /\ ~Failed(NextToConnect) /\ ~Worse(NextToConnect, tip)
<1>1. tip \in Blocks /\ mostWork \in Blocks /\ mostWork # tip /\ mostWork # NoBlock /\ Good(mostWork)
  BY DEF SafeInv, ShapeInv, ChainInv, BlockOrNone
<1>2. /\ NextToConnect \in Path[mostWork] /\ NextToConnect \in Blocks
      /\ Path[NextToConnect] = Path[tip] \cup {NextToConnect} /\ NextToConnect \notin Path[tip]
  BY <1>1, NextIs
<1>3. NextToConnect \in linked /\ ~Failed(NextToConnect) BY <1>1, <1>2 DEF NodeInv, StoredInv, Good
<1>4. tip \in Path[NextToConnect] BY <1>1, <1>2, PathFacts
<1>5. ~Worse(NextToConnect, tip) BY <1>2, <1>4, MoreWork DEF SafeInv
<1> QED BY <1>2, <1>3, <1>5

\* FailToConnect keeps NodeInv.
LEMMA FailToConnectNode ==
    ASSUME SafeInv, NodeInv, FailToConnect
    PROVE  NodeInv'
<1> DEFINE x == NextToConnect
           S == {x}
<1>s. ShapeInv BY DEF SafeInv
<1>1. /\ pc = "step" /\ tip \in Path[mostWork] /\ Fault[x] = "connect"
      /\ failedBlocks' = failedBlocks \cup {x} /\ candidates' = candidates \ {x}
      /\ mostWork' = NoBlock /\ pc' = "stepped"
      /\ UNCHANGED <<index, level, nTx, linked, seqId, addr, nextSeq, revSeq, unlinked, tip,
                     startTip, byWork, reconsidered>>
  BY DEF FailToConnect, treeSame, others
<1>f. flags' = Raise(S, "FAILED_VALID") BY DEF FailToConnect, Condemned
<1>2. x \in Blocks /\ x \in linked BY <1>1, NextLinked
<1> HIDE DEF x
<1>3. InRound BY <1>1 DEF InRound
<1> HIDE DEF S
<1>4. /\ \A b \in Blocks : /\ Have(b, "HAVE_DATA") => Have(b, "HAVE_DATA")'
                           /\ Have(b, "HAVE_UNDO") => Have(b, "HAVE_UNDO")'
                           /\ Failed(b) => Failed(b)'
                           /\ Failed(b)' => Failed(b) \/ b \in S
                           /\ b \in S => Failed(b)'
      /\ \A b \in Blocks : \A a \in Path[b] : (a \in nTx /\ ~Failed(a))' => a \in nTx /\ ~Failed(a)
  BY <1>s, <1>1, <1>f, Raised DEF Flags, FAILED_MASK
<1>p. \A b \in Blocks : b \in Path[b] /\ Path[b] \in SUBSET Blocks BY PathFacts
<1>5. StoredInv'
  <2>1. tip \in Path[tip] BY <1>s, <1>p DEF ShapeInv
  <2>2. Keeping BY <1>1, <1>4, <2>1 DEF Keeping, NodeInv, StoredInv
  <2> QED BY <2>2, KeepingStored DEF NodeInv
<1>7. BestInv' BY <1>1 DEF BestInv
<1>8. startTip \in linked /\ startTip \in Blocks /\ Good(startTip) /\ \A a \in Path[startTip] : Fault[a] = "none"
  BY <1>s, <1>3 DEF NodeInv, RoundInv, ShapeInv
<1>9. RoundInv'
  <2>1. \A a \in Path[startTip] : a \in nTx' /\ ~Failed(a)' BY <1>1, <1>4, <1>8, <1>p DEF Good, S
  <2> QED BY <1>1, <1>8, <2>1 DEF RoundInv, Good
<1>10. CompleteInv'
  <2>1. \A b \in linked : Good(b)' => Good(b) /\ b # x
    <3>1. linked \in SUBSET Blocks BY <1>s DEF ShapeInv
    <3> QED BY <1>4, <1>p, <3>1 DEF Good, S
  <2>2. Kempt => \A b \in linked : Good(b) /\ ~Worse(b, tip) /\ ~Worse(b, startTip) => b \in candidates
    BY <1>3 DEF NodeInv, CompleteInv
  <2> QED BY <1>1, <2>1, <2>2 DEF CompleteInv, Kempt, Worse, InRound
<1>11. SeqInv' BY <1>1 DEF NodeInv, SeqInv
<1> QED BY <1>5, <1>7, <1>9, <1>10, <1>11 DEF NodeInv

\* ConnectTip keeps NodeInv.
LEMMA ConnectTipNode ==
    ASSUME SafeInv, NodeInv, ConnectTip
    PROVE  NodeInv'
<1> DEFINE x == NextToConnect
           S == {x}
<1>s. ShapeInv BY DEF SafeInv
<1>1. /\ pc = "step" /\ tip \in Path[mostWork] /\ tip' = x /\ pc' \in {"step", "stepped"}
      /\ candidates' = Kept(candidates, seqId, x)
      /\ UNCHANGED <<index, nTx, linked, seqId, addr, nextSeq, revSeq, unlinked, failedBlocks,
                     startTip, mostWork, byWork, reconsidered, pending, shutdown>>
  BY DEF ConnectTip, treeSame, frame, others
<1>f. flags' = Raise(S, "HAVE_UNDO") BY DEF ConnectTip
<1>l. level' = IF Failed(x) THEN level ELSE [level EXCEPT ![x] = SCRIPTS] BY DEF ConnectTip
<1>2. /\ x \in Blocks /\ x \in linked /\ x \in Path[mostWork] /\ Path[x] = Path[tip] \cup {x}
      /\ ~Worse(x, tip)
  BY <1>1, NextLinked
<1> HIDE DEF x
<1>3. InRound BY <1>1 DEF InRound
<1> HIDE DEF S
<1>4. \A b \in Blocks : flags'[b] = IF b \in S THEN flags[b] \cup {"HAVE_UNDO"} ELSE flags[b]
  <2>1. "HAVE_UNDO" \in Flags BY DEF Flags
  <2> QED BY <1>s, <1>f, <2>1, RaiseIs, SMTT(30)
<1>5. \A b \in Blocks : /\ Failed(b)' <=> Failed(b)
                        /\ Have(b, "HAVE_DATA") => Have(b, "HAVE_DATA")'
                        /\ Have(b, "HAVE_UNDO") => Have(b, "HAVE_UNDO")'
                        /\ b \in S => Have(b, "HAVE_UNDO")'
  BY <1>4 DEF Failed, Have, FAILED_MASK
<1>p. \A b \in Blocks : Path[b] \in SUBSET Blocks BY PathFacts
<1>6. \A b \in Blocks : Good(b)' <=> Good(b)
  BY <1>1, <1>5, <1>p DEF Good
<1>7. candidates' \in SUBSET candidates /\ \A c \in candidates' : ~Worse(c, x)
  BY <1>1 DEF Kept, Worse
<1>8. \A b \in candidates : ~Worse(b, x) => b \in candidates' BY <1>1 DEF Kept, Worse
<1>9. StoredInv'
  <2>1. \A b \in Blocks : level'[b] >= level[b] \/ level'[b] = SCRIPTS
    <3>1. level \in [Blocks -> Int] BY <1>s DEF ShapeInv
    <3> QED BY <1>2, <1>l, <3>1, SMTT(30)
  <2>2. /\ nTx \in SUBSET Blocks /\ index \in SUBSET Blocks /\ tip \in Blocks
        /\ \A b \in Blocks : level[b] \in Int /\ level'[b] \in Int
    <3>1. ShapeInv' BY ConnectTipSafe DEF SafeInv
    <3> QED BY <1>s, <3>1 DEF ShapeInv
  <2>3. \A b \in nTx : Have(b, "HAVE_DATA")' /\ level'[b] >= TRANSACTIONS
    BY <1>5, <2>1, <2>2, SMTT(30) DEF NodeInv, StoredInv, TRANSACTIONS, SCRIPTS
  <2>4. \A b \in index : level'[b] >= TREE BY <2>1, <2>2, SMTT(30) DEF NodeInv, StoredInv, TREE, SCRIPTS
  <2>5. \A c \in candidates' : ~Worse(c, tip)' BY <1>1, <1>7 DEF Worse
  <2>6. \A a \in Path[tip'] \ {Genesis} : Have(a, "HAVE_UNDO")'
    <3>1. \A a \in Path[tip] \ {Genesis} : a \in Blocks /\ Have(a, "HAVE_UNDO")
      BY <1>p, <2>2 DEF NodeInv, StoredInv
    <3> QED BY <1>1, <1>2, <1>5, <3>1 DEF S
  <2> QED BY <1>1, <1>2, <1>7, <2>3, <2>4, <2>5, <2>6 DEF NodeInv, StoredInv
<1>11. SeqInv' BY <1>1 DEF NodeInv, SeqInv
<1>12. BestInv' BY <1>1, <1>2, <1>7 DEF NodeInv, BestInv
<1>13. RoundInv'
  <2>1. startTip \in linked /\ startTip \in Blocks /\ Good(startTip) /\ \A a \in Path[startTip] : Fault[a] = "none"
    BY <1>s, <1>3 DEF NodeInv, RoundInv, ShapeInv
  <2>2. Good(startTip)' BY <1>1, <1>5, <1>p, <2>1 DEF Good
  <2> QED BY <1>1, <1>2, <2>1, <2>2 DEF RoundInv
<1>14. CompleteInv'
  <2>1. linked \in SUBSET Blocks /\ tip \in Blocks BY <1>s DEF ShapeInv
  <2>2. \A b \in linked : ~Worse(b, x) => ~Worse(b, tip) BY <1>s, <1>2, <2>1, NoWorse
  <2>3. Kempt => /\ \A b \in linked : Good(b) /\ ~Worse(b, tip) /\ ~Worse(b, startTip) => b \in candidates
                 /\ mostWork # NoBlock => ~Worse(mostWork, startTip)
    BY <1>3 DEF NodeInv, CompleteInv
  <2>4. Kempt => \A b \in linked : Good(b)' /\ ~Worse(b, x) /\ ~Worse(b, startTip) => b \in candidates'
    BY <1>6, <1>8, <2>1, <2>2, <2>3
  <2> QED BY <1>1, <2>3, <2>4 DEF CompleteInv, Kempt, Worse, InRound
<1> QED BY <1>9, <1>11, <1>12, <1>13, <1>14 DEF NodeInv

\* The obstacle is a failed block: nothing an unpruned node has linked is missing.
LEMMA DropCandidateNode ==
    ASSUME SafeInv, NodeInv, DropCandidate
    PROVE  NodeInv'
<1> DEFINE c == BestCandidate
           x == Obstacle(c)
           S == Path[c] \ Path[x]
<1>s. ShapeInv BY DEF SafeInv
<1>1. /\ pc = "find" /\ mostWork = NoBlock /\ candidates # {} /\ Obstacles(c) # {}
      /\ candidates' = candidates \ (S \cup {x})
      /\ UNCHANGED <<index, level, nTx, linked, seqId, addr, nextSeq, failedBlocks, tip,
                     mostWork, startTip, byWork, revSeq, reconsidered, pc>>
  BY DEF DropCandidate, treeSame, frame, others
<1>f. flags' = FlagsAbove(x, S) /\ unlinked' = WaitingAbove(x, S) BY DEF DropCandidate
<1>2. c \in Blocks /\ c \in linked BY <1>s, <1>1, BestIs DEF NodeInv, StoredInv, ShapeInv
<1> HIDE DEF c
<1>3. x \in Path[c] /\ x \in Obstacles(c) BY <1>1, <1>2, ObstacleIs
<1> HIDE DEF x
<1>4. Path[c] \in SUBSET linked /\ linked \in SUBSET nTx /\ linked \in SUBSET Blocks /\ linked \in SUBSET index
  BY <1>s, <1>2 DEF NodeInv, StoredInv, ShapeInv
<1>5. Failed(x)
  <2>1. Have(x, "HAVE_DATA") BY <1>3, <1>4 DEF NodeInv, StoredInv
  <2> QED BY <1>3, <2>1 DEF Obstacles
<1>6. flags' = Raise(S, "FAILED_CHILD") /\ unlinked' = unlinked BY <1>f, <1>5 DEF FlagsAbove, WaitingAbove
<1>7. S \in SUBSET linked BY <1>4
<1>r. /\ InRound /\ startTip \in Blocks /\ startTip \in linked /\ Good(startTip)
      /\ \A a \in Path[startTip] : Fault[a] = "none"
      /\ ~Worse(startTip, tip)
  BY <1>1, <1>4 DEF NodeInv, RoundInv, InRound
<1>8. Path[startTip] \cap S = {} BY <1>2, <1>3, <1>5, <1>r, AboveFailed
<1> HIDE DEF S
<1>9. /\ \A b \in Blocks : /\ Have(b, "HAVE_DATA") => Have(b, "HAVE_DATA")'
                           /\ Have(b, "HAVE_UNDO") => Have(b, "HAVE_UNDO")'
                           /\ Failed(b) => Failed(b)'
                           /\ Failed(b)' => Failed(b) \/ b \in S
                           /\ b \in S => Failed(b)'
      /\ \A b \in Blocks : \A a \in Path[b] : (a \in nTx /\ ~Failed(a))' => a \in nTx /\ ~Failed(a)
  BY <1>s, <1>1, <1>6, Raised DEF Flags, FAILED_MASK
<1>p. \A b \in Blocks : b \in Path[b] /\ Path[b] \in SUBSET Blocks BY PathFacts
<1>10. StoredInv'
  <2>1. tip \in Path[tip] BY <1>s, <1>p DEF ShapeInv
  <2>2. Keeping BY <1>1, <1>6, <1>9, <2>1 DEF Keeping, NodeInv, StoredInv
  <2> QED BY <2>2, KeepingStored DEF NodeInv
<1>12. BestInv' BY <1>1 DEF BestInv
<1>13. RoundInv'
  <2>1. \A a \in Path[startTip] : a \in nTx' /\ ~Failed(a)' BY <1>1, <1>8, <1>9, <1>p, <1>r DEF Good
  <2> QED BY <1>1, <1>r, <2>1 DEF RoundInv, Good, Worse
<1>14. CompleteInv'
  <2>1. \A b \in linked : Good(b)' => Good(b) /\ b # x /\ b \notin S
    <3>1. \A b \in linked : Good(b)' => Good(b) /\ b \notin S BY <1>4, <1>9, <1>p DEF Good
    <3>2. \A b \in linked : Good(b) => b # x BY <1>4, <1>5, <1>p DEF Good
    <3> QED BY <3>1, <3>2
  <2>2. Kempt => \A b \in linked : Good(b) /\ ~Worse(b, tip) /\ ~Worse(b, startTip) => b \in candidates
    BY <1>r DEF NodeInv, CompleteInv
  <2> QED BY <1>1, <2>1, <2>2 DEF CompleteInv, Kempt, Worse, InRound
<1>15. SeqInv' BY <1>1 DEF NodeInv, SeqInv
<1> QED BY <1>10, <1>12, <1>13, <1>14, <1>15 DEF NodeInv

-----------------------------------------------------------------------------
(* Steps of InvalidateBlock.                                               *)

\* InvalidateTip keeps NodeInv.
LEMMA InvalidateTipNode ==
    ASSUME SafeInv, NodeInv, InvalidateTip
    PROVE  NodeInv'
<1> DEFINE back == {c \in byWork : ~Worse(c, Parent[tip])}
           S == {tip}
<1>s. ShapeInv BY DEF SafeInv
<1>1. /\ pc = "inv" /\ byWork' = byWork \ back /\ toMark' = tip
      /\ UNCHANGED <<index, level, nTx, linked, seqId, addr, nextSeq, revSeq, unlinked, failedBlocks,
                     mostWork, reconsidered, pc>>
  BY DEF InvalidateTip, treeSame, others
<1>2. candidates' = (candidates \ {tip}) \cup {tip'} \cup back BY DEF InvalidateTip
<1>3. /\ tip \in Blocks /\ tip' = Parent[tip] /\ tip' \in Path[tip] /\ tip' \in Blocks
      /\ tip \notin Path[tip'] /\ flags' = Raise(S, "FAILED_VALID")
  BY InvalidateTipIs
<1>4. back \in SUBSET byWork /\ \A c \in back : ~Worse(c, tip') BY <1>3
<1> HIDE DEF back
<1>5. /\ candidates \in SUBSET linked /\ candidates \in SUBSET Blocks /\ byWork \in SUBSET linked
      /\ tip' \in linked /\ \A c \in candidates : ~Worse(c, tip)
  BY <1>s, <1>3 DEF NodeInv, StoredInv, ShapeInv
<1>6. \A c \in candidates \cup {tip'} : ~Worse(c, tip')
  <2>1. ~Worse(tip, tip') BY <1>s, <1>3, MoreWork
  <2>2. ~Worse(tip', tip') BY <1>s, <1>3, WorseOrder
  <2> QED BY <1>s, <1>3, <1>5, <2>1, <2>2, NoWorse
<1> HIDE DEF S
<1>7. \A b \in Blocks : /\ Have(b, "HAVE_DATA") => Have(b, "HAVE_DATA")'
                        /\ Have(b, "HAVE_UNDO") => Have(b, "HAVE_UNDO")'
  BY <1>s, <1>1, <1>3, Raised DEF Flags
<1>8. mostWork' = NoBlock BY <1>1 DEF SafeInv, ChainInv
<1>9. StoredInv'
  <2>1. candidates' \in SUBSET linked /\ byWork' \in SUBSET linked /\ \A c \in candidates' : ~Worse(c, tip')
    BY <1>1, <1>2, <1>4, <1>5, <1>6
  <2>2. Keeping BY <1>1, <1>3, <1>7, <1>8, <2>1 DEF Keeping
  <2> QED BY <2>2, KeepingStored DEF NodeInv
<1>11. BestInv' /\ RoundInv' BY <1>1, <1>8 DEF BestInv, RoundInv, InRound
<1>12. CompleteInv' BY <1>1, <1>2, <1>3 DEF CompleteInv, InRound, InChain
<1>13. SeqInv' BY <1>1 DEF NodeInv, SeqInv
<1> QED BY <1>9, <1>11, <1>12, <1>13 DEF NodeInv

\* MarkInvalid keeps NodeInv.
LEMMA MarkInvalidNode ==
    ASSUME SafeInv, NodeInv, MarkInvalid
    PROVE  NodeInv'
<1> DEFINE S == IF InChain(toMark) THEN {} ELSE {toMark}
<1>s. ShapeInv BY DEF SafeInv
<1>1. /\ pc = "mark" /\ pc' = "idle" /\ mostWork' = NoBlock /\ byWork' = {} /\ pending'
      /\ UNCHANGED <<index, level, nTx, linked, seqId, addr, nextSeq, revSeq, unlinked, tip, reconsidered>>
  BY DEF MarkInvalid, Return, treeSame, others
<1>2. toMark \in Blocks /\ tip \in Blocks BY <1>s, <1>1 DEF ShapeInv
<1>3. flags' = Raise(S, "FAILED_VALID")
  <2>1. CASE InChain(toMark)
    <3>1. flags' = flags BY <2>1 DEF MarkInvalid
    <3>2. flags = Raise({}, "FAILED_VALID") BY <1>s, RaiseNone
    <3> QED BY <2>1, <3>1, <3>2
  <2>2. CASE ~InChain(toMark) BY <2>2 DEF MarkInvalid
  <2> QED BY <2>1, <2>2
<1>4. \/ InChain(toMark) /\ candidates' = candidates
      \/ ~InChain(toMark) /\ S = {toMark} /\ candidates' = (candidates \ {toMark}) \cup Missed({toMark})
  BY DEF MarkInvalid
<1> HIDE DEF S
<1>5. /\ \A b \in Blocks : /\ Have(b, "HAVE_DATA") => Have(b, "HAVE_DATA")'
                           /\ Have(b, "HAVE_UNDO") => Have(b, "HAVE_UNDO")'
                           /\ b \in S => Failed(b)'
      /\ \A b \in Blocks : \A a \in Path[b] : (a \in nTx /\ ~Failed(a))' => a \in nTx /\ ~Failed(a)
  BY <1>s, <1>1, <1>3, Raised DEF Flags, FAILED_MASK
<1>p. \A b \in Blocks : b \in Path[b] /\ Path[b] \in SUBSET Blocks BY PathFacts
<1>6. linked \in SUBSET Blocks /\ linked \in SUBSET index /\ linked \in SUBSET nTx
  BY <1>s DEF NodeInv, StoredInv, ShapeInv
<1>7. \A b \in linked : Good(b)' => Good(b) /\ b \notin S BY <1>5, <1>6, <1>p DEF Good
<1>8. StoredInv'
  <2>1. Missed({toMark}) \in SUBSET linked /\ \A c \in Missed({toMark}) : ~Worse(c, tip) BY DEF Missed
  <2>2. candidates' \in SUBSET linked /\ \A c \in candidates' : ~Worse(c, tip)
    BY <1>4, <2>1 DEF NodeInv, StoredInv
  <2>3. Keeping BY <1>1, <1>2, <1>5, <1>p, <2>2 DEF Keeping
  <2> QED BY <2>3, KeepingStored DEF NodeInv
<1>10. BestInv' /\ RoundInv' BY <1>1 DEF BestInv, RoundInv, InRound
<1>11. CompleteInv'
  <2>1. Kempt => \A b \in linked : Good(b)' /\ ~Worse(b, tip) => b \in candidates'
    <3>1. CASE InChain(toMark) BY <1>1, <1>4, <1>7, <3>1 DEF NodeInv, CompleteInv
    <3>2. CASE ~InChain(toMark)
      <4>1. \A b \in linked : Good(b) => IsValid(b, TRANSACTIONS)
        BY <1>6, <1>p DEF Good, IsValid, NodeInv, StoredInv
      <4> QED BY <1>4, <1>6, <1>7, <3>2, <4>1 DEF Missed
    <3> QED BY <3>1, <3>2
  <2> QED BY <1>1, <2>1 DEF CompleteInv, InRound, Kempt, Worse
<1>12. SeqInv' BY <1>1 DEF NodeInv, SeqInv
<1> QED BY <1>8, <1>10, <1>11, <1>12 DEF NodeInv

-----------------------------------------------------------------------------
(* Steps of others, while cs_main is free.                                 *)

\* What they leave alone; a block that belongs into setBlockIndexCandidates is there, or
\* was missing before.
LEMMA MainFreeNode ==
    ASSUME SafeInv, NodeInv, MainFree, UNCHANGED <<frame, pc, tip>>,
           pending' \/ UNCHANGED <<candidates, pending, shutdown>>,
           reconsidered' = reconsidered,
           Kempt => \A x \in linked' : Good(x)' /\ ~Worse(x, tip)' =>
                       x \in candidates' \/ (x \in linked /\ Good(x) /\ ~Worse(x, tip) /\ x \notin candidates),
           Kempt /\ pc \in {"inv", "mark"} /\ tip \in candidates => tip \in candidates'
    PROVE  BestInv' /\ RoundInv' /\ CompleteInv'
<1> UNCHANGED <<mostWork, startTip, toMark, pc, tip>> BY DEF frame
<1> pc \notin {"find", "step", "stepped"} BY DEF MainFree
<1>1. BestInv' BY DEF NodeInv, BestInv
<1>2. RoundInv' BY DEF RoundInv, InRound
<1>3. CompleteInv' BY DEF NodeInv, CompleteInv, Kempt, InRound, InChain
<1> QED BY <1>1, <1>2, <1>3

\* Marks on blocks that are on no good chain.
LEMMA MarkedNode ==
    ASSUME SafeInv, NodeInv, MainFree, NEW S, NEW f \in FAILED_MASK, flags' = Raise(S, f),
           UNCHANGED <<index, level, nTx, linked, seqId, addr, candidates, unlinked, tip, nextSeq>>,
           UNCHANGED <<frame, others, pc, pending, shutdown>>
    PROVE  NodeInv'
<1> UNCHANGED <<mostWork, byWork, revSeq, reconsidered>> BY DEF frame, others
<1> \A b \in Blocks : b \in Path[b] /\ Path[b] \in SUBSET Blocks BY PathFacts
<1>1. /\ \A b \in Blocks : /\ Have(b, "HAVE_DATA") => Have(b, "HAVE_DATA")'
                           /\ Have(b, "HAVE_UNDO") => Have(b, "HAVE_UNDO")'
      /\ \A b \in Blocks : \A a \in Path[b] : (a \in nTx /\ ~Failed(a))' => a \in nTx /\ ~Failed(a)
  <2>1. f \in Flags BY DEF Flags, FAILED_MASK
  <2> QED BY <2>1, Raised DEF SafeInv
<1>2. StoredInv'
  <2>1. tip \in Path[tip] BY DEF SafeInv, ShapeInv
  <2>2. Keeping BY <1>1, <2>1 DEF Keeping, NodeInv, StoredInv
  <2> QED BY <2>2, KeepingStored DEF NodeInv
<1>3. SeqInv' BY DEF NodeInv, SeqInv
<1>4. \A b \in linked : (Good(b)' => Good(b)) /\ (Worse(b, tip)' <=> Worse(b, tip))
  <2>1. linked \in SUBSET Blocks BY DEF SafeInv, ShapeInv
  <2> QED BY <1>1, <2>1 DEF Good, Worse
<1>5. BestInv' /\ RoundInv' /\ CompleteInv' BY <1>4, MainFreeNode
<1> QED BY <1>2, <1>3, <1>5 DEF NodeInv

\* ReceiveHeader keeps NodeInv.
LEMMA ReceiveHeaderNode ==
    ASSUME SafeInv, NodeInv, NEW b \in Blocks \ {Genesis}, ReceiveHeader(b)
    PROVE  NodeInv'
<1> MainFree /\ UNCHANGED <<frame, others, pc, pending, shutdown>> BY DEF ReceiveHeader
<1>1. CASE RejectBlockHeader(b)
  <2>1. PICK f \in FailedAncestors(b) : flags' = Raise(Path[Parent[b]] \ Path[f], "FAILED_CHILD")
    BY <1>1 DEF RejectBlockHeader
  <2>2. UNCHANGED <<index, level, nTx, linked, seqId, addr, candidates, unlinked, tip, nextSeq>>
    BY <1>1 DEF RejectBlockHeader
  <2> QED BY <2>1, <2>2, MarkedNode DEF FAILED_MASK
<1>2. CASE AcceptBlockHeader(b)
  <2> UNCHANGED <<flags, nTx, linked, seqId, addr, candidates, unlinked, tip, nextSeq>>
    BY <1>2 DEF AcceptBlockHeader
  <2> UNCHANGED <<mostWork, byWork, revSeq, reconsidered>> BY DEF frame, others
  <2> index \in SUBSET Blocks /\ nTx \in SUBSET index BY DEF SafeInv, ShapeInv
  <2>1. b \notin index /\ Parent[b] \in index /\ index' = index \cup {b} /\ level' = [level EXCEPT ![b] = TREE]
    BY <1>2 DEF AcceptBlockHeader
  <2>2. /\ \A x \in Blocks : (level[x] >= TREE \/ x = b => level'[x] >= TREE)
        /\ \A x \in Blocks \ {b} : level'[x] = level[x]
    BY <2>1, StatusRises DEF SafeInv
  <2>3. StoredInv'
    <3>1. \A x \in index' \ {Genesis} : Parent[x] \in index' BY <2>1 DEF NodeInv, StoredInv
    <3>2. \A x \in nTx : Have(x, "HAVE_DATA")' /\ level'[x] >= TRANSACTIONS
      BY <2>1, <2>2 DEF NodeInv, StoredInv, Have
    <3>3. \A x \in index' : level'[x] >= TREE BY <2>1, <2>2 DEF NodeInv, StoredInv
    <3> QED BY <3>1, <3>2, <3>3 DEF NodeInv, StoredInv, Have, Worse
  <2>4. SeqInv' BY DEF NodeInv, SeqInv
  <2>5. \A x : (Good(x)' <=> Good(x)) /\ (Worse(x, tip)' <=> Worse(x, tip)) BY DEF Good, Failed, Worse
  <2>6. BestInv' /\ RoundInv' /\ CompleteInv' BY <2>5, MainFreeNode
  <2> QED BY <2>3, <2>4, <2>6 DEF NodeInv
<1> QED BY <1>1, <1>2 DEF ReceiveHeader

\* The blocks ReceivedBlockTransactions links were not linked, and all below them are.
LEMMA NowLinkedIs ==
    ASSUME SafeInv, NodeInv, NEW b \in Blocks \ {Genesis}, b \notin nTx, Parent[b] \in linked
    PROVE  /\ NowLinked(b) \in SUBSET (unlinked \cup {b}) /\ b \in NowLinked(b)
           /\ NowLinked(b) \cap linked = {} /\ NowLinked(b) \in SUBSET Blocks
           /\ \A x \in NowLinked(b) : Path[x] \in SUBSET (linked \cup NowLinked(b))
<1> linked \in SUBSET nTx /\ unlinked \cap linked = {} /\ unlinked \in SUBSET Blocks /\ Path[Parent[b]] \in SUBSET linked
  BY DEF NodeInv, StoredInv, SafeInv, ShapeInv
<1>1. NowLinked(b) \in SUBSET (unlinked \cup {b}) /\ b \in NowLinked(b) BY DEF NowLinked
<1>2. NowLinked(b) \cap linked = {} /\ NowLinked(b) \in SUBSET Blocks BY <1>1
<1>3. Path[b] \in SUBSET (linked \cup NowLinked(b)) BY <1>1, ParentIs, SMTT(30)
<1>4. ASSUME NEW u \in NowLinked(b), u # b, NEW a \in Path[u], a \notin Path[b]
      PROVE  a \in NowLinked(b)
  <2>1. u \in Blocks /\ b \in Path[u] /\ Path[u] \ Path[b] \in SUBSET unlinked BY <1>4 DEF NowLinked
  <2>2. b \in Path[a] BY <1>4, <2>1, PathLinear
  <2>3. Path[a] \in SUBSET Path[u] BY <1>4, <2>1, PathFacts
  <2> QED BY <1>4, <2>1, <2>2, <2>3 DEF NowLinked
<1>5. \A x \in NowLinked(b) : Path[x] \in SUBSET (linked \cup NowLinked(b)) BY <1>3, <1>4
<1> QED BY <1>1, <1>2, <1>5

\* Which blocks AcceptBlock links, and the order it gives them.
LEMMA AcceptBlockLinks ==
    ASSUME SafeInv, NodeInv, NEW b \in Blocks \ {Genesis}, b \notin nTx,
           nTx' = nTx \cup {b}, UNCHANGED <<addr, tip>>,
           IF Parent[b] \in linked THEN LinkBlocks(b) ELSE LinkLater(b)
    PROVE  /\ linked \in SUBSET linked' /\ linked' \in SUBSET nTx'
           /\ \A x \in linked' : Path[x] \in SUBSET linked'
           /\ unlinked' \in SUBSET nTx' /\ unlinked' \cap linked' = {}
           /\ candidates' \cap linked = candidates /\ candidates' \in SUBSET linked'
           /\ nextSeq' >= 0 /\ \A x \in Blocks \ CanPrecious : seqId'[x] >= 0
           /\ \A x \in linked : Worse(x, tip)' <=> Worse(x, tip)
           /\ \A x \in linked' \ linked : ~Worse(x, tip)' <=> x \in candidates'
<1> /\ linked \in SUBSET nTx /\ unlinked \cap linked = {} /\ unlinked \in SUBSET nTx /\ tip \in linked
    /\ candidates \in SUBSET linked /\ linked \in SUBSET Blocks /\ \A x \in linked : Path[x] \in SUBSET linked
  BY DEF NodeInv, StoredInv, SafeInv, ShapeInv
<1>1. CASE Parent[b] \notin linked
  <2>1. linked' = linked /\ unlinked' \in SUBSET (unlinked \cup {b}) /\ UNCHANGED <<seqId, nextSeq, candidates>>
    BY <1>1 DEF LinkLater
  <2>2. nextSeq' >= 0 /\ \A x \in Blocks \ CanPrecious : seqId'[x] >= 0 BY <2>1 DEF NodeInv, SeqInv
  <2>3. \A x \in linked : Worse(x, tip)' <=> Worse(x, tip) BY <2>1 DEF Worse
  <2> QED BY <2>1, <2>2, <2>3
<1>2. CASE Parent[b] \in linked
  <2> DEFINE S == NowLinked(b)
  <2>1. LinkBlocks(b) BY <1>2
  <2>2. /\ S \in SUBSET (unlinked \cup {b}) /\ b \in S /\ S \cap linked = {} /\ S \in SUBSET Blocks
        /\ \A x \in S : Path[x] \in SUBSET (linked \cup S)
    BY <1>2, NowLinkedIs
  <2>3. /\ nextSeq' >= 0 /\ \A x \in Blocks \ CanPrecious : seqId'[x] >= 0
        /\ \A x \in Blocks \ S : seqId'[x] = seqId[x]
    BY <2>1, LinkedIds DEF SafeInv, NodeInv
  <2>4. /\ linked' = linked \cup S /\ unlinked' = unlinked \ (S \ {b})
        /\ candidates' = candidates \cup {x \in S : ~CBlockIndexWorkComparator(seqId', addr, x, tip)}
    BY <2>1 DEF LinkBlocks
  <2> HIDE DEF S
  <2>5. \A x \in linked : Worse(x, tip)' <=> Worse(x, tip)
    BY <2>2, <2>3 DEF Worse, CBlockIndexWorkComparator
  <2>6. \A x \in S : ~Worse(x, tip)' <=> x \in candidates' BY <2>2, <2>4 DEF Worse
  <2>7. unlinked' \in SUBSET nTx' /\ unlinked' \cap linked' = {} /\ linked' \in SUBSET nTx'
    BY <2>2, <2>4
  <2>8. \A x \in linked' : Path[x] \in SUBSET linked' BY <2>2, <2>4
  <2>9. candidates' \cap linked = candidates /\ candidates' \in SUBSET linked' BY <2>2, <2>4
  <2>10. linked \in SUBSET linked' /\ linked' \ linked \in SUBSET S BY <2>4
  <2> QED BY <2>3, <2>5, <2>6, <2>7, <2>8, <2>9, <2>10
<1> QED BY <1>1, <1>2

\* AcceptBlock of a block that is wanted keeps NodeInv.
LEMMA AcceptBlockNode ==
    ASSUME SafeInv, NodeInv, NEW b \in Blocks \ {Genesis}, NEW r \in BOOLEAN, AcceptBlock(b, r),
           MainFree, pending', UNCHANGED <<frame, others, pc, shutdown>>
    PROVE  NodeInv'
<1> UNCHANGED <<mostWork, byWork, revSeq, reconsidered>> BY DEF frame, others
<1> UNCHANGED <<index, addr, tip>> /\ nTx' = nTx \cup {b} /\ b \in index BY DEF AcceptBlock, Wanted
<1> /\ index \in SUBSET Blocks /\ nTx \in SUBSET index /\ linked \in SUBSET nTx /\ tip \in linked
    /\ Path[tip] \in SUBSET linked /\ candidates \in SUBSET linked
  BY DEF SafeInv, ShapeInv, NodeInv, StoredInv
<1> \A x \in Blocks : Path[x] \in SUBSET Blocks BY PathFacts
<1> DEFINE S == {b}
<1>1. flags' = Raise(S, "HAVE_DATA") BY DEF AcceptBlock
<1>2. b \notin nTx BY DEF AcceptBlock, Wanted, NodeInv, StoredInv
<1> HIDE DEF S
<1>3. \A x \in Blocks : flags'[x] = IF x \in S THEN flags[x] \cup {"HAVE_DATA"} ELSE flags[x]
  <2>1. "HAVE_DATA" \in Flags BY DEF Flags
  <2> QED BY <1>1, <2>1, RaiseIs, SMTT(30) DEF SafeInv
<1>4. \A x \in Blocks : /\ Failed(x)' <=> Failed(x)
                        /\ Have(x, "HAVE_DATA") => Have(x, "HAVE_DATA")'
                        /\ Have(x, "HAVE_UNDO") => Have(x, "HAVE_UNDO")'
                        /\ x \in S => Have(x, "HAVE_DATA")'
  BY <1>3 DEF Failed, Have, FAILED_MASK
<1>5. /\ linked \in SUBSET linked' /\ linked' \in SUBSET nTx'
      /\ \A x \in linked' : Path[x] \in SUBSET linked'
      /\ unlinked' \in SUBSET nTx' /\ unlinked' \cap linked' = {}
      /\ candidates' \cap linked = candidates /\ candidates' \in SUBSET linked'
      /\ nextSeq' >= 0 /\ \A x \in Blocks \ CanPrecious : seqId'[x] >= 0
      /\ \A x \in linked : Worse(x, tip)' <=> Worse(x, tip)
      /\ \A x \in linked' \ linked : ~Worse(x, tip)' <=> x \in candidates'
  BY <1>2, AcceptBlockLinks DEF AcceptBlock
<1>6. StoredInv'
  <2>1. /\ \A x \in index : level'[x] >= TREE
        /\ \A x \in nTx' : Have(x, "HAVE_DATA")' /\ level'[x] >= TRANSACTIONS
    <3>1. level' = [level EXCEPT ![b] = IF @ < TRANSACTIONS THEN TRANSACTIONS ELSE @] BY DEF AcceptBlock
    <3>2. /\ \A x \in Blocks : (level[x] >= TREE \/ x = b => level'[x] >= TREE)
          /\ \A x \in Blocks \ {b} : level'[x] = level[x]
          /\ level'[b] >= TRANSACTIONS
      BY <3>1, StatusRises DEF SafeInv
    <3> QED BY <1>4, <3>2 DEF NodeInv, StoredInv, S
  <2>2. \A c \in candidates' : ~Worse(c, tip)' BY <1>5 DEF NodeInv, StoredInv
  <2>3. \A a \in Path[tip] \ {Genesis} : Have(a, "HAVE_UNDO")' BY <1>4 DEF NodeInv, StoredInv
  <2> QED BY <1>5, <2>1, <2>2, <2>3 DEF NodeInv, StoredInv
<1>7. SeqInv' BY <1>5 DEF NodeInv, SeqInv
<1>8. \A x \in linked : Good(x)' => Good(x) BY <1>4 DEF Good, NodeInv, StoredInv
<1>9. BestInv' /\ RoundInv' /\ CompleteInv' BY <1>5, <1>8, MainFreeNode
<1> QED BY <1>6, <1>7, <1>9 DEF NodeInv

\* ReceiveBlock keeps NodeInv.
LEMMA ReceiveBlockNode ==
    ASSUME SafeInv, NodeInv, NEW b \in Blocks \ {Genesis}, NEW r \in BOOLEAN, ReceiveBlock(b, r)
    PROVE  NodeInv'
<1>1. MainFree /\ UNCHANGED <<frame, others, pc, shutdown>> BY DEF ReceiveBlock
<1>2. \/ AcceptBlock(b, r) /\ pending'
      \/ RejectBlock(b, r) /\ UNCHANGED pending
      \/ UNCHANGED treeVars /\ pending'
  BY DEF ReceiveBlock
<1>3. CASE RejectBlock(b, r) /\ UNCHANGED pending
  <2>1. flags' = Raise({b}, "FAILED_VALID") BY <1>3 DEF RejectBlock
  <2>2. UNCHANGED <<index, level, nTx, linked, seqId, addr, candidates, unlinked, tip, nextSeq>>
    BY <1>3 DEF RejectBlock
  <2> QED BY <1>1, <1>3, <2>1, <2>2, MarkedNode DEF FAILED_MASK
<1> QED BY <1>1, <1>2, <1>3, AcceptBlockNode, SameNode

\* ReconsiderBlock keeps NodeInv.
LEMMA ReconsiderBlockNode ==
    ASSUME SafeInv, NodeInv, NEW b \in CanReconsider, ReconsiderBlock(b)
    PROVE  NodeInv'
<1> DEFINE C == {x \in index : b \in Path[x] /\ ~IsValid(x, TRANSACTIONS)} \cup Path[b]
<1>1. /\ MainFree /\ reconsidered' /\ pending'
      /\ UNCHANGED <<index, level, nTx, linked, seqId, addr, unlinked, tip, nextSeq, revSeq, pc>>
      /\ UNCHANGED frame
  BY DEF ReconsiderBlock, ResetBlockFailureFlags
<1>2. UNCHANGED <<mostWork, byWork>> BY <1>1 DEF frame
<1>3. flags' = [x \in Blocks |-> IF x \in C THEN flags[x] \ FAILED_MASK ELSE flags[x]]
  BY DEF ReconsiderBlock, ResetBlockFailureFlags
<1> HIDE DEF C
<1>4. \A c \in candidates' : c \in candidates \/ (c \in linked /\ Worse(tip, c))
  BY DEF ReconsiderBlock, ResetBlockFailureFlags
<1>5. tip \in Blocks /\ linked \in SUBSET Blocks /\ candidates \in SUBSET linked BY DEF SafeInv, ShapeInv, NodeInv, StoredInv
<1>6. \A c \in candidates' : c \in linked /\ ~Worse(c, tip)
  BY <1>4, <1>5, WorseOrder DEF SafeInv, NodeInv, StoredInv
<1>7. \A x \in Blocks : /\ Have(x, "HAVE_DATA") => Have(x, "HAVE_DATA")'
                        /\ Have(x, "HAVE_UNDO") => Have(x, "HAVE_UNDO")'
  BY <1>3 DEF Have, FAILED_MASK
<1>8. tip \in Path[tip] BY <1>5, PathFacts
<1>9. Keeping BY <1>1, <1>2, <1>6, <1>7, <1>8 DEF Keeping, NodeInv, StoredInv
<1>10. StoredInv' BY <1>9, KeepingStored DEF NodeInv
<1>11. BestInv' /\ RoundInv' BY <1>1, <1>2 DEF NodeInv, BestInv, RoundInv, InRound, MainFree
<1>12. CompleteInv' /\ SeqInv' BY <1>1 DEF CompleteInv, Kempt, NodeInv, SeqInv
<1> QED BY <1>10, <1>11, <1>12 DEF NodeInv

\* A second precious block could push aside a candidate that ties with the tip: the numbers
\* start over from -1 when the tip has gained work.
LEMMA PreciousBlockNode ==
    ASSUME SafeInv, NodeInv, NEW b \in CanPrecious, PreciousBlock(b)
    PROVE  NodeInv'
<1> DEFINE rev == IF Work[tip] > lastPrecious THEN -1 ELSE revSeq
           s == [seqId EXCEPT ![b] = rev]
<1>1. /\ MainFree /\ pending' /\ b \in Blocks
      /\ UNCHANGED <<index, level, flags, nTx, linked, addr, unlinked, tip, nextSeq, reconsidered, pc>>
      /\ UNCHANGED frame
  BY DEF PreciousBlock, SafeInv, ShapeInv
<1>2. UNCHANGED <<mostWork, byWork>> BY <1>1 DEF frame
<1>3. /\ seqId' = s /\ revSeq' = rev - 1
      /\ candidates' = IF IsValid(b, TRANSACTIONS) /\ b \in linked
                       THEN Kept(candidates \cup {b}, s, tip) ELSE candidates \ {b}
  BY DEF PreciousBlock
<1>4. rev \in Int /\ rev < 0 BY SMTT(30) DEF SafeInv, ShapeInv, NodeInv, SeqInv
<1> HIDE DEF rev
<1>5. /\ \A x, y \in Blocks \ {b} : Worse(x, y)' <=> Worse(x, y)
      /\ \A x \in Blocks \ {b} : x \notin CanPrecious /\ Worse(x, b) => Worse(x, b)'
      /\ \A x \in Blocks : ~Worse(x, x)'
  BY <1>1, <1>3, <1>4, PreciousOrder DEF SafeInv, NodeInv
<1>6. SeqInv'
  <2>1. \A x \in Blocks \ {b} : seqId'[x] = seqId[x] BY <1>3 DEF SafeInv, ShapeInv
  <2>2. revSeq' < 0 BY <1>3, <1>4, SMTT(30)
  <2> QED BY <1>1, <2>1, <2>2 DEF NodeInv, SeqInv
<1>7. \/ IsValid(b, TRANSACTIONS) /\ b \in linked /\ candidates' = {c \in candidates \cup {b} : ~Worse(c, tip)'}
      \/ ~(IsValid(b, TRANSACTIONS) /\ b \in linked) /\ candidates' = candidates \ {b}
  BY <1>1, <1>3 DEF Kept, Worse
<1> HIDE DEF s
<1>8. /\ tip \in linked /\ linked \in SUBSET Blocks /\ candidates \in SUBSET linked
      /\ linked \in SUBSET nTx /\ \A c \in candidates : ~Worse(c, tip)
  BY DEF SafeInv, ShapeInv, NodeInv, StoredInv
<1>9. \A x \in linked : Good(x) => IsValid(x, TRANSACTIONS)
  <2>1. \A x \in linked : x \in Path[x] BY <1>8, PathFacts
  <2> QED BY <1>8, <2>1 DEF Good, IsValid, NodeInv, StoredInv
<1>10. Good(tip) BY DEF SafeInv, ChainInv
<1>11. candidates' \in SUBSET linked /\ \A c \in candidates' : ~Worse(c, tip)'
  BY <1>1, <1>5, <1>7, <1>8, <1>9, <1>10
<1>12. StoredInv' BY <1>1, <1>2, <1>11 DEF NodeInv, StoredInv, Have
<1>13. \A x \in linked : Good(x)' <=> Good(x) BY <1>1 DEF Good, Failed
<1>14. Kempt => \A x \in linked : Good(x)' /\ ~Worse(x, tip)' =>
                   x \in candidates' \/ (x \in linked /\ Good(x) /\ ~Worse(x, tip) /\ x \notin candidates)
  <2> SUFFICES ASSUME Kempt, NEW x \in linked, Good(x), ~Worse(x, tip)', x \notin candidates'
               PROVE  ~Worse(x, tip) /\ x \notin candidates
    BY <1>13
  <2>1. x # b BY <1>7, <1>9
  <2>2. x \notin CanPrecious BY <2>1 DEF Kempt
  <2> QED BY <1>1, <1>5, <1>7, <1>8, <2>1, <2>2
<1>15. tip \in candidates => tip \in candidates' BY <1>1, <1>5, <1>7, <1>8, <1>9, <1>10
<1>16. BestInv' /\ RoundInv' /\ CompleteInv' BY <1>1, <1>14, <1>15, MainFreeNode
<1> QED BY <1>6, <1>12, <1>16 DEF NodeInv

\* Restart keeps NodeInv.
LEMMA RestartNode ==
    ASSUME SafeInv, NodeInv, Restart
    PROVE  NodeInv'
<1> DEFINE S == {b \in index : ~Failed(b) /\ \E a \in Path[b] : Failed(a)}
<1>1. /\ pc = "idle" /\ pending' /\ nextSeq' = 1 /\ revSeq' = -1 /\ seqId' = [b \in Blocks |-> 0]
      /\ UNCHANGED <<index, level, nTx, tip, reconsidered, pc>> /\ UNCHANGED frame
  BY DEF Restart, LoadBlockIndex
<1>2. UNCHANGED <<mostWork, byWork>> /\ mostWork = NoBlock BY <1>1 DEF frame, SafeInv, ChainInv
<1>3. /\ linked' = {b \in index : Path[b] \subseteq nTx}
      /\ unlinked' = {b \in nTx \ {Genesis} : Parent[b] \notin linked'}
      /\ flags' = Raise(S, "FAILED_CHILD")
  BY DEF Restart, LoadBlockIndex
<1>4. candidates' = {b \in linked' : ~Failed(b)' /\ level[b] >= TRANSACTIONS /\ ~Worse(b, tip)'}
  BY <1>1 DEF Restart, LoadBlockIndex, Failed, Worse
<1> HIDE DEF S
<1>5. \A b \in Blocks : /\ Have(b, "HAVE_DATA") => Have(b, "HAVE_DATA")'
                        /\ Have(b, "HAVE_UNDO") => Have(b, "HAVE_UNDO")'
  BY <1>1, <1>3, Raised DEF SafeInv, Flags
<1>6. /\ index \in SUBSET Blocks /\ nTx \in SUBSET index /\ linked \in SUBSET nTx /\ tip \in linked
      /\ byWork \in SUBSET linked /\ \A b \in linked : Path[b] \in SUBSET linked
  BY DEF SafeInv, ShapeInv, NodeInv, StoredInv
<1>7. \A b \in Blocks : b \in Path[b] /\ \A a \in Path[b] : a \in Blocks /\ Path[a] \in SUBSET Path[b]
  BY PathFacts
<1>8. linked \in SUBSET linked' /\ linked' \in SUBSET nTx /\ \A b \in linked' : Path[b] \in SUBSET linked'
  BY <1>3, <1>6, <1>7
<1>9. unlinked' \in SUBSET nTx /\ unlinked' \cap linked' = {}
  <2> SUFFICES ASSUME NEW b \in linked', b # Genesis PROVE Parent[b] \in linked' BY <1>3
  <2>1. Parent[b] \in Path[b] BY <1>6, <1>8, ParentIs
  <2> QED BY <1>8, <2>1
<1>10. StoredInv'
  <2>1. \A a \in Path[tip] \ {Genesis} : Have(a, "HAVE_UNDO")' BY <1>5, <1>6, <1>7 DEF NodeInv, StoredInv
  <2>2. \A b \in nTx : Have(b, "HAVE_DATA")' BY <1>5, <1>6 DEF NodeInv, StoredInv
  <2>3. candidates' \in SUBSET linked' /\ \A c \in candidates' : ~Worse(c, tip)' BY <1>4
  <2> QED BY <1>1, <1>2, <1>6, <1>8, <1>9, <2>1, <2>2, <2>3 DEF NodeInv, StoredInv
<1>11. SeqInv' BY <1>1, SMTT(30) DEF SeqInv
<1>12. \A b \in linked' : Good(b)' /\ ~Worse(b, tip)' => b \in candidates'
  <2>1. \A b \in linked' : Good(b)' => ~Failed(b)' /\ level[b] >= TRANSACTIONS
    BY <1>6, <1>7, <1>8 DEF Good, NodeInv, StoredInv
  <2> QED BY <1>4, <2>1
<1>13. BestInv' /\ RoundInv' BY <1>1, <1>2 DEF BestInv, RoundInv, InRound
<1>14. CompleteInv' BY <1>1, <1>12 DEF CompleteInv, InRound
<1> QED BY <1>10, <1>11, <1>13, <1>14 DEF NodeInv

\* The state after the genesis block has been loaded satisfies NodeInv.
LEMMA NodeInit == Init => NodeInv
<1> SUFFICES ASSUME Init PROVE NodeInv OBVIOUS
<1> USE DEF Init, TreeInit
<1>1. Genesis \in Blocks /\ Path[Genesis] = {Genesis} /\ Work[Genesis] \in Nat BY BasicFacts
<1>2. \A b \in Headers \ {Genesis} : Parent[b] \in Headers BY BlockIndexAssumption
<1>3. Headers \in SUBSET Blocks BY BlockIndexAssumption
<1>4. ~Worse(Genesis, Genesis) BY <1>1, SafeInit, WorseOrder DEF SafeInv
<1>5. StoredInv BY <1>1, <1>2, <1>3, <1>4, SMTT(30) DEF StoredInv, Have, TREE, TRANSACTIONS
<1>6. BestInv /\ RoundInv BY <1>1, SMTT(30) DEF BestInv, RoundInv, InRound
<1>7. CompleteInv /\ SeqInv BY SMTT(30) DEF CompleteInv, SeqInv, InRound
<1> QED BY <1>5, <1>6, <1>7 DEF NodeInv

\* Every step of an unpruned node keeps NodeInv.
LEMMA NodeStep == ~PruneMode /\ SafeInv /\ NodeInv /\ [Next]_vars => NodeInv'
<1> SUFFICES ASSUME ~PruneMode, SafeInv, NodeInv, [Next]_vars PROVE NodeInv' OBVIOUS
<1>1. CASE UNCHANGED vars BY <1>1, SameNode DEF vars
<1>2. CASE ActivateBestChain
  BY <1>2, NoAbort, EnterActivateBestChainNode, BeginRoundNode, DropCandidateNode, FindMostWorkChainNode,
     NothingToDoNode, BeginStepNode, DisconnectTipNode, ConnectTipNode, FailToConnectNode, EndStepNode
  DEF ActivateBestChain
<1>3. CASE Invalidation
  BY <1>3, NoAbort, InvalidateTipNode, LeaveLoopNode, MarkInvalidNode DEF Invalidation
<1>4. CASE RequestShutdown BY <1>4, SameNode DEF RequestShutdown
<1>5. ASSUME NEW b \in Blocks, Prune(b) PROVE FALSE BY <1>5 DEF Prune, PruneOneBlockFile
<1> QED
  BY <1>1, <1>2, <1>3, <1>4, <1>5, InvalidateBlockNode, PreciousBlockNode, ReconsiderBlockNode,
     ReceiveHeaderNode, ReceiveBlockNode, RestartNode DEF Next

\* The invariant always holds, on a node that does not prune.
LEMMA AlwaysNode == ~PruneMode => (Spec => [](SafeInv /\ NodeInv))
<1> SUFFICES ASSUME ~PruneMode PROVE Spec => [](SafeInv /\ NodeInv) OBVIOUS
<1>1. SafeInv /\ NodeInv /\ [Next]_vars => (SafeInv /\ NodeInv)' BY SafeStep, NodeStep
<1>2. Init => SafeInv /\ NodeInv BY SafeInit, NodeInit
<1> QED BY <1>1, <1>2, PTL DEF Spec

-----------------------------------------------------------------------------
\* No candidate of an unpruned node sorts worse than the tip or lacks an ancestor,
\* whatever RPCs are used.
THEOREM CandidatesStaySound ==
    ASSUME ~PruneMode
    PROVE  Spec => []CandidatesSound
<1>1. SafeInv /\ NodeInv => CandidatesSound BY DEF NodeInv, StoredInv, CandidatesSound
<1> QED BY <1>1, AlwaysNode, PTL

\* A linked block without a condemned block below it is good.
LEMMA LinkedGood ==
    ASSUME SafeInv, NodeInv, NEW b \in linked
    PROVE  /\ ~reconsidered /\ ~FirstInvalid(b) => Good(b)
           /\ (\A a \in Path[b] : InChain(a) \/ ~Failed(a)) => Good(b)
<1>1. b \in Blocks /\ \A a \in Path[b] : a \in nTx BY DEF SafeInv, ShapeInv, NodeInv, StoredInv
<1>2. \A a \in Path[b] : a \in Blocks /\ Path[a] \in SUBSET Path[b] BY <1>1, PathFacts
<1>3. ~reconsidered /\ ~FirstInvalid(b) => \A a \in Path[b] : ~Failed(a)
  BY <1>2 DEF SafeInv, MarkInv, FirstInvalid
<1>4. \A a \in Path[tip] : ~Failed(a) BY DEF SafeInv, ChainInv, Good
<1> QED BY <1>1, <1>3, <1>4 DEF Good, InChain

\* No block that CheckBlockIndex wants in setBlockIndexCandidates is missing there, on an
\* unpruned node whose user calls preciousblock for one block only.
THEOREM NoCandidateMissing ==
    ASSUME ~PruneMode, \A a, b \in CanPrecious : a = b
    PROVE  Spec => []CandidatesComplete
<1>1. ASSUME SafeInv, NodeInv PROVE CandidatesComplete
  <2> SUFFICES ASSUME ~reconsidered, MainFree, target = NoBlock, NEW b \in linked, ~Worse(b, tip), ~FirstInvalid(b)
               PROVE  b \in candidates
    BY DEF CandidatesComplete, CandidatesAlwaysComplete, Undisturbed
  <2>1. Good(b) BY <1>1, LinkedGood
  <2>2. NoBlock \notin Blocks BY BasicFacts
  <2>3. pc \in {"idle", "abc"} BY <1>1, <2>2 DEF MainFree, SafeInv, ShapeInv
  <2> QED BY <1>1, <2>1, <2>3 DEF NodeInv, CompleteInv, Kempt
<1> QED BY <1>1, AlwaysNode, PTL

\* setBlockIndexCandidates is never empty, not even in the middle of a reorganisation
\* (PruneBlockIndexCandidates' assertion), until reconsiderblock is used.
THEOREM CandidateAlwaysThere ==
    ASSUME ~PruneMode, \A a, b \in CanPrecious : a = b
    PROVE  Spec => [](~reconsidered => SomeCandidate)
<1>1. ASSUME SafeInv, NodeInv, ~reconsidered PROVE SomeCandidate
  <2>1. Kempt BY <1>1 DEF Kempt
  <2>2. CASE pc \in {"idle", "abc"} BY <1>1, <2>1, <2>2, AtRest DEF SomeCandidate
  <2>3. CASE pc \in {"inv", "mark"} BY <1>1, <2>1, <2>3 DEF NodeInv, CompleteInv, SomeCandidate
  <2>4. CASE InRound
    <3>1. tip \in Blocks /\ startTip \in Blocks BY <1>1, <2>4 DEF SafeInv, ShapeInv, NodeInv, RoundInv
    <3>2. ~Worse(startTip, tip) \/ ~Worse(tip, startTip) BY <1>1, <3>1, WorseOrder DEF SafeInv
    <3> QED BY <1>1, <2>1, <2>4, <3>2, RoundCandidate DEF SomeCandidate
  <2> QED BY <1>1, <2>2, <2>3, <2>4 DEF InRound, SafeInv, ShapeInv, Pcs
<1> QED BY <1>1, AlwaysNode, PTL

\* When no activation is due or under way, the tip has the most work of all usable blocks.
THEOREM RestsOnBestTip ==
    ASSUME ~PruneMode, \A a, b \in CanPrecious : a = b
    PROVE  Spec => []TipIsBest
<1>1. ASSUME SafeInv, NodeInv PROVE TipIsBest
  <2> SUFFICES ASSUME pc = "idle", ~pending, ~shutdown, ~reconsidered, NEW b \in index, Usable(b)
               PROVE  Work[b] <= Work[tip]
    BY DEF TipIsBest
  <2>1. b \in linked /\ b \in Blocks /\ tip \in Blocks BY <1>1 DEF Usable, SafeInv, ShapeInv
  <2>2. Good(b) BY <1>1, <2>1, LinkedGood DEF Usable
  <2>3. \A c \in candidates : Work[c] <= Work[tip] BY <1>1 DEF NodeInv, BestInv
  <2>4. ~Worse(b, tip) => b \in candidates BY <1>1, <2>1, <2>2 DEF NodeInv, CompleteInv, Kempt
  <2>5. Worse(b, tip) => Work[b] <= Work[tip] BY <1>1, <2>1, WorseOrder DEF SafeInv
  <2> QED BY <2>3, <2>4, <2>5
<1> QED BY <1>1, AlwaysNode, PTL

\* "We absolutely may not unlock cs_main until we've made forward progress": a round of
\* ActivateBestChain leaves no worse tip than it found, if reconsiderblock is not used.
THEOREM RoundsGoForward ==
    ASSUME ~PruneMode, \A a, b \in CanPrecious : a = b, CanReconsider = {}
    PROVE  Spec => NoBackwardRound
<1>1. Init => ~reconsidered BY DEF Init
<1>2. ASSUME [Next]_vars, ~reconsidered PROVE ~reconsidered'
  <2> USE DEF others
  <2>1. CASE ActivateBestChain
    BY <1>2, <2>1 DEF ActivateBestChain, EnterActivateBestChain, BeginRound, DropCandidate, FindMostWorkChain,
       NothingToDo, BeginStep, DisconnectTip, ConnectTip, FailToConnect, Abort, EndStep
  <2>2. CASE Invalidation
    BY <1>2, <2>2 DEF Invalidation, InvalidateTip, InvalidateFails, LeaveLoop, MarkInvalid
  <2> QED
    BY <1>2, <2>1, <2>2 DEF Next, InvalidateBlock, PreciousBlock, ReceiveHeader, ReceiveBlock, Prune,
       RequestShutdown, Restart, vars
<1>3. ASSUME [Next]_vars, pc \in {"find", "stepped"}, pc' \in {"abc", "idle"} PROVE NothingToDo \/ EndStep
  <2>1. CASE ActivateBestChain
    BY <1>3, <2>1 DEF ActivateBestChain, EnterActivateBestChain, BeginRound, DropCandidate, FindMostWorkChain,
       BeginStep, DisconnectTip, ConnectTip, FailToConnect, Abort
  <2>2. CASE Invalidation
    BY <1>3, <2>2 DEF Invalidation, InvalidateTip, InvalidateFails, LeaveLoop, MarkInvalid
  <2> QED
    BY <1>3, <2>1, <2>2 DEF Next, InvalidateBlock, PreciousBlock, ReconsiderBlock, ReceiveHeader, ReceiveBlock,
       Prune, RequestShutdown, Restart, vars
<1>4. ASSUME EndStep, pc' \in {"abc", "idle"} PROVE ~Worse(tip, startTip) BY <1>4 DEF EndStep, MustGoOn
<1>5. ASSUME SafeInv, NodeInv, ~reconsidered, [Next]_vars
      PROVE  [(pc \in {"find", "stepped"} /\ pc' \in {"abc", "idle"}) => ~Worse(tip, startTip)]_vars
  <2>1. Kempt BY <1>5 DEF Kempt
  <2> QED BY <1>3, <1>4, <1>5, <2>1, NothingToDoForward
<1> QED BY <1>1, <1>2, <1>5, AlwaysNode, PTL DEF Spec, NoBackwardRound

-----------------------------------------------------------------------------
(* Linked and waiting blocks, when nothing is pruned.                      *)

\* On an unpruned node a block is linked as soon as it and its ancestors were received.
LEMMA DownloadedLinked ==
    ASSUME SafeInv, NodeInv, LinkInv, WaitInv, NEW b \in Blocks \ linked
    PROVE  \E m \in Path[b] : m \notin nTx
<1>1. PICK m \in Path[b] : m \in Blocks /\ ~Have(m, "HAVE_DATA") BY FirstUnlinked
<1> QED BY <1>1 DEF NodeInv, StoredInv

\* CheckBlockIndex: a block counts as linked (HaveTxsDownloaded()) exactly if it and all its
\* ancestors have been received, in whatever order they came and with any restarts, on an
\* unpruned node where invalidateblock and reconsiderblock are not used.
THEOREM LinkedExactly ==
    ASSUME ~PruneMode, CanInvalidate = {}, CanReconsider = {}
    PROVE  Spec => []LinkedIffDownloaded
<1>1. ASSUME SafeInv, NodeInv, LinkInv, WaitInv PROVE LinkedIffDownloaded
  <2>1. index \in SUBSET Blocks /\ \A b \in linked : Path[b] \in SUBSET nTx
    BY <1>1 DEF SafeInv, ShapeInv, LinkInv
  <2> QED BY <1>1, <2>1, DownloadedLinked DEF LinkedIffDownloaded
<1> QED BY <1>1, AlwaysNode, AlwaysWait, PTL

\* CheckBlockIndex on m_blocks_unlinked: it holds the stored blocks that wait for an
\* ancestor's data, and, of those below which nothing has failed, all; on such a node.
THEOREM WaitingExactly ==
    ASSUME ~PruneMode, CanInvalidate = {}, CanReconsider = {}
    PROVE  Spec => []UnlinkedExact
<1>1. ASSUME SafeInv, NodeInv, LinkInv, UnlinkedSound, NoneForgotten PROVE UnlinkedExact
  <2>1. /\ index \in SUBSET Blocks
        /\ \A b \in linked : Path[b] \in SUBSET linked
        /\ \A b \in linked : Have(b, "HAVE_DATA")
    BY <1>1 DEF SafeInv, ShapeInv, LinkInv, NodeInv, StoredInv
  <2>2. \A b \in linked : HaveAll(b) BY <2>1 DEF HaveAll
  <2>3. UnlinkedComplete BY <1>1, <2>1, <2>2 DEF NoneForgotten, UnlinkedComplete
  <2> QED BY <1>1, <2>3 DEF UnlinkedExact
<1> QED BY <1>1, AlwaysNode, AlwaysWait, WaitingSound, PTL
=============================================================================
