------------------------ MODULE ChainSelectionSafety ------------------------
(***************************************************************************)
(* Proofs about ChainSelection for every tree of blocks and every mode of  *)
(* the node: no block of the active chain is marked failed or breaks a     *)
(* rule, every failure mark has a cause, and, without invalidateblock and  *)
(* reconsiderblock, m_blocks_unlinked holds only blocks that wait and      *)
(* forgets none.  The facts about the tree and the order of candidates     *)
(* come first; ChainSelectionProofs uses them too.                         *)
(***************************************************************************)
EXTENDS ChainSelection, FiniteSetTheorems, WellFoundedInduction, TLAPS

\* The prover of a step that names no other.
USE ZenonT(120)

-----------------------------------------------------------------------------
(* The tree.                                                               *)

\* The parts of the assumption that most proofs use.
LEMMA BasicFacts ==
    /\ Genesis \in Blocks /\ NoBlock \notin Blocks /\ IsFiniteSet(Blocks)
    /\ Path[Genesis] = {Genesis} /\ \A b \in Blocks : Work[b] \in Nat
BY BlockIndexAssumption

\* A block's path is its parent's and the block.
LEMMA PathParent ==
    ASSUME NEW b \in Blocks \ {Genesis}
    PROVE  Parent[b] \in Blocks /\ Path[b] = Path[Parent[b]] \cup {b} /\ Work[Parent[b]] < Work[b]
BY BlockIndexAssumption

\* A set of blocks has one of least work.
LEMMA LeastWork ==
    ASSUME NEW S \in SUBSET Blocks, S # {}
    PROVE  \E m \in S : \A x \in S : Work[m] <= Work[x]
<1> DEFINE T == {Work[x] : x \in S}
<1>1. T \in SUBSET Nat /\ T # {} BY BasicFacts
<1>2. PICK n \in T : \A y \in T : ~(<<y, n>> \in OpToRel(<, Nat))
  BY <1>1, WFMin, NatLessThanWellFounded
<1>3. PICK m \in S : n = Work[m] BY <1>2
<1>4. ASSUME NEW x \in S PROVE Work[m] <= Work[x]
  <2>1. Work[x] \in T /\ Work[x] \in Nat /\ Work[m] \in Nat BY <1>1, <1>3
  <2>2. ~(<<Work[x], Work[m]>> \in OpToRel(<, Nat)) BY <1>2, <1>3, <2>1
  <2>3. ~(Work[x] < Work[m]) BY <2>1, <2>2 DEF OpToRel
  <2> QED BY <2>1, <2>3, SMTT(30)
<1> QED BY <1>4

\* Induction over the tree.
LEMMA TreeInduction ==
    ASSUME NEW S, Genesis \in S, \A b \in Blocks \ {Genesis} : Parent[b] \in S => b \in S
    PROVE  Blocks \in SUBSET S
<1> DEFINE R == Blocks \ S
<1> SUFFICES ASSUME R # {} PROVE FALSE OBVIOUS
<1>1. PICK m \in R : \A x \in R : Work[m] <= Work[x] BY LeastWork
<1>2. m \in Blocks \ {Genesis} BY <1>1
<1>3. Parent[m] \in Blocks /\ Work[Parent[m]] < Work[m] BY <1>2, PathParent
<1>4. Work[m] \in Nat /\ Work[Parent[m]] \in Nat BY <1>2, <1>3, BasicFacts
<1>5. Parent[m] \in S BY <1>1, <1>3, <1>4, SMTT(30)
<1> QED BY <1>1, <1>2, <1>5

\* A path starts at Genesis, holds the paths of its blocks, and work grows along it.
LEMMA PathFacts ==
    ASSUME NEW b \in Blocks
    PROVE  /\ b \in Path[b] /\ Genesis \in Path[b] /\ Path[b] \in SUBSET Blocks
           /\ \A x \in Path[b] : Path[x] \in SUBSET Path[b] /\ (x = b \/ Work[x] < Work[b])
<1> DEFINE P(a) == /\ a \in Path[a] /\ Genesis \in Path[a] /\ Path[a] \in SUBSET Blocks
                   /\ \A x \in Path[a] : Path[x] \in SUBSET Path[a] /\ (x = a \/ Work[x] < Work[a])
           S == {a \in Blocks : P(a)}
<1>1. Genesis \in S BY BasicFacts
<1>2. ASSUME NEW m \in Blocks \ {Genesis}, Parent[m] \in S PROVE m \in S
  <2>1. Path[m] = Path[Parent[m]] \cup {m} /\ Work[Parent[m]] < Work[m] BY PathParent
  <2>2. P(Parent[m]) BY <1>2
  <2>3. \A x \in Blocks : Work[x] \in Nat BY BasicFacts
  <2>4. \A x \in Path[m] : x = m \/ Work[x] < Work[m] BY <1>2, <2>1, <2>2, <2>3, SMTT(30)
  <2>5. \A x \in Path[m] : Path[x] \in SUBSET Path[m] BY <2>1, <2>2
  <2> QED BY <2>1, <2>2, <2>4, <2>5
<1> HIDE DEF S
<1>3. b \in S BY <1>1, <1>2, TreeInduction
<1> QED BY <1>3 DEF S

\* A parent is the end of the path without the block.
LEMMA ParentIs ==
    ASSUME NEW b \in Blocks \ {Genesis}
    PROVE  /\ Parent[b] \in Blocks /\ Parent[b] \in Path[b] /\ b \notin Path[Parent[b]]
           /\ Path[b] = Path[Parent[b]] \cup {b} /\ Work[Parent[b]] < Work[b]
<1>1. Parent[b] \in Blocks /\ Path[b] = Path[Parent[b]] \cup {b} /\ Work[Parent[b]] < Work[b]
  BY PathParent
<1>2. /\ Parent[b] \in Path[Parent[b]]
      /\ b \in Path[Parent[b]] => b = Parent[b] \/ Work[b] < Work[Parent[b]]
  BY <1>1, PathFacts
<1>3. Work[b] \in Nat /\ Work[Parent[b]] \in Nat BY <1>1, BasicFacts
<1> QED BY <1>1, <1>2, <1>3, SMTT(30)

\* Of two blocks on one path, one is on the path of the other.
LEMMA PathLinear ==
    ASSUME NEW b \in Blocks, NEW x \in Path[b], NEW y \in Path[b]
    PROVE  x \in Path[y] \/ y \in Path[x]
<1> DEFINE P(a) == \A u, v \in Path[a] : u \in Path[v] \/ v \in Path[u]
           S == {a \in Blocks : P(a)}
<1>1. Genesis \in S BY BasicFacts
<1>2. ASSUME NEW m \in Blocks \ {Genesis}, Parent[m] \in S PROVE m \in S
  <2>1. Path[m] = Path[Parent[m]] \cup {m} BY PathParent
  <2> QED BY <1>2, <2>1
<1> HIDE DEF S
<1>3. b \in S BY <1>1, <1>2, TreeInduction
<1> QED BY <1>3 DEF S

\* Below the end of a path every block has a child on it.
LEMMA PathNext ==
    ASSUME NEW b \in Blocks, NEW c \in Path[b], c # b
    PROVE  \E x \in Path[b] \ {Genesis} : Parent[x] = c
<1> DEFINE P(a) == \A u \in Path[a] \ {a} : \E x \in Path[a] \ {Genesis} : Parent[x] = u
           S == {a \in Blocks : P(a)}
<1>1. Genesis \in S BY BasicFacts
<1>2. ASSUME NEW m \in Blocks \ {Genesis}, Parent[m] \in S PROVE m \in S
  <2>1. Path[m] = Path[Parent[m]] \cup {m} BY PathParent
  <2> QED BY <1>2, <2>1
<1> HIDE DEF S
<1>3. b \in S BY <1>1, <1>2, TreeInduction
<1> QED BY <1>3 DEF S

\* Some blocks of one path have a highest one.
LEMMA PathTop ==
    ASSUME NEW b \in Blocks, NEW Q \in SUBSET Path[b], Q # {}
    PROVE  \E x \in Q : Q \in SUBSET Path[x]
<1> DEFINE P(a) == \A R \in SUBSET Path[a] : R # {} => \E x \in R : R \in SUBSET Path[x]
           S == {a \in Blocks : P(a)}
<1>1. Genesis \in S BY BasicFacts
<1>2. ASSUME NEW m \in Blocks \ {Genesis}, Parent[m] \in S PROVE m \in S
  <2>1. Path[m] = Path[Parent[m]] \cup {m} BY PathParent
  <2>2. ASSUME NEW R \in SUBSET Path[m], R # {} PROVE \E x \in R : R \in SUBSET Path[x]
    <3>1. CASE m \in R BY <3>1
    <3>2. CASE m \notin R
      <4>1. R \in SUBSET Path[Parent[m]] BY <2>1, <3>2
      <4> QED BY <1>2, <2>2, <4>1
    <3> QED BY <3>1, <3>2
  <2> QED BY <2>2
<1> HIDE DEF S
<1>3. b \in S BY <1>1, <1>2, TreeInduction
<1> QED BY <1>3 DEF S

-----------------------------------------------------------------------------
(* CBlockIndexWorkComparator.                                              *)

\* It orders blocks strictly and totally, and by work first.
LEMMA ComparatorOrder ==
    ASSUME NEW s, \A b \in Blocks : s[b] \in Int, NEW m \in AddrOrders,
           NEW a \in Blocks, NEW b \in Blocks, NEW c \in Blocks
    PROVE  /\ ~CBlockIndexWorkComparator(s, m, a, a)
           /\ a # b => CBlockIndexWorkComparator(s, m, a, b) \/ CBlockIndexWorkComparator(s, m, b, a)
           /\ CBlockIndexWorkComparator(s, m, a, b) => ~CBlockIndexWorkComparator(s, m, b, a)
           /\ CBlockIndexWorkComparator(s, m, a, b) /\ CBlockIndexWorkComparator(s, m, b, c)
                 => CBlockIndexWorkComparator(s, m, a, c)
           /\ Work[a] < Work[b] => CBlockIndexWorkComparator(s, m, a, b)
           /\ CBlockIndexWorkComparator(s, m, a, b) => Work[a] <= Work[b]
<1>1. \A x, y \in Blocks : m[x] \in Int /\ (m[x] = m[y] => x = y)
  BY BlockIndexAssumption
<1>2. \A x \in Blocks : Work[x] \in Int BY BasicFacts, SMTT(30)
<1> QED BY <1>1, <1>2, SMTT(30) DEF CBlockIndexWorkComparator

\* The greatest of a set of blocks.
LEMMA GreatestExists ==
    ASSUME NEW s, \A b \in Blocks : s[b] \in Int, NEW m \in AddrOrders,
           NEW C \in SUBSET Blocks, C # {}
    PROVE  \E c \in C : \A d \in C \ {c} : CBlockIndexWorkComparator(s, m, d, c)
<1> DEFINE Has(S) == \E c \in S : \A d \in S \ {c} : CBlockIndexWorkComparator(s, m, d, c)
           N == {Cardinality(S) : S \in {R \in SUBSET Blocks : R # {} /\ ~Has(R)}}
<1> SUFFICES ASSUME ~Has(C) PROVE FALSE OBVIOUS
<1>1. \A S \in SUBSET Blocks : IsFiniteSet(S) /\ Cardinality(S) \in Nat
  BY BasicFacts, FS_Subset, FS_CardinalityType
<1>2. N \in SUBSET Nat /\ N # {} BY <1>1
<1>3. PICK n \in N : \A k \in N : ~(<<k, n>> \in OpToRel(<, Nat))
  BY <1>2, WFMin, NatLessThanWellFounded
<1>4. PICK S \in SUBSET Blocks : S # {} /\ ~Has(S) /\ n = Cardinality(S) BY <1>3
<1>5. PICK x \in S : TRUE BY <1>4
<1>6. Cardinality(S \ {x}) = Cardinality(S) - 1 BY <1>1, <1>5, FS_RemoveElement
<1>7. Cardinality(S \ {x}) \notin N
  <2>1. Cardinality(S \ {x}) \in Nat /\ n \in Nat /\ Cardinality(S \ {x}) < n
    BY <1>1, <1>4, <1>6, SMTT(30)
  <2>2. <<Cardinality(S \ {x}), n>> \in OpToRel(<, Nat) BY <2>1 DEF OpToRel
  <2> QED BY <1>3, <2>2
<1>8. S \ {x} = {} \/ Has(S \ {x}) BY <1>4, <1>7
<1>9. CASE S \ {x} = {} BY <1>4, <1>5, <1>9
<1>10. CASE Has(S \ {x})
  <2>1. PICK c \in S \ {x} : \A d \in (S \ {x}) \ {c} : CBlockIndexWorkComparator(s, m, d, c)
    BY <1>10
  <2>2. CBlockIndexWorkComparator(s, m, x, c) \/ CBlockIndexWorkComparator(s, m, c, x)
    BY <1>5, <2>1, ComparatorOrder
  <2>3. CASE CBlockIndexWorkComparator(s, m, x, c) BY <1>4, <2>1, <2>3
  <2>4. CASE CBlockIndexWorkComparator(s, m, c, x)
    <3>1. \A d \in (S \ {x}) \ {c} : CBlockIndexWorkComparator(s, m, d, x)
      BY <1>5, <2>1, <2>4, ComparatorOrder
    <3> QED BY <1>4, <1>5, <2>4, <3>1
  <2> QED BY <2>2, <2>3, <2>4
<1> QED BY <1>8, <1>9, <1>10

\* What does not sort before t has at least its work; so has what PruneBlockIndexCandidates keeps.
LEMMA NotWorse ==
    ASSUME NEW s, NEW m, NEW a \in Blocks, NEW t \in Blocks, ~CBlockIndexWorkComparator(s, m, a, t)
    PROVE  Work[a] >= Work[t]
<1>1. Work[a] \in Nat /\ Work[t] \in Nat BY BasicFacts
<1>2. ~(Work[a] < Work[t]) BY DEF CBlockIndexWorkComparator
<1> QED BY <1>1, <1>2, SMTT(30)

\* PruneBlockIndexCandidates keeps only candidates with the work of the tip or more.
LEMMA KeptIs ==
    ASSUME NEW S \in SUBSET Blocks, NEW s, NEW t \in Blocks
    PROVE  Kept(S, s, t) \in SUBSET S /\ \A c \in Kept(S, s, t) : Work[c] >= Work[t]
BY NotWorse DEF Kept

\* An updated status or sequence id.
LEMMA UpdateType ==
    ASSUME NEW g \in [Blocks -> Int], NEW x \in Blocks, NEW v \in Int
    PROVE  [g EXCEPT ![x] = v] \in [Blocks -> Int]
OBVIOUS

\* RaiseValidity's results are validity levels.
LEMMA StatusType ==
    ASSUME NEW x \in Blocks, level \in [Blocks -> Int]
    PROVE  [level EXCEPT ![x] = SCRIPTS] \in [Blocks -> Int] /\ [level EXCEPT ![x] = TREE] \in [Blocks -> Int]
BY SMTT(30) DEF SCRIPTS, TREE

-----------------------------------------------------------------------------
(* The inductive invariant.                                                *)

ShapeInv ==
    /\ index \in SUBSET Blocks /\ nTx \in SUBSET index /\ linked \in SUBSET Blocks
    /\ flags \in [Blocks -> SUBSET Flags] /\ level \in [Blocks -> Int]
    /\ seqId \in [Blocks -> Int] /\ addr \in AddrOrders /\ nextSeq \in Int /\ revSeq \in Int
    /\ candidates \in SUBSET Blocks /\ unlinked \in SUBSET Blocks
    /\ failedBlocks \in SUBSET Blocks /\ byWork \in SUBSET Blocks
    /\ tip \in Blocks /\ mostWork \in BlockOrNone /\ pc \in Pcs
    /\ pc \in {"inv", "mark"} => toMark \in Blocks \ {Genesis} /\ target \in Blocks \ {Genesis}

\* A stored block has passed ContextualCheckBlock; what m_failed_blocks holds has failed;
\* and, until reconsiderblock clears marks, a mark has a cause.
MarkInv ==
    /\ \A b \in Blocks : Have(b, "HAVE_DATA") => b \in nTx
    /\ \A b \in nTx : Fault[b] # "contextual"
    /\ \A f \in failedBlocks : Failed(f)
    /\ ~reconsidered => \A b \in Blocks : Failed(b) => FirstInvalid(b)

\* Nothing is known against a stored chain.
Good(b) == \A a \in Path[b] : a \in nTx /\ ~Failed(a)

\* The active chain and pindexMostWork, which is kept while cs_main is released, stay
\* clear of failed blocks; ActivateBestChainStep never disconnects down to pindexMostWork,
\* as neither it nor a candidate has less work than the tip.
ChainInv ==
    /\ Good(tip) /\ \A a \in Path[tip] : Fault[a] = "none"
    /\ mostWork # NoBlock => Good(mostWork) /\ Work[mostWork] >= Work[tip]
    /\ \A c \in candidates : Work[c] >= Work[tip]
    /\ pc \in {"idle", "inv", "mark"} => mostWork = NoBlock
    /\ pc = "step" => mostWork # NoBlock /\ mostWork # tip

SafeInv == ShapeInv /\ MarkInv /\ ChainInv

\* The state after the genesis block has been loaded satisfies SafeInv.
LEMMA SafeInit == Init => SafeInv
<1> SUFFICES ASSUME Init PROVE SafeInv OBVIOUS
<1> USE DEF Init, TreeInit
<1>1. /\ Genesis \in Blocks /\ NoBlock \notin Blocks /\ Path[Genesis] = {Genesis}
      /\ Work[Genesis] \in Nat
  BY BasicFacts
<1>2. Headers \in SUBSET Blocks /\ Genesis \in Headers /\ Fault[Genesis] = "none"
  BY BlockIndexAssumption
<1>3. \A b \in Blocks : ~Failed(b) BY DEF Failed, FAILED_MASK
<1>4. ShapeInv
  <2>1. flags \in [Blocks -> SUBSET Flags] BY DEF Flags
  <2>2. level \in [Blocks -> Int] /\ seqId \in [Blocks -> Int] BY SMTT(30) DEF TREE, TRANSACTIONS
  <2> QED BY <1>1, <1>2, <2>1, <2>2, SMTT(30) DEF ShapeInv, BlockOrNone, Pcs
<1>5. MarkInv BY <1>1, <1>2, <1>3 DEF MarkInv, Have
<1>6. ChainInv BY <1>1, <1>2, <1>3, SMTT(30) DEF ChainInv, Good
<1> QED BY <1>4, <1>5, <1>6 DEF SafeInv

-----------------------------------------------------------------------------
(* What the operators of the actions return.                               *)

\* BestCandidate is the last element of setBlockIndexCandidates.
LEMMA BestIs ==
    ASSUME ShapeInv, candidates # {}
    PROVE  /\ BestCandidate \in candidates
           /\ \A d \in candidates \ {BestCandidate} : Worse(d, BestCandidate)
<1>1. \E c \in candidates : \A d \in candidates \ {c} : Worse(d, c)
  BY GreatestExists DEF ShapeInv, Worse
<1> QED BY <1>1 DEF BestCandidate

\* Obstacle is the highest obstacle.
LEMMA ObstacleIs ==
    ASSUME NEW c \in Blocks, Obstacles(c) # {}
    PROVE  /\ Obstacle(c) \in Obstacles(c) /\ Obstacles(c) \in SUBSET Path[Obstacle(c)]
           /\ Obstacle(c) \in Path[c] \ Path[tip]
<1>1. Obstacles(c) \in SUBSET (Path[c] \ Path[tip]) BY DEF Obstacles
<1>2. \E x \in Obstacles(c) : Obstacles(c) \in SUBSET Path[x] BY <1>1, PathTop
<1> QED BY <1>1, <1>2 DEF Obstacle

\* NextToConnect is the child of the tip on the way to pindexMostWork.
LEMMA NextIs ==
    ASSUME tip \in Blocks, mostWork \in Blocks, tip \in Path[mostWork], mostWork # tip
    PROVE  /\ NextToConnect \in Path[mostWork] \ {Genesis} /\ NextToConnect \in Blocks
           /\ Parent[NextToConnect] = tip
           /\ Path[NextToConnect] = Path[tip] \cup {NextToConnect}
           /\ NextToConnect \notin Path[tip]
           /\ Work[tip] < Work[NextToConnect] /\ Work[NextToConnect] <= Work[mostWork]
<1> DEFINE x == NextToConnect
<1>1. \E y \in Path[mostWork] \ {Genesis} : Parent[y] = tip BY PathNext
<1>2. x \in Path[mostWork] \ {Genesis} /\ Parent[x] = tip BY <1>1 DEF NextToConnect
<1> HIDE DEF x
<1>3. x \in Blocks BY <1>2, PathFacts
<1>4. Path[x] = Path[tip] \cup {x} /\ Work[tip] < Work[x] BY <1>2, <1>3, PathParent
<1>5. Work[tip] \in Nat /\ Work[x] \in Nat /\ Work[mostWork] \in Nat BY <1>3, BasicFacts
<1>6. x \notin Path[tip]
  <2>1. x \in Path[tip] => x = tip \/ Work[x] < Work[tip] BY PathFacts
  <2> QED BY <1>4, <1>5, <2>1, SMTT(30)
<1>7. Work[x] <= Work[mostWork]
  <2>1. x = mostWork \/ Work[x] < Work[mostWork] BY <1>2, PathFacts
  <2> QED BY <1>5, <2>1, SMTT(30)
<1> QED BY <1>2, <1>3, <1>4, <1>6, <1>7 DEF x

\* Raise adds a flag.
LEMMA RaiseIs ==
    ASSUME ShapeInv, NEW S, NEW f \in Flags
    PROVE  /\ Raise(S, f) \in [Blocks -> SUBSET Flags]
           /\ \A b \in Blocks : Raise(S, f)[b] = IF b \in S THEN flags[b] \cup {f} ELSE flags[b]
BY DEF ShapeInv, Raise

\* What lies above a failed block is on no good chain.
LEMMA AboveFailed ==
    ASSUME NEW y \in Blocks, NEW f \in Path[y], Failed(f), NEW t \in Blocks, Good(t)
    PROVE  Path[t] \cap (Path[y] \ Path[f]) = {}
<1> SUFFICES ASSUME NEW x \in Path[t], x \in Path[y], x \notin Path[f] PROVE FALSE OBVIOUS
<1>1. f \in Path[x] BY PathLinear
<1>2. f \in Path[t] BY <1>1, PathFacts
<1> QED BY <1>2 DEF Good

\* A mark above a marked block has a cause.
LEMMA CauseAbove ==
    ASSUME NEW y \in Blocks, NEW f \in Path[y], FirstInvalid(f), NEW x \in Path[y], x \notin Path[f]
    PROVE  FirstInvalid(x)
<1>1. f \in Path[x] BY PathLinear
<1>2. x \in Blocks BY PathFacts
<1>3. Path[f] \in SUBSET Path[x] BY <1>1, <1>2, PathFacts
<1> QED BY <1>3 DEF FirstInvalid
-----------------------------------------------------------------------------
(* Every step preserves the invariant.                                     *)

\* Steps that change nothing but the frame.
LEMMA QuietSafe ==
    ASSUME SafeInv,
           UNCHANGED <<index, level, flags, nTx, linked, seqId, addr, nextSeq, revSeq, candidates,
                       unlinked, failedBlocks, tip, reconsidered>>,
           byWork' \in SUBSET Blocks, mostWork' \in {mostWork, NoBlock}, pc' \in Pcs,
           pc' \in {"idle", "inv", "mark"} => mostWork' = NoBlock,
           pc' = "step" => mostWork' # NoBlock /\ mostWork' # tip,
           pc' \in {"inv", "mark"} => toMark' \in Blocks \ {Genesis} /\ target' \in Blocks \ {Genesis}
    PROVE  SafeInv'
<1>1. ShapeInv' BY DEF SafeInv, ShapeInv, BlockOrNone
<1>2. MarkInv' BY DEF SafeInv, MarkInv, Have, Failed, FirstInvalid
<1>3. \A b : Good(b)' <=> Good(b) BY DEF Good, Failed
<1>4. ChainInv' BY <1>3 DEF SafeInv, ChainInv
<1> QED BY <1>1, <1>2, <1>4 DEF SafeInv

\* The steps that change neither the tree nor the candidates keep SafeInv.
LEMMA FrameSteps ==
    ASSUME SafeInv,
           \/ EnterActivateBestChain \/ BeginRound \/ NothingToDo \/ BeginStep \/ Abort \/ EndStep
           \/ InvalidateFails \/ LeaveLoop \/ RequestShutdown \/ UNCHANGED vars
           \/ \E b \in CanInvalidate : InvalidateBlock(b)
    PROVE  SafeInv'
<1> DEFINE Same == UNCHANGED <<index, level, flags, nTx, linked, seqId, addr, nextSeq, revSeq,
                       candidates, unlinked, failedBlocks, tip, reconsidered>>
           Frame == /\ byWork' \in SUBSET Blocks /\ mostWork' \in {mostWork, NoBlock} /\ pc' \in Pcs
                    /\ pc' \in {"idle", "inv", "mark"} => mostWork' = NoBlock
                    /\ pc' = "step" => mostWork' # NoBlock /\ mostWork' # tip
                    /\ pc' \in {"inv", "mark"} =>
                           toMark' \in Blocks \ {Genesis} /\ target' \in Blocks \ {Genesis}
<1> USE DEF treeVars, frame, others, Return, EndRound
<1>s. /\ byWork \in SUBSET Blocks /\ pc \in Pcs /\ index \in SUBSET Blocks
      /\ pc \in {"inv", "mark"} => toMark \in Blocks \ {Genesis} /\ target \in Blocks \ {Genesis}
      /\ pc \in {"idle", "inv", "mark"} => mostWork = NoBlock
      /\ pc = "step" => mostWork # NoBlock /\ mostWork # tip
  BY DEF SafeInv, ShapeInv, ChainInv
<1>1. CASE EnterActivateBestChain
  <2>1. Same /\ Frame BY <1>s, <1>1 DEF EnterActivateBestChain, Pcs
  <2> QED BY <2>1, QuietSafe
<1>2. CASE BeginRound
  <2>1. Same /\ Frame BY <1>s, <1>2 DEF BeginRound, Pcs
  <2> QED BY <2>1, QuietSafe
<1>3. CASE NothingToDo
  <2>1. Same /\ Frame BY <1>s, <1>3 DEF NothingToDo, Pcs
  <2> QED BY <2>1, QuietSafe
<1>4. CASE BeginStep
  <2>1. Same /\ Frame BY <1>s, <1>4 DEF BeginStep, Pcs
  <2> QED BY <2>1, QuietSafe
<1>5. CASE Abort
  <2>1. Same /\ Frame BY <1>s, <1>5 DEF Abort, Pcs
  <2> QED BY <2>1, QuietSafe
<1>6. CASE EndStep
  <2>1. Same /\ Frame BY <1>s, <1>6 DEF EndStep, Pcs
  <2> QED BY <2>1, QuietSafe
<1>7. CASE InvalidateFails
  <2>1. Same /\ Frame BY <1>s, <1>7 DEF InvalidateFails, Pcs
  <2> QED BY <2>1, QuietSafe
<1>8. CASE LeaveLoop
  <2>1. Same /\ Frame BY <1>s, <1>8 DEF LeaveLoop, Pcs
  <2> QED BY <2>1, QuietSafe
<1>9. CASE RequestShutdown \/ UNCHANGED vars
  <2>1. Same /\ Frame BY <1>s, <1>9 DEF RequestShutdown, vars, Pcs
  <2> QED BY <2>1, QuietSafe
<1>10. ASSUME NEW b \in CanInvalidate, InvalidateBlock(b) PROVE SafeInv'
  <2>1. Same /\ Frame BY <1>s, <1>10 DEF InvalidateBlock, Pcs
  <2> QED BY <2>1, QuietSafe
<1> QED BY <1>1, <1>2, <1>3, <1>4, <1>5, <1>6, <1>7, <1>8, <1>9, <1>10
-----------------------------------------------------------------------------
\* A step that marks the blocks of S, which are off the chains in use, with f (S may be
\* empty); the tip may move down, and candidates have at least its work.
Marking(S, f) ==
    /\ flags' = Raise(S, f)
    /\ tip' \in Path[tip] /\ S \cap Path[tip'] = {}
    /\ mostWork' # NoBlock => S \cap Path[mostWork] = {}
    /\ f = "FAILED_CHILD" /\ ~reconsidered => \A x \in S \cap Blocks : FirstInvalid(x)
    /\ UNCHANGED <<index, level, nTx, reconsidered>>
    /\ linked' \in SUBSET Blocks /\ seqId' \in [Blocks -> Int] /\ addr' \in AddrOrders
    /\ nextSeq' \in Int /\ revSeq' \in Int
    /\ candidates' \in SUBSET Blocks /\ \A c \in candidates' : Work[c] >= Work[tip']
    /\ unlinked' \in SUBSET Blocks /\ byWork' \in SUBSET Blocks
    /\ failedBlocks' \in SUBSET Blocks /\ \A x \in failedBlocks' : x \in failedBlocks \/ x \in S
    /\ mostWork' \in {mostWork, NoBlock} /\ pc' \in Pcs
    /\ pc' \in {"idle", "inv", "mark"} => mostWork' = NoBlock
    /\ pc' = "step" => mostWork' # NoBlock /\ mostWork' # tip'
    /\ pc' \in {"inv", "mark"} => toMark' \in Blocks \ {Genesis} /\ target' \in Blocks \ {Genesis}

\* Such a step is safe.
LEMMA MarkedSafe ==
    ASSUME SafeInv, NEW S, NEW f \in FAILED_MASK, Marking(S, f)
    PROVE  SafeInv'
<1> USE DEF Marking
<1>0. f \in Flags BY DEF FAILED_MASK, Flags
<1>1. ShapeInv BY DEF SafeInv
<1>2. /\ flags' \in [Blocks -> SUBSET Flags]
      /\ \A b \in Blocks : flags'[b] = IF b \in S THEN flags[b] \cup {f} ELSE flags[b]
  BY <1>0, <1>1, RaiseIs, SMTT(30)
<1>3. \A b \in Blocks : /\ Failed(b)' <=> Failed(b) \/ b \in S
                        /\ Have(b, "HAVE_DATA")' <=> Have(b, "HAVE_DATA")
                        /\ Have(b, "FAILED_VALID") => Have(b, "FAILED_VALID")'
                        /\ b \in S => f \in flags'[b]
  BY <1>2, SMTT(30) DEF Failed, Have, FAILED_MASK
<1>4. \A b \in Blocks : Path[b] \in SUBSET Blocks /\ b \in Path[b] BY PathFacts
<1>t. tip \in Blocks /\ tip' \in Blocks /\ (mostWork # NoBlock => mostWork \in Blocks)
  BY <1>1, <1>4 DEF ShapeInv, BlockOrNone
<1>5. ShapeInv' BY <1>1, <1>2, <1>t DEF ShapeInv, BlockOrNone
<1>6. MarkInv'
  <2>1. \A b \in Blocks : FirstInvalid(b) => FirstInvalid(b)' BY <1>3, <1>4 DEF FirstInvalid
  <2>2. ASSUME ~reconsidered', NEW b \in Blocks, Failed(b)' PROVE FirstInvalid(b)'
    <3>1. CASE Failed(b) BY <2>1, <2>2, <3>1 DEF SafeInv, MarkInv
    <3>2. CASE b \in S /\ f = "FAILED_CHILD" BY <2>1, <2>2, <3>2
    <3>3. CASE b \in S /\ f = "FAILED_VALID"
      BY <1>3, <1>4, <3>3 DEF FirstInvalid, Have
    <3> QED BY <1>3, <2>2, <3>1, <3>2, <3>3 DEF FAILED_MASK
  <2>3. \A x \in failedBlocks' : Failed(x)' BY <1>3 DEF SafeInv, MarkInv
  <2>4. \A b \in Blocks : Have(b, "HAVE_DATA")' => b \in nTx BY <1>3 DEF SafeInv, MarkInv
  <2>5. \A b \in nTx' : Fault[b] # "contextual" BY DEF SafeInv, MarkInv
  <2> QED BY <2>2, <2>3, <2>4, <2>5 DEF MarkInv
<1>8. ChainInv'
  <2>1. Path[tip'] \in SUBSET Path[tip] /\ (tip' = tip \/ Work[tip'] < Work[tip])
    BY <1>t, PathFacts
  <2>2. Good(tip') /\ \A a \in Path[tip'] : Fault[a] = "none"
    BY <2>1 DEF SafeInv, ChainInv, Good
  <2>3. Good(tip)' /\ (mostWork' # NoBlock => Good(mostWork)')
    <3>1. \A a \in Path[tip'] : a \in nTx' /\ ~Failed(a)' BY <1>3, <1>4, <1>t, <2>2 DEF Good
    <3>2. mostWork' # NoBlock => mostWork' = mostWork /\ Good(mostWork) BY DEF SafeInv, ChainInv
    <3>3. mostWork' # NoBlock => \A a \in Path[mostWork'] : a \in nTx' /\ ~Failed(a)'
      BY <1>3, <1>4, <1>t, <3>2 DEF Good
    <3> QED BY <3>1, <3>3 DEF Good
  <2>4. mostWork' # NoBlock => Work[mostWork] >= Work[tip']
    <3>1. Work[tip] \in Nat /\ Work[tip'] \in Nat /\ (mostWork # NoBlock => Work[mostWork] \in Nat)
      BY <1>t, BasicFacts
    <3> QED BY <2>1, <3>1, SMTT(30) DEF SafeInv, ChainInv
  <2>5. \A a \in Path[tip'] : Fault[a] = "none" BY <2>2
  <2>6. mostWork' # NoBlock => Work[mostWork'] >= Work[tip'] BY <2>4
  <2> QED BY <2>3, <2>5, <2>6 DEF ChainInv
<1> QED BY <1>5, <1>6, <1>8 DEF SafeInv

\* DropCandidate keeps SafeInv.
LEMMA DropCandidateSafe ==
    ASSUME SafeInv, DropCandidate
    PROVE  SafeInv'
<1> DEFINE c == BestCandidate
           x == Obstacle(c)
           above == Path[c] \ Path[x]
           S == IF Failed(x) THEN above ELSE {}
<1>s. ShapeInv BY DEF SafeInv
<1>1. /\ pc = "find" /\ mostWork = NoBlock /\ candidates # {} /\ Obstacles(c) # {}
      /\ candidates' = candidates \ (above \cup {x})
      /\ flags' = FlagsAbove(x, above) /\ unlinked' = WaitingAbove(x, above)
      /\ UNCHANGED <<index, level, nTx, linked, seqId, addr, nextSeq, failedBlocks, tip,
                     mostWork, toMark, target, byWork, revSeq, reconsidered, pc>>
  BY DEF DropCandidate, treeSame, frame, others
<1>2. c \in candidates /\ c \in Blocks BY <1>s, <1>1, BestIs DEF ShapeInv
<1> HIDE DEF c
<1>3. x \in Path[c] \ Path[tip] BY <1>1, <1>2, ObstacleIs
<1> HIDE DEF x
<1>4. flags' = Raise(S, "FAILED_CHILD")
  <2>1. CASE Failed(x) BY <1>1, <2>1 DEF FlagsAbove
  <2>2. CASE ~Failed(x) BY <1>1, <1>s, <2>2 DEF FlagsAbove, Raise, ShapeInv
  <2> QED BY <2>1, <2>2
<1>5. S \cap Path[tip] = {}
  <2>1. Failed(x) => Path[tip] \cap (Path[c] \ Path[x]) = {}
    BY <1>2, <1>3, AboveFailed DEF SafeInv, ChainInv, ShapeInv
  <2> QED BY <2>1
<1>6. ~reconsidered => \A y \in S \cap Blocks : FirstInvalid(y)
  <2> SUFFICES ASSUME ~reconsidered, Failed(x), NEW y \in above PROVE FirstInvalid(y) OBVIOUS
  <2>1. x \in Blocks BY <1>2, <1>3, PathFacts
  <2>2. FirstInvalid(x) BY <2>1 DEF SafeInv, MarkInv
  <2> QED BY <1>2, <1>3, <2>2, CauseAbove
<1>7. unlinked' \in SUBSET Blocks
  <2>1. above \in SUBSET Blocks BY <1>2, PathFacts
  <2> QED BY <1>1, <1>s, <2>1 DEF WaitingAbove, ShapeInv
<1>8. candidates' \in SUBSET Blocks /\ \A d \in candidates' : Work[d] >= Work[tip]
  BY <1>1, <1>s DEF ShapeInv, SafeInv, ChainInv
<1> HIDE DEF S
<1>9. tip \in Path[tip] BY <1>s, PathFacts DEF ShapeInv
<1>10. Marking(S, "FAILED_CHILD")
  BY <1>s, <1>1, <1>4, <1>5, <1>6, <1>7, <1>8, <1>9 DEF Marking, ShapeInv
<1> QED BY <1>10, MarkedSafe DEF FAILED_MASK

\* FindMostWorkChain keeps SafeInv.
LEMMA FindMostWorkChainSafe ==
    ASSUME SafeInv, FindMostWorkChain
    PROVE  SafeInv'
<1>s. ShapeInv BY DEF SafeInv
<1>1. /\ pc = "find" /\ candidates # {} /\ Obstacles(BestCandidate) = {}
      /\ mostWork' = BestCandidate
      /\ UNCHANGED <<treeVars, revSeq, reconsidered, toMark, target, byWork, pc>>
  BY DEF FindMostWorkChain, others
<1>2. BestCandidate \in candidates /\ BestCandidate \in Blocks BY <1>s, <1>1, BestIs DEF ShapeInv
<1>3. Good(BestCandidate)
  <2> SUFFICES ASSUME NEW a \in Path[BestCandidate] PROVE a \in nTx /\ ~Failed(a) BY DEF Good
  <2>1. a \in Blocks BY <1>2, PathFacts
  <2>2. CASE a \in Path[tip] BY <2>2 DEF SafeInv, ChainInv, Good
  <2>3. CASE a \notin Path[tip]
    <3>1. ~Failed(a) /\ Have(a, "HAVE_DATA") BY <1>1, <2>3 DEF Obstacles
    <3> QED BY <2>1, <3>1 DEF SafeInv, MarkInv
  <2> QED BY <2>2, <2>3
<1>4. ShapeInv' BY <1>s, <1>1, <1>2 DEF ShapeInv, treeVars, BlockOrNone
<1>5. MarkInv' BY <1>1 DEF SafeInv, MarkInv, Have, Failed, FirstInvalid, treeVars
<1>6. \A b : Good(b)' <=> Good(b) BY <1>1 DEF Good, Failed, treeVars
<1>7. tip' = tip /\ candidates' = candidates BY <1>1 DEF treeVars
<1>8. ChainInv' BY <1>1, <1>2, <1>3, <1>6, <1>7 DEF SafeInv, ChainInv
<1> QED BY <1>4, <1>5, <1>8 DEF SafeInv
\* A step that leaves the marks alone.
Unmarking ==
    /\ \A b \in Blocks : /\ Failed(b)' <=> Failed(b)
                         /\ Have(b, "FAILED_VALID")' <=> Have(b, "FAILED_VALID")
                         /\ Have(b, "HAVE_DATA")' => b \in nTx'
    /\ nTx \in SUBSET nTx' /\ nTx' \in SUBSET Blocks /\ \A b \in nTx' : Fault[b] # "contextual"
    /\ failedBlocks' = failedBlocks /\ reconsidered' = reconsidered

\* It keeps what is good.
LEMMA UnmarkedSafe ==
    ASSUME SafeInv, Unmarking
    PROVE  MarkInv' /\ \A b \in Blocks : \A a \in Path[b] : Good(b) => a \in nTx' /\ ~Failed(a)'
<1> USE DEF Unmarking
<1>1. \A b \in Blocks : Path[b] \in SUBSET Blocks BY PathFacts
<1>2. \A b \in Blocks : FirstInvalid(b) => FirstInvalid(b)' BY <1>1 DEF FirstInvalid
<1>3. ~reconsidered' => \A b \in Blocks : Failed(b)' => FirstInvalid(b)'
  BY <1>2 DEF SafeInv, MarkInv
<1>4. \A f \in failedBlocks' : Failed(f)' BY DEF SafeInv, MarkInv, ShapeInv
<1>5. MarkInv' BY <1>3, <1>4 DEF MarkInv
<1>6. \A b \in Blocks : \A a \in Path[b] : Good(b) => a \in nTx' /\ ~Failed(a)'
  BY <1>1 DEF Good
<1> QED BY <1>5, <1>6

\* Raise(S, f) for no block.
LEMMA RaiseNone ==
    ASSUME ShapeInv, NEW f
    PROVE  flags = Raise({}, f)
BY DEF ShapeInv, Raise

\* DisconnectTip moves the tip down, never from Genesis.
LEMMA DisconnectTipIs ==
    ASSUME SafeInv, DisconnectTip
    PROVE  /\ tip \in Blocks \ {Genesis} /\ tip' \in Blocks /\ tip' \in Path[tip]
           /\ mostWork \in Blocks /\ mostWork # tip' /\ \A c \in candidates : Work[c] >= Work[tip']
<1>1. pc = "step" /\ tip \notin Path[mostWork] /\ tip' = Parent[tip] BY DEF DisconnectTip
<1>2. /\ tip \in Blocks /\ mostWork \in Blocks /\ Work[mostWork] >= Work[tip]
      /\ \A c \in candidates : c \in Blocks /\ Work[c] >= Work[tip]
  BY <1>1 DEF SafeInv, ChainInv, ShapeInv, BlockOrNone
<1>3. Genesis \in Path[mostWork] BY <1>2, PathFacts
<1>4. tip' \in Blocks /\ tip' \in Path[tip] /\ Work[tip'] < Work[tip] BY <1>1, <1>2, <1>3, ParentIs
<1>5. \A x \in Blocks : Work[x] \in Nat BY BasicFacts
<1>6. mostWork # tip' BY <1>2, <1>4, <1>5, SMTT(30)
<1>7. \A c \in candidates : Work[c] >= Work[tip'] BY <1>2, <1>4, <1>5, SMTT(30)
<1> QED BY <1>1, <1>2, <1>3, <1>4, <1>6, <1>7

\* DisconnectTip keeps SafeInv.
LEMMA DisconnectTipSafe ==
    ASSUME SafeInv, DisconnectTip
    PROVE  SafeInv'
<1>s. ShapeInv BY DEF SafeInv
<1>1. /\ pc = "step"
      /\ UNCHANGED <<index, level, flags, nTx, linked, seqId, addr, nextSeq, revSeq, candidates,
                     unlinked, failedBlocks, mostWork, toMark, target, byWork, reconsidered, pc>>
  BY DEF DisconnectTip, treeSame, frame, others
<1>2. flags = Raise({}, "FAILED_VALID") BY <1>s, RaiseNone
<1>3. mostWork # NoBlock BY <1>1 DEF SafeInv, ChainInv
<1>4. Marking({}, "FAILED_VALID")
  BY <1>s, <1>1, <1>2, <1>3, DisconnectTipIs DEF Marking, ShapeInv
<1> QED BY <1>4, MarkedSafe DEF FAILED_MASK

\* FailToConnect keeps SafeInv.
LEMMA FailToConnectSafe ==
    ASSUME SafeInv, FailToConnect
    PROVE  SafeInv'
<1> DEFINE x == NextToConnect
<1>s. ShapeInv BY DEF SafeInv
<1>1. /\ pc = "step" /\ tip \in Path[mostWork] /\ flags' = Raise({x}, "FAILED_VALID")
      /\ failedBlocks' = failedBlocks \cup {x} /\ candidates' = candidates \ {x}
      /\ mostWork' = NoBlock /\ pc' = "stepped"
      /\ UNCHANGED <<index, level, nTx, linked, seqId, addr, nextSeq, revSeq, unlinked, tip,
                     byWork, reconsidered>>
  BY DEF FailToConnect, Condemned, treeSame, others
<1>2. tip \in Blocks /\ mostWork \in Blocks /\ mostWork # tip
  BY <1>1 DEF SafeInv, ChainInv, ShapeInv, BlockOrNone
<1>3. x \in Blocks /\ x \notin Path[tip] BY <1>1, <1>2, NextIs
<1>4. tip \in Path[tip] BY <1>2, PathFacts
<1> HIDE DEF x
<1>5. \A c \in candidates' : Work[c] >= Work[tip] BY <1>1 DEF SafeInv, ChainInv
<1>6. candidates' \in SUBSET Blocks /\ failedBlocks' \in SUBSET Blocks /\ pc' \in Pcs
  BY <1>s, <1>1, <1>3 DEF ShapeInv, Pcs
<1>7. Marking({x}, "FAILED_VALID")
  BY <1>s, <1>1, <1>3, <1>4, <1>5, <1>6 DEF Marking, ShapeInv
<1> QED BY <1>7, MarkedSafe DEF FAILED_MASK

\* ConnectTip keeps SafeInv.
LEMMA ConnectTipSafe ==
    ASSUME SafeInv, ConnectTip
    PROVE  SafeInv'
<1> DEFINE x == NextToConnect
<1>s. ShapeInv BY DEF SafeInv
<1>1. /\ pc = "step" /\ tip \in Path[mostWork] /\ Fault[x] # "connect" /\ tip' = x /\ pc' \in {"step", "stepped"}
      /\ pc' = "step" => x # mostWork
      /\ candidates' = Kept(candidates, seqId, x)
      /\ UNCHANGED <<index, nTx, linked, seqId, addr, nextSeq, revSeq, unlinked, failedBlocks,
                     mostWork, toMark, target, byWork, reconsidered>>
  BY DEF ConnectTip, treeSame, frame, others
<1>f. flags' = Raise({x}, "HAVE_UNDO") BY DEF ConnectTip
<1>l. level' = IF Failed(x) THEN level ELSE [level EXCEPT ![x] = SCRIPTS] BY DEF ConnectTip
<1>2. tip \in Blocks /\ mostWork \in Blocks /\ mostWork # tip
  BY <1>1 DEF SafeInv, ChainInv, ShapeInv, BlockOrNone
<1>3. /\ x \in Path[mostWork] /\ x \in Blocks /\ Path[x] = Path[tip] \cup {x}
      /\ Work[x] <= Work[mostWork]
  BY <1>1, <1>2, NextIs
<1> HIDE DEF x
<1>4. /\ flags' \in [Blocks -> SUBSET Flags]
      /\ \A b \in Blocks : flags'[b] = IF b \in {x} THEN flags[b] \cup {"HAVE_UNDO"} ELSE flags[b]
  <2>1. "HAVE_UNDO" \in Flags BY DEF Flags
  <2> DEFINE S == {x}
  <2>2. flags' = Raise(S, "HAVE_UNDO") BY <1>f
  <2> HIDE DEF S
  <2>3. /\ flags' \in [Blocks -> SUBSET Flags]
        /\ \A b \in Blocks : flags'[b] = IF b \in S THEN flags[b] \cup {"HAVE_UNDO"} ELSE flags[b]
    BY <1>s, <2>1, <2>2, RaiseIs, SMTT(30)
  <2> QED BY <2>3 DEF S
<1>5. \A b \in Blocks : /\ Failed(b)' <=> Failed(b)
                        /\ Have(b, "FAILED_VALID")' <=> Have(b, "FAILED_VALID")
                        /\ Have(b, "HAVE_DATA")' <=> Have(b, "HAVE_DATA")
  BY <1>4, SMTT(30) DEF Failed, Have, FAILED_MASK
<1>6. Unmarking
  BY <1>s, <1>1, <1>5 DEF Unmarking, SafeInv, MarkInv, ShapeInv
<1>7. MarkInv' /\ \A b \in Blocks : \A a \in Path[b] : Good(b) => a \in nTx' /\ ~Failed(a)'
  BY <1>6, UnmarkedSafe
<1>9. candidates' \in SUBSET candidates /\ \A c \in candidates' : Work[c] >= Work[x]
  BY <1>1, <1>3, <1>s, KeptIs DEF ShapeInv
<1>10. ShapeInv'
  <2>1. level' \in [Blocks -> Int]
    <3>1. level \in [Blocks -> Int] BY <1>s DEF ShapeInv
    <3>2. [level EXCEPT ![x] = SCRIPTS] \in [Blocks -> Int] BY <1>3, <3>1, StatusType
    <3> QED BY <1>l, <3>1, <3>2
  <2>2. pc' \in Pcs /\ pc' \notin {"inv", "mark"} BY <1>1 DEF Pcs
  <2> QED BY <1>s, <1>1, <1>3, <1>4, <1>9, <2>1, <2>2 DEF ShapeInv
<1>12. ChainInv'
  <2>1. Good(mostWork) /\ mostWork # NoBlock BY <1>1 DEF SafeInv, ChainInv
  <2>2. Good(x)
    <3>1. Path[x] \in SUBSET Path[mostWork] BY <1>2, <1>3, PathFacts
    <3> QED BY <2>1, <3>1 DEF Good
  <2>3. Fault[x] = "none"
    <3>1. x \in nTx BY <1>3, <2>1 DEF Good
    <3>2. Fault[x] \in {"none", "contextual", "connect"} BY <1>3, BlockIndexAssumption
    <3> QED BY <1>1, <3>1, <3>2 DEF SafeInv, MarkInv
  <2>4. \A a \in Path[tip'] : Fault[a] = "none" BY <1>1, <1>3, <2>3 DEF SafeInv, ChainInv
  <2>5. Work[mostWork'] >= Work[tip'] BY <1>1, <1>2, <1>3, BasicFacts
  <2>6. Good(tip)' /\ Good(mostWork)' BY <1>1, <1>2, <1>3, <1>7, <2>1, <2>2 DEF Good
  <2>7. \A c \in candidates' : Work[c] >= Work[tip'] BY <1>1, <1>9
  <2>8. pc' \notin {"idle", "inv", "mark"} /\ (pc' = "step" => mostWork' # NoBlock /\ mostWork' # tip')
    BY <1>1, <2>1
  <2> QED BY <2>4, <2>5, <2>6, <2>7, <2>8 DEF ChainInv
<1> QED BY <1>7, <1>10, <1>12 DEF SafeInv

\* InvalidateBlock marks the tip; the parent has no mark to be changed.
LEMMA InvalidateTipIs ==
    ASSUME SafeInv, InvalidateTip
    PROVE  /\ tip \in Blocks \ {Genesis} /\ tip' = Parent[tip] /\ tip' \in Path[tip] /\ tip' \in Blocks
           /\ tip \notin Path[tip'] /\ Work[tip'] < Work[tip] /\ flags' = Raise({tip}, "FAILED_VALID")
<1> DEFINE parent == Parent[tip]
<1>1. pc = "inv" /\ target \in Path[tip] /\ tip' = parent BY DEF InvalidateTip, InChain
<1>2. tip \in Blocks /\ target \in Blocks \ {Genesis} BY <1>1 DEF SafeInv, ShapeInv
<1>3. tip # Genesis BY <1>1, <1>2, BasicFacts
<1>4. parent \in Blocks /\ parent \in Path[tip] /\ tip \notin Path[parent] /\ Work[parent] < Work[tip]
  BY <1>2, <1>3, ParentIs
<1>5. flags' = [x \in Blocks |->
                 IF x = tip THEN flags[x] \cup {"FAILED_VALID"}
                 ELSE IF x = parent /\ x = toMark /\ Have(x, "FAILED_VALID")
                 THEN (flags[x] \ {"FAILED_VALID"}) \cup {"FAILED_CHILD"}
                 ELSE flags[x]]
  BY DEF InvalidateTip
<1> HIDE DEF parent
<1>6. ~Failed(parent) BY <1>4 DEF SafeInv, ChainInv, Good
<1>7. ~Have(parent, "FAILED_VALID") BY <1>6 DEF Failed, Have, FAILED_MASK
<1>8. flags' = Raise({tip}, "FAILED_VALID") BY <1>5, <1>7 DEF Raise
<1> QED BY <1>1, <1>2, <1>3, <1>4, <1>8 DEF parent

\* InvalidateTip keeps SafeInv.
LEMMA InvalidateTipSafe ==
    ASSUME SafeInv, InvalidateTip
    PROVE  SafeInv'
<1> DEFINE back == {c \in byWork : ~Worse(c, Parent[tip])}
<1>s. ShapeInv BY DEF SafeInv
<1>1. /\ pc = "inv" /\ byWork' = byWork \ back /\ toMark' = tip
      /\ UNCHANGED <<index, level, nTx, linked, seqId, addr, nextSeq, revSeq,
                     unlinked, failedBlocks, mostWork, target, reconsidered, pc>>
  BY DEF InvalidateTip, treeSame, others
<1>2. candidates' = (candidates \ {tip}) \cup {tip'} \cup back BY DEF InvalidateTip
<1>3. /\ tip \in Blocks \ {Genesis} /\ tip' = Parent[tip] /\ tip' \in Path[tip] /\ tip' \in Blocks
      /\ tip \notin Path[tip'] /\ Work[tip'] < Work[tip] /\ flags' = Raise({tip}, "FAILED_VALID")
  BY InvalidateTipIs
<1>4. back \in SUBSET Blocks /\ \A c \in back : ~Worse(c, tip') BY <1>s, <1>3 DEF ShapeInv
<1> HIDE DEF back
<1>5. \A c \in back : Work[c] >= Work[tip'] BY <1>3, <1>4, NotWorse DEF Worse
<1>6. candidates' \in SUBSET Blocks /\ \A c \in candidates' : Work[c] >= Work[tip']
  <2>1. \A c \in candidates : c \in Blocks /\ Work[c] >= Work[tip]
    BY DEF SafeInv, ShapeInv, ChainInv
  <2>2. \A x \in Blocks : Work[x] \in Nat BY BasicFacts
  <2>3. \A c \in candidates \cup {tip'} : Work[c] >= Work[tip'] BY <1>3, <2>1, <2>2, SMTT(30)
  <2> QED BY <1>2, <1>3, <1>4, <1>5, <2>1, <2>3
<1>7. byWork' \in SUBSET Blocks /\ mostWork = NoBlock /\ target \in Blocks \ {Genesis}
  BY <1>s, <1>1 DEF ShapeInv, SafeInv, ChainInv
<1>8. Marking({tip}, "FAILED_VALID")
  BY <1>s, <1>1, <1>3, <1>6, <1>7 DEF Marking, ShapeInv
<1> QED BY <1>8, MarkedSafe DEF FAILED_MASK

\* MarkInvalid keeps SafeInv.
LEMMA MarkInvalidSafe ==
    ASSUME SafeInv, MarkInvalid
    PROVE  SafeInv'
<1> DEFINE S == IF InChain(toMark) THEN {} ELSE {toMark}
<1>s. ShapeInv BY DEF SafeInv
<1>1. /\ pc = "mark" /\ pc' = "idle" /\ mostWork' = NoBlock /\ byWork' = {}
      /\ UNCHANGED <<index, level, nTx, linked, seqId, addr, nextSeq, revSeq, unlinked, tip, reconsidered>>
  BY DEF MarkInvalid, Return, treeSame, others
<1>2. toMark \in Blocks /\ tip \in Blocks BY <1>s, <1>1 DEF ShapeInv
<1>3. tip \in Path[tip] BY <1>2, PathFacts
<1>4. flags' = Raise(S, "FAILED_VALID") /\ S \cap Path[tip] = {}
  <2>1. CASE InChain(toMark)
    <3>1. flags' = flags BY <2>1 DEF MarkInvalid
    <3>2. flags = Raise({}, "FAILED_VALID") BY <1>s, RaiseNone
    <3> QED BY <2>1, <3>1, <3>2
  <2>2. CASE ~InChain(toMark) BY <2>2 DEF MarkInvalid, InChain
  <2> QED BY <2>1, <2>2
<1>5. failedBlocks' \in SUBSET Blocks /\ \A x \in failedBlocks' : x \in failedBlocks \/ x \in S
  BY <1>s, <1>2 DEF MarkInvalid, ShapeInv
<1>6. candidates' \in SUBSET Blocks /\ \A c \in candidates' : Work[c] >= Work[tip]
  <2>1. Missed({toMark}) \in SUBSET Blocks BY <1>s DEF Missed, ShapeInv
  <2>2. ASSUME NEW c \in Missed({toMark}) PROVE Work[c] >= Work[tip]
    <3>1. ~Worse(c, tip) /\ c \in Blocks BY <2>1 DEF Missed
    <3> QED BY <1>2, <3>1, NotWorse DEF Worse
  <2>3. candidates \in SUBSET Blocks /\ \A c \in candidates : Work[c] >= Work[tip]
    BY DEF SafeInv, ShapeInv, ChainInv
  <2>4. candidates' \in SUBSET (candidates \cup Missed({toMark})) BY DEF MarkInvalid
  <2> QED BY <2>1, <2>2, <2>3, <2>4
<1> HIDE DEF S
<1>7. Marking(S, "FAILED_VALID")
  BY <1>s, <1>1, <1>3, <1>4, <1>5, <1>6 DEF Marking, ShapeInv, Pcs
<1> QED BY <1>7, MarkedSafe DEF FAILED_MASK

\* What ReceiveHeader, ReceiveBlock and the RPCs leave of the frame.
LEMMA FrameKept ==
    ASSUME SafeInv, UNCHANGED <<frame, pc>>
    PROVE  /\ byWork' \in SUBSET Blocks /\ mostWork' = mostWork /\ pc' \in Pcs
           /\ pc' \in {"idle", "inv", "mark"} => mostWork' = NoBlock
           /\ pc' = "step" => mostWork' # NoBlock /\ mostWork' # tip
           /\ pc' \in {"inv", "mark"} =>
                  toMark' \in Blocks \ {Genesis} /\ target' \in Blocks \ {Genesis}
BY DEF SafeInv, ShapeInv, ChainInv, frame

\* A header refused for a failed ancestor: the marks made on the way keep SafeInv.
LEMMA RejectBlockHeaderSafe ==
    ASSUME SafeInv, NEW b \in Blocks \ {Genesis}, RejectBlockHeader(b), UNCHANGED <<frame, others, pc>>
    PROVE  SafeInv'
<1>s. ShapeInv BY DEF SafeInv
<1>1. UNCHANGED <<index, level, nTx, linked, seqId, addr, nextSeq, revSeq, unlinked, tip,
                  reconsidered, candidates, failedBlocks>>
  BY DEF RejectBlockHeader, others
<1>2. PICK f \in FailedAncestors(b) : flags' = Raise(Path[Parent[b]] \ Path[f], "FAILED_CHILD")
  BY DEF RejectBlockHeader
<1>3. Parent[b] \in Blocks /\ f \in Path[Parent[b]] /\ f \in failedBlocks
  BY <1>2, PathParent DEF FailedAncestors
<1> DEFINE y == Parent[b]
           S == Path[y] \ Path[f]
<1> HIDE DEF y
<1>4. y \in Blocks /\ f \in Path[y] /\ f \in Blocks /\ Failed(f)
  BY <1>s, <1>3 DEF y, SafeInv, MarkInv, ShapeInv
<1>5. Path[tip] \cap S = {} /\ tip \in Path[tip]
  <2>1. tip \in Blocks /\ Good(tip) BY DEF SafeInv, ShapeInv, ChainInv
  <2>2. Path[tip] \cap (Path[y] \ Path[f]) = {} BY <1>4, <2>1, AboveFailed
  <2> QED BY <2>1, <2>2, PathFacts
<1>6. mostWork # NoBlock => S \cap Path[mostWork] = {}
  <2> SUFFICES ASSUME mostWork # NoBlock PROVE S \cap Path[mostWork] = {} OBVIOUS
  <2>1. mostWork \in Blocks /\ Good(mostWork) BY DEF SafeInv, ShapeInv, ChainInv, BlockOrNone
  <2>2. Path[mostWork] \cap (Path[y] \ Path[f]) = {} BY <1>4, <2>1, AboveFailed
  <2> QED BY <2>2
<1>7. ~reconsidered => \A x \in S \cap Blocks : FirstInvalid(x)
  <2> SUFFICES ASSUME ~reconsidered, NEW x \in S PROVE FirstInvalid(x) OBVIOUS
  <2>1. FirstInvalid(f) BY <1>4 DEF SafeInv, MarkInv
  <2> QED BY <1>4, <2>1, CauseAbove
<1>8. flags' = Raise(S, "FAILED_CHILD") BY <1>2 DEF y
<1>9. \A c \in candidates' : Work[c] >= Work[tip] BY <1>1 DEF SafeInv, ChainInv
<1> HIDE DEF S
<1>10. Marking(S, "FAILED_CHILD")
  BY <1>s, <1>1, <1>5, <1>6, <1>7, <1>8, <1>9, FrameKept DEF Marking, ShapeInv
<1> QED BY <1>10, MarkedSafe DEF FAILED_MASK

\* AcceptBlockHeader keeps SafeInv.
LEMMA AcceptBlockHeaderSafe ==
    ASSUME SafeInv, NEW b \in Blocks \ {Genesis}, AcceptBlockHeader(b), UNCHANGED <<frame, others, pc>>
    PROVE  SafeInv'
<1>s. ShapeInv BY DEF SafeInv
<1>1. /\ index' = index \cup {b}
      /\ UNCHANGED <<flags, nTx, linked, seqId, addr, nextSeq, revSeq, unlinked, tip,
                     reconsidered, candidates, failedBlocks>>
  BY DEF AcceptBlockHeader, others
<1>2. level' = [level EXCEPT ![b] = TREE] BY DEF AcceptBlockHeader
<1>3. level' \in [Blocks -> Int]
  <2>1. level \in [Blocks -> Int] BY <1>s DEF ShapeInv
  <2> QED BY <1>2, <2>1, StatusType
<1>4. ShapeInv' BY <1>s, <1>1, <1>3, FrameKept DEF ShapeInv
<1>5. MarkInv' BY <1>1 DEF SafeInv, MarkInv, Have, Failed, FirstInvalid
<1>6. \A x : Good(x)' <=> Good(x) BY <1>1 DEF Good, Failed
<1>7. ChainInv' BY <1>1, <1>6, FrameKept DEF SafeInv, ChainInv
<1> QED BY <1>4, <1>5, <1>7 DEF SafeInv

\* RejectBlock keeps SafeInv.
LEMMA RejectBlockSafe ==
    ASSUME SafeInv, NEW b \in Blocks \ {Genesis}, NEW r \in BOOLEAN, RejectBlock(b, r),
           UNCHANGED <<frame, others, pc>>
    PROVE  SafeInv'
<1>s. ShapeInv BY DEF SafeInv
<1>1. /\ Fault[b] = "contextual" /\ flags' = Raise({b}, "FAILED_VALID")
      /\ UNCHANGED <<index, level, nTx, linked, seqId, addr, nextSeq, revSeq, unlinked, tip,
                  reconsidered, candidates, failedBlocks>>
  BY DEF RejectBlock, others
<1>2. b \notin nTx BY <1>1 DEF SafeInv, MarkInv
<1>3. b \notin Path[tip] /\ (mostWork # NoBlock => b \notin Path[mostWork])
  BY <1>2 DEF SafeInv, ChainInv, Good
<1>4. tip \in Path[tip] BY <1>s, PathFacts DEF ShapeInv
<1>5. \A c \in candidates' : Work[c] >= Work[tip] BY <1>1 DEF SafeInv, ChainInv
<1>6. Marking({b}, "FAILED_VALID")
  BY <1>s, <1>1, <1>3, <1>4, <1>5, FrameKept DEF Marking, ShapeInv
<1> QED BY <1>6, MarkedSafe DEF FAILED_MASK

\* AcceptBlock keeps SafeInv.
LEMMA AcceptBlockSafe ==
    ASSUME SafeInv, NEW b \in Blocks \ {Genesis}, NEW r \in BOOLEAN, AcceptBlock(b, r),
           UNCHANGED <<frame, others, pc>>
    PROVE  SafeInv'
<1>s. ShapeInv BY DEF SafeInv
<1>1. /\ Fault[b] # "contextual" /\ nTx' = nTx \cup {b} /\ b \in index
      /\ UNCHANGED <<index, addr, failedBlocks, tip, revSeq, reconsidered>>
  BY DEF AcceptBlock, Wanted, others
<1>f. flags' = Raise({b}, "HAVE_DATA") BY DEF AcceptBlock
<1>l. level' \in [Blocks -> Int]
  <2>1. level \in [Blocks -> Int] BY <1>s DEF ShapeInv
  <2> DEFINE v == IF level[b] < TRANSACTIONS THEN TRANSACTIONS ELSE level[b]
  <2>2. level' = [level EXCEPT ![b] = v] BY DEF AcceptBlock
  <2>3. v \in Int BY <2>1, SMTT(30) DEF TRANSACTIONS
  <2> HIDE DEF v
  <2> QED BY <2>1, <2>2, <2>3, UpdateType
<1>2. /\ flags' \in [Blocks -> SUBSET Flags]
      /\ \A x \in Blocks : flags'[x] = IF x \in {b} THEN flags[x] \cup {"HAVE_DATA"} ELSE flags[x]
  <2>1. "HAVE_DATA" \in Flags BY DEF Flags
  <2> DEFINE S == {b}
  <2>2. flags' = Raise(S, "HAVE_DATA") BY <1>f
  <2> HIDE DEF S
  <2>3. /\ flags' \in [Blocks -> SUBSET Flags]
        /\ \A x \in Blocks : flags'[x] = IF x \in S THEN flags[x] \cup {"HAVE_DATA"} ELSE flags[x]
    BY <1>s, <2>1, <2>2, RaiseIs, SMTT(30)
  <2> QED BY <2>3 DEF S
<1>3. \A x \in Blocks : /\ Failed(x)' <=> Failed(x)
                        /\ Have(x, "FAILED_VALID")' <=> Have(x, "FAILED_VALID")
                        /\ Have(x, "HAVE_DATA")' => Have(x, "HAVE_DATA") \/ x = b
  BY <1>2, SMTT(30) DEF Failed, Have, FAILED_MASK
<1>4. Unmarking BY <1>s, <1>1, <1>3 DEF Unmarking, SafeInv, MarkInv, ShapeInv
<1>5. MarkInv' /\ \A x \in Blocks : \A a \in Path[x] : Good(x) => a \in nTx' /\ ~Failed(a)'
  BY <1>4, UnmarkedSafe
<1>6. /\ linked' \in SUBSET Blocks /\ unlinked' \in SUBSET Blocks
      /\ seqId' \in [Blocks -> Int] /\ nextSeq' \in Int
      /\ candidates' \in SUBSET Blocks /\ \A c \in candidates' : Work[c] >= Work[tip]
  <2>c. candidates \in SUBSET Blocks /\ \A c \in candidates : Work[c] >= Work[tip]
    BY DEF SafeInv, ShapeInv, ChainInv
  <2>1. CASE Parent[b] \in linked
    <3> DEFINE S == NowLinked(b)
    <3>1. S \in SUBSET Blocks BY <1>s DEF NowLinked, ShapeInv
    <3>2. IsFiniteSet(S) /\ Cardinality(S) \in Nat BY <3>1, BasicFacts, FS_Subset, FS_CardinalityType
    <3>3. LinkBlocks(b) BY <2>1 DEF AcceptBlock
    <3> HIDE DEF S
    <3>4. /\ nextSeq' = nextSeq + Cardinality(S) /\ linked' = linked \cup S
          /\ candidates' = candidates \cup {x \in S : ~CBlockIndexWorkComparator(seqId', addr, x, tip)}
          /\ unlinked' = unlinked \ (S \ {b})
      BY <3>3 DEF LinkBlocks, S
    <3>5. PICK order \in QueueOrders(S) :
             seqId' = [x \in Blocks |-> IF x \in S THEN nextSeq + order[x] ELSE seqId[x]]
      BY <3>3 DEF LinkBlocks, S
    <3>6. \A x \in S : order[x] \in Int
      <4>1. order \in [S -> 0..(Cardinality(S) - 1)] BY <3>5 DEF QueueOrders
      <4> QED BY <3>2, <4>1, SMTT(30)
    <3>7. seqId' \in [Blocks -> Int]
      <4>1. nextSeq \in Int /\ seqId \in [Blocks -> Int] BY <1>s DEF ShapeInv
      <4> QED BY <3>5, <3>6, <4>1, SMTT(30)
    <3>8. nextSeq' \in Int BY <1>s, <3>2, <3>4, SMTT(30) DEF ShapeInv
    <3>9. \A c \in candidates' : c \in Blocks /\ Work[c] >= Work[tip]
      <4> SUFFICES ASSUME NEW c \in candidates', c \notin candidates
                   PROVE  c \in Blocks /\ Work[c] >= Work[tip]
        BY <2>c
      <4>1. c \in Blocks /\ tip \in Blocks /\ ~CBlockIndexWorkComparator(seqId', addr, c, tip)
        BY <1>s, <3>1, <3>4 DEF ShapeInv
      <4> QED BY <4>1, NotWorse
    <3> QED BY <1>s, <3>1, <3>4, <3>7, <3>8, <3>9 DEF ShapeInv
  <2>2. CASE Parent[b] \notin linked
    <3>1. LinkLater(b) BY <2>2 DEF AcceptBlock
    <3> QED BY <1>s, <2>c, <3>1 DEF LinkLater, ShapeInv
  <2> QED BY <2>1, <2>2
<1>7. ShapeInv' BY <1>s, <1>1, <1>2, <1>l, <1>6, FrameKept DEF ShapeInv
<1>8. ChainInv'
  <2>1. Good(tip)' BY <1>1, <1>s, <1>5 DEF Good, SafeInv, ChainInv, ShapeInv
  <2>2. mostWork' # NoBlock => Good(mostWork)'
    BY <1>s, <1>5, FrameKept DEF Good, SafeInv, ChainInv, ShapeInv, BlockOrNone
  <2>3. \A c \in candidates' : Work[c] >= Work[tip'] BY <1>1, <1>6
  <2> QED BY <1>1, <2>1, <2>2, <2>3, FrameKept DEF SafeInv, ChainInv
<1> QED BY <1>5, <1>7, <1>8 DEF SafeInv

\* PreciousBlock keeps SafeInv.
LEMMA PreciousBlockSafe ==
    ASSUME SafeInv, NEW b \in CanPrecious, PreciousBlock(b)
    PROVE  SafeInv'
<1> DEFINE rev == IF Work[tip] > lastPrecious THEN -1 ELSE revSeq
           s == [seqId EXCEPT ![b] = rev]
<1>s. ShapeInv BY DEF SafeInv
<1>1. /\ b \in index /\ revSeq' = rev - 1 /\ seqId' = s /\ Work[b] >= Work[tip]
      /\ UNCHANGED <<index, level, flags, nTx, linked, addr, unlinked, failedBlocks, tip,
                     nextSeq, reconsidered>> /\ UNCHANGED <<frame, pc>>
  BY DEF PreciousBlock
<1>2. candidates' = IF IsValid(b, TRANSACTIONS) /\ b \in linked
                    THEN Kept(candidates \cup {b}, s, tip) ELSE candidates \ {b}
  BY DEF PreciousBlock
<1>3. b \in Blocks /\ rev \in Int /\ tip \in Blocks BY <1>s, <1>1, SMTT(30) DEF ShapeInv
<1> HIDE DEF rev
<1>4. s \in [Blocks -> Int] BY <1>s, <1>3, UpdateType DEF ShapeInv
<1>5. revSeq' \in Int BY <1>1, <1>3, SMTT(30)
<1> HIDE DEF s
<1>c. candidates \in SUBSET Blocks /\ \A c \in candidates : Work[c] >= Work[tip]
  BY DEF SafeInv, ShapeInv, ChainInv
<1>6. candidates' \in SUBSET Blocks /\ \A c \in candidates' : Work[c] >= Work[tip]
  <2>1. candidates \cup {b} \in SUBSET Blocks BY <1>c, <1>3
  <2>2. /\ Kept(candidates \cup {b}, s, tip) \in SUBSET (candidates \cup {b})
        /\ \A c \in Kept(candidates \cup {b}, s, tip) : Work[c] >= Work[tip]
    BY <1>3, <2>1, KeptIs
  <2> QED BY <1>2, <1>c, <1>3, <2>2
<1>7. flags = Raise({}, "FAILED_VALID") BY <1>s, RaiseNone
<1>8. tip \in Path[tip] BY <1>3, PathFacts
<1>9. seqId' \in [Blocks -> Int] BY <1>1, <1>4
<1>10. flags' = Raise({}, "FAILED_VALID") BY <1>1, <1>7
<1>11. Marking({}, "FAILED_VALID")
  BY <1>s, <1>1, <1>5, <1>6, <1>8, <1>9, <1>10, FrameKept DEF Marking, ShapeInv
<1> QED BY <1>11, MarkedSafe DEF FAILED_MASK

\* ReconsiderBlock keeps SafeInv.
LEMMA ReconsiderBlockSafe ==
    ASSUME SafeInv, NEW b \in CanReconsider, ReconsiderBlock(b)
    PROVE  SafeInv'
<1> DEFINE below == {x \in index : b \in Path[x]}
           cleared == {x \in below : ~IsValid(x, TRANSACTIONS)}
           C == cleared \cup Path[b]
<1>s. ShapeInv BY DEF SafeInv
<1>1. /\ b \in index /\ reconsidered' = TRUE /\ failedBlocks' = failedBlocks \ C
      /\ UNCHANGED <<index, level, nTx, linked, seqId, addr, unlinked, tip, nextSeq, revSeq>>
      /\ UNCHANGED <<frame, pc>>
  BY DEF ReconsiderBlock, ResetBlockFailureFlags, Forgiven
<1>2. flags' = [x \in Blocks |-> IF x \in C THEN flags[x] \ FAILED_MASK ELSE flags[x]]
  BY DEF ReconsiderBlock, ResetBlockFailureFlags
<1>3. candidates' = candidates \cup
          {x \in cleared : level[x] >= TRANSACTIONS /\ x \in linked /\ Worse(tip, x)}
  BY DEF ReconsiderBlock, ResetBlockFailureFlags
<1>4. cleared \in SUBSET Blocks BY <1>s DEF ShapeInv
<1> HIDE DEF cleared
<1>5. candidates' \in SUBSET Blocks /\ \A c \in candidates' : Work[c] >= Work[tip]
  <2>1. candidates \in SUBSET Blocks /\ tip \in Blocks /\ \A c \in candidates : Work[c] >= Work[tip]
    BY DEF SafeInv, ShapeInv, ChainInv
  <2>2. ASSUME NEW x \in cleared, Worse(tip, x) PROVE Work[x] >= Work[tip]
    <3>1. Work[tip] \in Nat /\ Work[x] \in Nat BY <1>4, <2>1, BasicFacts
    <3> QED BY <2>2, <3>1, SMTT(30) DEF Worse, CBlockIndexWorkComparator
  <2> QED BY <1>3, <1>4, <2>1, <2>2
<1> HIDE DEF C
<1>6. /\ flags' \in [Blocks -> SUBSET Flags]
      /\ \A x \in Blocks : flags'[x] = IF x \in C THEN flags[x] \ FAILED_MASK ELSE flags[x]
  BY <1>s, <1>2 DEF ShapeInv
<1>7. \A x \in Blocks : /\ Have(x, "HAVE_DATA")' => Have(x, "HAVE_DATA")
                        /\ Failed(x)' => Failed(x)
                        /\ x \notin C => (Failed(x)' <=> Failed(x))
  BY <1>6 DEF Have, Failed
<1>8. ShapeInv' BY <1>s, <1>1, <1>5, <1>6, FrameKept DEF ShapeInv
<1>9. MarkInv' BY <1>s, <1>1, <1>7 DEF SafeInv, MarkInv, ShapeInv
<1>10. ChainInv'
  <2>p. \A x \in Blocks : Path[x] \in SUBSET Blocks BY PathFacts
  <2>1. \A x \in Blocks : \A a \in Path[x] : Good(x) => a \in nTx' /\ ~Failed(a)'
    BY <1>1, <1>7, <2>p DEF Good
  <2>2. Good(tip)' BY <1>1, <1>s, <2>1 DEF Good, SafeInv, ChainInv, ShapeInv
  <2>3. mostWork' # NoBlock => Good(mostWork)'
    BY <1>1, <1>s, <2>1, FrameKept DEF Good, SafeInv, ChainInv, ShapeInv, BlockOrNone
  <2>4. \A c \in candidates' : Work[c] >= Work[tip'] BY <1>1, <1>5
  <2> QED BY <1>1, <2>2, <2>3, <2>4, FrameKept DEF SafeInv, ChainInv
<1> QED BY <1>8, <1>9, <1>10 DEF SafeInv

\* Prune keeps SafeInv.
LEMMA PruneSafe ==
    ASSUME SafeInv, NEW b \in Blocks, Prune(b)
    PROVE  SafeInv'
<1>s. ShapeInv BY DEF SafeInv
<1>1. /\ UNCHANGED <<index, level, nTx, linked, seqId, addr, candidates, failedBlocks, tip,
                     nextSeq, revSeq, reconsidered>>
      /\ UNCHANGED <<frame, pc>> /\ unlinked' \in SUBSET unlinked
  BY DEF Prune, PruneOneBlockFile, StillWaiting, others
<1>2. flags' = [flags EXCEPT ![b] = FlagsKept(b)] BY DEF Prune, PruneOneBlockFile
<1>3. /\ flags' \in [Blocks -> SUBSET Flags]
      /\ \A x \in Blocks : flags'[x] = IF x = b THEN flags[x] \ {"HAVE_DATA", "HAVE_UNDO"} ELSE flags[x]
  BY <1>s, <1>2 DEF ShapeInv, FlagsKept
<1>4. \A x \in Blocks : /\ Failed(x)' <=> Failed(x)
                        /\ Have(x, "FAILED_VALID")' <=> Have(x, "FAILED_VALID")
                        /\ Have(x, "HAVE_DATA")' => Have(x, "HAVE_DATA")
  BY <1>3 DEF Failed, Have, FAILED_MASK
<1>5. Unmarking BY <1>s, <1>1, <1>4 DEF Unmarking, SafeInv, MarkInv, ShapeInv
<1>6. MarkInv' /\ \A x \in Blocks : \A a \in Path[x] : Good(x) => a \in nTx' /\ ~Failed(a)'
  BY <1>5, UnmarkedSafe
<1>7. ShapeInv' BY <1>s, <1>1, <1>3, FrameKept DEF ShapeInv
<1>8. ChainInv'
  <2>1. Good(tip)' BY <1>1, <1>s, <1>6 DEF Good, SafeInv, ChainInv, ShapeInv
  <2>2. mostWork' # NoBlock => Good(mostWork)'
    BY <1>1, <1>s, <1>6, FrameKept DEF Good, SafeInv, ChainInv, ShapeInv, BlockOrNone
  <2> QED BY <1>1, <2>1, <2>2, FrameKept DEF SafeInv, ChainInv
<1> QED BY <1>6, <1>7, <1>8 DEF SafeInv

\* Restart keeps SafeInv.
LEMMA RestartSafe ==
    ASSUME SafeInv, Restart
    PROVE  SafeInv'
<1> DEFINE S == {b \in index : ~Failed(b) /\ \E a \in Path[b] : Failed(a)}
<1>s. ShapeInv BY DEF SafeInv
<1>1. /\ pc = "idle" /\ failedBlocks' = {} /\ nextSeq' = 1 /\ revSeq' = -1
      /\ addr' \in AddrOrders /\ linked' \in SUBSET index
      /\ UNCHANGED <<index, level, nTx, tip, reconsidered>> /\ UNCHANGED <<frame, pc>>
  BY DEF Restart, LoadBlockIndex
<1>f. flags' = Raise(S, "FAILED_CHILD") BY DEF Restart, LoadBlockIndex
<1>2. seqId' = [b \in Blocks |-> 0] BY DEF Restart, LoadBlockIndex
<1>3. seqId' \in [Blocks -> Int] BY <1>2, SMTT(30)
<1>4. unlinked' \in SUBSET Blocks BY <1>s DEF Restart, LoadBlockIndex, ShapeInv
<1>5. candidates' \in SUBSET Blocks /\ \A c \in candidates' : Work[c] >= Work[tip]
  <2>1. \A c \in candidates' : c \in linked' /\ ~CBlockIndexWorkComparator(seqId', addr', c, tip)
    BY DEF Restart, LoadBlockIndex
  <2>2. candidates' \in SUBSET Blocks /\ tip \in Blocks BY <1>s, <1>1, <2>1 DEF ShapeInv
  <2> QED BY <2>1, <2>2, NotWorse
<1>6. S \cap Path[tip] = {} /\ tip \in Path[tip]
  <2>1. tip \in Blocks /\ Good(tip) BY DEF SafeInv, ShapeInv, ChainInv
  <2>2. tip \in Path[tip] /\ \A x \in Path[tip] : Path[x] \in SUBSET Path[tip]
    BY <2>1, PathFacts
  <2> QED BY <2>1, <2>2 DEF Good
<1>7. ~reconsidered => \A x \in S \cap Blocks : FirstInvalid(x)
  <2> SUFFICES ASSUME ~reconsidered, NEW x \in S, x \in Blocks PROVE FirstInvalid(x) OBVIOUS
  <2>1. PICK a \in Path[x] : Failed(a) OBVIOUS
  <2>2. a \in Blocks /\ Path[a] \in SUBSET Path[x] BY PathFacts
  <2>3. FirstInvalid(a) BY <2>1, <2>2 DEF SafeInv, MarkInv
  <2> QED BY <2>2, <2>3 DEF FirstInvalid
<1> HIDE DEF S
<1>8. mostWork = NoBlock /\ byWork' \in SUBSET Blocks /\ pc' = "idle" /\ pc' \in Pcs /\ mostWork' = NoBlock
  BY <1>1, FrameKept DEF SafeInv, ChainInv
<1>9. linked' \in SUBSET Blocks /\ nextSeq' \in Int /\ revSeq' \in Int BY <1>s, <1>1, SMTT(30) DEF ShapeInv
<1>10. Marking(S, "FAILED_CHILD")
  BY <1>1, <1>f, <1>3, <1>4, <1>5, <1>6, <1>7, <1>8, <1>9 DEF Marking
<1> QED BY <1>10, MarkedSafe DEF FAILED_MASK

\* Every step keeps SafeInv.
LEMMA SafeStep == SafeInv /\ [Next]_vars => SafeInv'
<1> SUFFICES ASSUME SafeInv, [Next]_vars PROVE SafeInv' OBVIOUS
<1>1. CASE UNCHANGED vars BY <1>1, FrameSteps
<1>2. CASE ActivateBestChain
  BY <1>2, FrameSteps, DropCandidateSafe, FindMostWorkChainSafe, DisconnectTipSafe, ConnectTipSafe,
     FailToConnectSafe DEF ActivateBestChain
<1>3. CASE Invalidation
  BY <1>3, FrameSteps, InvalidateTipSafe, MarkInvalidSafe DEF Invalidation
<1>4. ASSUME NEW b \in Blocks \ {Genesis}, ReceiveHeader(b) PROVE SafeInv'
  <2>1. UNCHANGED <<frame, others, pc>> /\ (AcceptBlockHeader(b) \/ RejectBlockHeader(b))
    BY <1>4 DEF ReceiveHeader
  <2> QED BY <2>1, AcceptBlockHeaderSafe, RejectBlockHeaderSafe
<1>5. ASSUME NEW b \in Blocks \ {Genesis}, NEW r \in BOOLEAN, ReceiveBlock(b, r) PROVE SafeInv'
  <2>1. UNCHANGED <<frame, others, pc>>
    BY <1>5 DEF ReceiveBlock
  <2>2. AcceptBlock(b, r) \/ RejectBlock(b, r) \/ UNCHANGED treeVars BY <1>5 DEF ReceiveBlock
  <2>3. CASE UNCHANGED treeVars
    BY <2>1, <2>3, QuietSafe, FrameKept DEF treeVars, others
  <2> QED BY <2>1, <2>2, <2>3, AcceptBlockSafe, RejectBlockSafe
<1> QED
  BY <1>1, <1>2, <1>3, <1>4, <1>5, FrameSteps, PreciousBlockSafe, ReconsiderBlockSafe, PruneSafe,
     RestartSafe DEF Next

\* The invariant always holds.
LEMMA AlwaysSafe == Spec => []SafeInv
BY SafeInit, SafeStep, PTL DEF Spec

\* No block of the active chain is marked failed, was never stored, or breaks a rule that
\* ConnectBlock or ContextualCheckBlock checks.
THEOREM ChainStaysValid == Spec => []ActiveChainValid
<1>1. SafeInv => ActiveChainValid
  BY DEF SafeInv, ChainInv, Good, ActiveChainValid
<1> QED BY <1>1, AlwaysSafe, PTL

\* A block is marked failed only where invalidateblock, ConnectBlock or
\* ContextualCheckBlock condemned it or a block below it, until reconsiderblock is used.
THEOREM MarksHaveCause == Spec => []FailureHasCause
<1>1. SafeInv => FailureHasCause
  BY DEF SafeInv, ShapeInv, MarkInv, FailureHasCause
<1> QED BY <1>1, AlwaysSafe, PTL

-----------------------------------------------------------------------------
(* Blocks that wait, when invalidateblock and reconsiderblock are not      *)
(* used; pruning, preciousblock and restarts are.                          *)

\* What is linked is linked from Genesis up, and so are the chains in use; m_failed_blocks
\* holds blocks that ConnectTip found invalid.
LinkInv ==
    /\ pc \notin {"inv", "mark"} /\ ~reconsidered
    /\ \A b \in index \ {Genesis} : Parent[b] \in index
    /\ \A b \in index : level[b] >= TREE
    /\ linked \in SUBSET nTx /\ \A b \in linked : Path[b] \in SUBSET linked
    /\ tip \in linked /\ candidates \in SUBSET linked /\ failedBlocks \in SUBSET linked
    /\ mostWork # NoBlock => mostWork \in linked
    /\ restarts \in Nat

\* b is above a failed block that is not linked and never will be: it was not received, or
\* it is the first one missing on the way from Genesis, and is not downloaded because of the
\* mark.
Blocked(b) ==
    \E a \in Path[b] : a \notin linked /\ Failed(a) /\ (a \notin nTx \/ Parent[a] \in linked)

\* A stored block that is not linked waits in m_blocks_unlinked, unless it would wait for
\* ever, as do failed blocks that are not linked.  A linked block is there because of a
\* pruned one, with all blocks between the two.
WaitInv ==
    /\ \A b \in Blocks \ linked :
          Have(b, "HAVE_DATA") => Parent[b] \notin linked /\ (b \in unlinked \/ Blocked(b))
    /\ \A b \in Blocks \ linked : Failed(b) => Blocked(b)
    /\ \A b \in unlinked \ linked : b \in nTx /\ Parent[b] \notin linked
    /\ \A b \in unlinked \cap linked :
          /\ Have(b, "HAVE_DATA")
          /\ \E m \in Path[b] : ~Have(m, "HAVE_DATA") /\ Path[b] \ Path[m] \in SUBSET unlinked
    /\ restarts = 0 => \A b \in unlinked : Have(b, "HAVE_DATA")

\* Genesis is linked.
LEMMA GenesisLinked ==
    ASSUME SafeInv, LinkInv
    PROVE  Genesis \in linked
<1>1. tip \in Blocks /\ Path[tip] \in SUBSET linked BY DEF SafeInv, ShapeInv, LinkInv
<1> QED BY <1>1, PathFacts

\* On the way to a block that is not linked, the first one of that kind is not there.
LEMMA FirstUnlinked ==
    ASSUME SafeInv, LinkInv, WaitInv, NEW b \in Blocks \ linked
    PROVE  \E a \in Path[b] : a \in Blocks \ linked /\ Parent[a] \in linked /\ ~Have(a, "HAVE_DATA")
<1> DEFINE S == {x \in Blocks : x \in linked \/ \E a \in Path[x] : a \in Blocks \ linked /\ Parent[a] \in linked}
<1>1. Genesis \in S BY GenesisLinked, BasicFacts
<1>2. ASSUME NEW x \in Blocks \ {Genesis}, Parent[x] \in S PROVE x \in S
  <2>1. Path[x] = Path[Parent[x]] \cup {x} BY ParentIs
  <2>2. CASE Parent[x] \notin linked BY <1>2, <2>1, <2>2
  <2>3. CASE Parent[x] \in linked BY <2>1, <2>3
  <2> QED BY <2>2, <2>3
<1> HIDE DEF S
<1>3. b \in S BY <1>1, <1>2, TreeInduction
<1>4. PICK a \in Path[b] : a \in Blocks \ linked /\ Parent[a] \in linked BY <1>3 DEF S
<1> QED BY <1>4 DEF WaitInv

\* The ancestors of a known block are known.
LEMMA IndexClosed ==
    ASSUME SafeInv, LinkInv, NEW b \in index
    PROVE  Path[b] \in SUBSET index
<1> DEFINE S == {x \in Blocks : x \in index => Path[x] \in SUBSET index}
<1>1. index \in SUBSET Blocks /\ \A x \in index \ {Genesis} : Parent[x] \in index
  BY DEF SafeInv, ShapeInv, LinkInv
<1>2. Genesis \in S BY BasicFacts
<1>3. ASSUME NEW x \in Blocks \ {Genesis}, Parent[x] \in S PROVE x \in S
  <2>1. Path[x] = Path[Parent[x]] \cup {x} BY ParentIs
  <2> QED BY <1>1, <1>3, <2>1
<1> HIDE DEF S
<1>4. b \in S BY <1>1, <1>2, <1>3, TreeInduction
<1> QED BY <1>4 DEF S

\* LinkInv, when nothing is stored.
LEMMA LinkSame ==
    ASSUME LinkInv, UNCHANGED <<index, nTx, linked, reconsidered, restarts>>, \A b \in index : level'[b] >= TREE,
           candidates' \in SUBSET linked, failedBlocks' \in SUBSET linked, tip' \in linked,
           mostWork' # NoBlock => mostWork' \in linked, pc' \notin {"inv", "mark"}
    PROVE  LinkInv'
BY DEF LinkInv

\* WaitInv, when nothing is stored, pruned or linked, and marks are set on linked blocks
\* or on blocks that will never be linked.
LEMMA WaitSame ==
    ASSUME SafeInv, WaitInv, UNCHANGED <<nTx, linked, unlinked, restarts>>,
           \A b \in Blocks : Have(b, "HAVE_DATA")' <=> Have(b, "HAVE_DATA"),
           \A b \in Blocks : Failed(b) => Failed(b)',
           \A b \in Blocks \ linked : Failed(b)' => Failed(b) \/ Blocked(b)'
    PROVE  WaitInv'
<1>1. unlinked \in SUBSET Blocks BY DEF SafeInv, ShapeInv
<1>2. ASSUME NEW b \in Blocks, Blocked(b) PROVE Blocked(b)'
  <2>1. PICK a \in Path[b] : a \notin linked /\ Failed(a) /\ (a \notin nTx \/ Parent[a] \in linked)
    BY <1>2 DEF Blocked
  <2>2. a \in Blocks BY PathFacts
  <2> QED BY <2>1, <2>2 DEF Blocked
<1>3. \A b \in Blocks \ linked' :
         Have(b, "HAVE_DATA")' => Parent[b] \notin linked' /\ (b \in unlinked' \/ Blocked(b)')
  BY <1>2 DEF WaitInv
<1>4. \A b \in Blocks \ linked' : Failed(b)' => Blocked(b)' BY <1>2 DEF WaitInv
<1>5. ASSUME NEW b \in unlinked' \cap linked'
      PROVE  /\ Have(b, "HAVE_DATA")'
             /\ \E m \in Path[b] : ~Have(m, "HAVE_DATA")' /\ Path[b] \ Path[m] \in SUBSET unlinked'
  <2>1. PICK m \in Path[b] : ~Have(m, "HAVE_DATA") /\ Path[b] \ Path[m] \in SUBSET unlinked
    BY <1>5 DEF WaitInv
  <2>2. b \in Blocks /\ m \in Blocks BY <1>1, <1>5, PathFacts
  <2> QED BY <1>5, <2>1, <2>2 DEF WaitInv
<1>6. restarts' = 0 => \A b \in unlinked' : Have(b, "HAVE_DATA")' BY <1>1 DEF WaitInv
<1> QED BY <1>3, <1>4, <1>5, <1>6 DEF WaitInv

\* A failure mark, or undo data, is not the data.
LEMMA MarksOnly ==
    ASSUME ShapeInv, NEW S, NEW f \in Flags \ {"HAVE_DATA"}, flags' = Raise(S, f)
    PROVE  \A b \in Blocks : /\ Have(b, "HAVE_DATA")' <=> Have(b, "HAVE_DATA")
                             /\ Failed(b) => Failed(b)'
                             /\ Failed(b)' => Failed(b) \/ b \in S
                             /\ b \in S /\ f \in FAILED_MASK => Failed(b)'
<1>1. \A b \in Blocks : flags'[b] = IF b \in S THEN flags[b] \cup {f} ELSE flags[b] BY RaiseIs, SMTT(30)
<1> QED BY <1>1 DEF Have, Failed

\* Marks on linked blocks.
LEMMA WaitLinkedMarks ==
    ASSUME SafeInv, WaitInv, UNCHANGED <<nTx, linked, unlinked, restarts>>,
           NEW S \in SUBSET linked, NEW f \in Flags \ {"HAVE_DATA"}, flags' = Raise(S, f)
    PROVE  WaitInv'
<1>1. \A b \in Blocks : /\ Have(b, "HAVE_DATA")' <=> Have(b, "HAVE_DATA")
                        /\ Failed(b) => Failed(b)'
                        /\ Failed(b)' => Failed(b) \/ b \in S
  BY MarksOnly DEF SafeInv
<1> QED BY <1>1, WaitSame

\* What ActivateBestChainStep connects next is linked.
LEMMA NextThere ==
    ASSUME SafeInv, LinkInv, pc = "step", tip \in Path[mostWork]
    PROVE  NextToConnect \in linked
<1>1. tip \in Blocks /\ mostWork \in Blocks /\ mostWork # tip /\ mostWork # NoBlock
  BY DEF SafeInv, ShapeInv, ChainInv, BlockOrNone
<1>2. NextToConnect \in Path[mostWork] BY <1>1, NextIs
<1> QED BY <1>1, <1>2 DEF LinkInv

\* The blocks above a missing one are put into m_blocks_unlinked together.
LEMMA WaitDropCandidate ==
    ASSUME SafeInv, LinkInv, WaitInv, DropCandidate
    PROVE  WaitInv'
<1> DEFINE c == BestCandidate
           x == Obstacle(c)
           S == Path[c] \ Path[x]
<1>1. /\ candidates # {} /\ Obstacles(c) # {} /\ UNCHANGED <<nTx, linked, restarts>>
      /\ flags' = FlagsAbove(x, S) /\ unlinked' = WaitingAbove(x, S)
  BY DEF DropCandidate, treeSame, others
<1>2. c \in Blocks /\ Path[c] \in SUBSET linked
  <2>1. c \in candidates BY <1>1, BestIs DEF SafeInv
  <2> QED BY <2>1 DEF LinkInv, SafeInv, ShapeInv
<1> HIDE DEF c
<1>3. x \in Path[c] /\ x \notin Path[tip] /\ x \in Obstacles(c) /\ Obstacles(c) \in SUBSET Path[x]
  BY <1>1, <1>2, ObstacleIs
<1> HIDE DEF x
<1>4. S \in SUBSET linked /\ S \in SUBSET Blocks BY <1>2, PathFacts
<1>5. CASE Failed(x)
  <2>1. flags' = Raise(S, "FAILED_CHILD") /\ unlinked' = unlinked BY <1>1, <1>5 DEF FlagsAbove, WaitingAbove
  <2>2. "FAILED_CHILD" \in Flags \ {"HAVE_DATA"} BY DEF Flags
  <2> HIDE DEF S
  <2> QED BY <1>1, <1>4, <2>1, <2>2, WaitLinkedMarks
<1>6. CASE ~Failed(x)
  <2>1. flags' = flags /\ unlinked' = unlinked \cup S BY <1>1, <1>6 DEF FlagsAbove, WaitingAbove
  <2>2. ~Have(x, "HAVE_DATA") BY <1>3, <1>6 DEF Obstacles
  <2>3. ASSUME NEW s \in S
        PROVE  Have(s, "HAVE_DATA") /\ x \in Path[s] /\ Path[s] \ Path[x] \in SUBSET S
    <3>1. s \in Path[c] /\ s \notin Path[x] BY <2>3
    <3>2. x \in Path[s] /\ Path[s] \in SUBSET Path[c] BY <1>2, <1>3, <3>1, PathLinear, PathFacts
    <3>3. tip \in Blocks BY DEF SafeInv, ShapeInv
    <3>4. s \notin Path[tip] BY <1>3, <3>2, <3>3, PathFacts
    <3>5. s \notin Obstacles(c) BY <1>3, <3>1
    <3>6. Have(s, "HAVE_DATA") BY <3>1, <3>4, <3>5 DEF Obstacles
    <3> QED BY <3>2, <3>6
  <2> HIDE DEF S
  <2>4. \A b \in Blocks : /\ Have(b, "HAVE_DATA")' <=> Have(b, "HAVE_DATA")
                          /\ Failed(b)' <=> Failed(b)
                          /\ Blocked(b)' <=> Blocked(b)
    BY <1>1, <2>1 DEF Have, Failed, Blocked
  <2>5. \A b \in Blocks \ linked' :
           Have(b, "HAVE_DATA")' => Parent[b] \notin linked' /\ (b \in unlinked' \/ Blocked(b)')
    BY <1>1, <2>1, <2>4 DEF WaitInv
  <2>6. \A b \in Blocks \ linked' : Failed(b)' => Blocked(b)' BY <1>1, <2>4 DEF WaitInv
  <2>7. \A b \in unlinked' \ linked' : b \in nTx' /\ Parent[b] \notin linked'
    BY <1>1, <1>4, <2>1 DEF WaitInv
  <2>8. ASSUME NEW b \in unlinked' \cap linked'
        PROVE  /\ Have(b, "HAVE_DATA")'
               /\ \E m \in Path[b] : ~Have(m, "HAVE_DATA")' /\ Path[b] \ Path[m] \in SUBSET unlinked'
    <3>1. CASE b \in S BY <1>4, <2>1, <2>2, <2>3, <3>1 DEF Have
    <3>2. CASE b \notin S
      <4>1. b \in unlinked \cap linked BY <1>1, <2>1, <2>8, <3>2
      <4>2. PICK m \in Path[b] : ~Have(m, "HAVE_DATA") /\ Path[b] \ Path[m] \in SUBSET unlinked
        BY <4>1 DEF WaitInv
      <4>3. Have(b, "HAVE_DATA") BY <4>1 DEF WaitInv
      <4> QED BY <2>1, <4>2, <4>3 DEF Have
    <3> QED BY <3>1, <3>2
  <2>9. restarts' = 0 => \A b \in unlinked' : Have(b, "HAVE_DATA")'
    BY <1>1, <2>1, <2>3 DEF WaitInv, Have
  <2> QED BY <2>5, <2>6, <2>7, <2>8, <2>9 DEF WaitInv
<1> QED BY <1>5, <1>6

\* ActivateBestChain keeps both.
LEMMA WaitActivate ==
    ASSUME SafeInv, LinkInv, WaitInv, ActivateBestChain
    PROVE  LinkInv' /\ WaitInv'
<1>1. /\ UNCHANGED <<index, nTx, linked, reconsidered, restarts>>
      /\ candidates \in SUBSET linked /\ failedBlocks \in SUBSET linked /\ tip \in linked
      /\ mostWork # NoBlock => mostWork \in linked
      /\ \A b \in index : level[b] >= TREE
      /\ pc \notin {"inv", "mark"}
  BY DEF LinkInv, ActivateBestChain, EnterActivateBestChain, BeginRound, DropCandidate, FindMostWorkChain,
     NothingToDo, BeginStep, DisconnectTip, ConnectTip, FailToConnect, Abort, EndStep, others, treeVars, treeSame
<1>2. CASE EnterActivateBestChain \/ BeginRound \/ NothingToDo \/ BeginStep \/ Abort \/ EndStep \/ FindMostWorkChain
  <2>1. UNCHANGED <<flags, level, unlinked, failedBlocks, candidates, tip>>
    BY <1>2 DEF EnterActivateBestChain, BeginRound, FindMostWorkChain, NothingToDo, BeginStep, Abort, EndStep, treeVars
  <2>2. pc' \notin {"inv", "mark"}
    BY <1>2 DEF EnterActivateBestChain, BeginRound, FindMostWorkChain, NothingToDo, BeginStep, Abort,
       EndStep, EndRound, Return, LinkInv
  <2>3. mostWork' # NoBlock => mostWork' \in linked
    <3>1. CASE FindMostWorkChain
      <4>1. candidates # {} /\ mostWork' = BestCandidate BY <3>1 DEF FindMostWorkChain
      <4> QED BY <1>1, <4>1, BestIs DEF SafeInv
    <3>2. CASE ~FindMostWorkChain
      <4>1. mostWork' \in {mostWork, NoBlock}
        BY <1>2, <3>2 DEF EnterActivateBestChain, BeginRound, NothingToDo, BeginStep, Abort, EndStep, EndRound,
           Return, frame
      <4> QED BY <1>1, <4>1
    <3> QED BY <3>1, <3>2
  <2>4. \A b \in Blocks : /\ Have(b, "HAVE_DATA")' <=> Have(b, "HAVE_DATA")
                          /\ Failed(b)' <=> Failed(b)
    BY <2>1 DEF Have, Failed
  <2>5. LinkInv' BY <1>1, <2>1, <2>2, <2>3, LinkSame
  <2> QED BY <1>1, <2>1, <2>4, <2>5, WaitSame
<1>3. CASE DisconnectTip
  <2>1. UNCHANGED <<flags, level, unlinked, failedBlocks, candidates, mostWork, pc>>
    BY <1>3 DEF DisconnectTip, frame
  <2>2. tip' \in linked BY <1>3, DisconnectTipIs DEF LinkInv
  <2>3. \A b \in Blocks : /\ Have(b, "HAVE_DATA")' <=> Have(b, "HAVE_DATA")
                          /\ Failed(b)' <=> Failed(b)
    BY <2>1 DEF Have, Failed
  <2>4. LinkInv' BY <1>1, <2>1, <2>2, LinkSame
  <2> QED BY <1>1, <2>1, <2>3, <2>4, WaitSame
<1>4. CASE ConnectTip
  <2> DEFINE x == NextToConnect
  <2>1. /\ flags' = Raise({x}, "HAVE_UNDO") /\ UNCHANGED <<unlinked, failedBlocks, mostWork>> /\ tip' = x
        /\ pc' \in {"step", "stepped"} /\ candidates' = Kept(candidates, seqId, x)
        /\ level' = IF Failed(x) THEN level ELSE [level EXCEPT ![x] = SCRIPTS]
    BY <1>4 DEF ConnectTip, frame
  <2>2. x \in linked BY <1>4, NextThere DEF ConnectTip
  <2> HIDE DEF x
  <2>3. {x} \in SUBSET linked /\ "HAVE_UNDO" \in Flags \ {"HAVE_DATA"} BY <2>2 DEF Flags
  <2>4. candidates' \in SUBSET linked BY <1>1, <2>1 DEF Kept
  <2>5. \A b \in index : level'[b] >= TREE
    <3>1. level \in [Blocks -> Int] /\ index \in SUBSET Blocks BY DEF SafeInv, ShapeInv
    <3> QED BY <1>1, <2>1, <3>1, SMTT(30) DEF SCRIPTS, TREE
  <2>6. LinkInv' BY <1>1, <2>1, <2>2, <2>4, <2>5, LinkSame
  <2> QED BY <1>1, <2>1, <2>3, <2>6, WaitLinkedMarks
<1>5. CASE FailToConnect
  <2> DEFINE x == NextToConnect
  <2>1. /\ flags' = Raise({x}, "FAILED_VALID") /\ failedBlocks' = failedBlocks \cup {x}
        /\ candidates' = candidates \ {x} /\ UNCHANGED <<unlinked, level, tip>>
        /\ pc' = "stepped" /\ mostWork' = NoBlock
    BY <1>5 DEF FailToConnect, Condemned
  <2>2. x \in linked BY <1>5, NextThere DEF FailToConnect
  <2> HIDE DEF x
  <2>3. {x} \in SUBSET linked /\ "FAILED_VALID" \in Flags \ {"HAVE_DATA"} BY <2>2 DEF Flags
  <2>4. LinkInv' BY <1>1, <2>1, <2>2, LinkSame
  <2> QED BY <1>1, <2>1, <2>3, <2>4, WaitLinkedMarks
<1>6. CASE DropCandidate
  <2>1. candidates' \in SUBSET candidates /\ UNCHANGED <<level, failedBlocks, tip, mostWork, pc>>
    BY <1>6 DEF DropCandidate, frame
  <2>2. LinkInv' BY <1>1, <2>1, LinkSame
  <2> QED BY <1>6, <2>2, WaitDropCandidate
<1> QED BY <1>2, <1>3, <1>4, <1>5, <1>6 DEF ActivateBestChain

\* The blocks that RejectBlockHeader marks are linked, or above one that it marks and that
\* is not there.
LEMMA WaitRejectHeader ==
    ASSUME SafeInv, LinkInv, WaitInv, NEW b \in Blocks \ {Genesis}, RejectBlockHeader(b), UNCHANGED restarts
    PROVE  WaitInv'
<1>1. PICK f \in FailedAncestors(b) : flags' = Raise(Path[Parent[b]] \ Path[f], "FAILED_CHILD")
  BY DEF RejectBlockHeader
<1> DEFINE y == Parent[b]
           S == Path[y] \ Path[f]
<1>2. UNCHANGED <<nTx, linked, unlinked>> BY DEF RejectBlockHeader
<1>3. f \in failedBlocks /\ y \in Blocks BY <1>1, ParentIs DEF FailedAncestors
<1>4. Path[f] \in SUBSET linked BY <1>3 DEF LinkInv
<1> HIDE DEF y
<1>5. /\ flags' = Raise(S, "FAILED_CHILD") /\ "FAILED_CHILD" \in Flags \ {"HAVE_DATA"}
      /\ "FAILED_CHILD" \in FAILED_MASK
  BY <1>1 DEF y, Flags, FAILED_MASK
<1>6. \A x \in Blocks : /\ Have(x, "HAVE_DATA")' <=> Have(x, "HAVE_DATA")
                        /\ Failed(x) => Failed(x)'
                        /\ Failed(x)' => Failed(x) \/ x \in S
                        /\ x \in S => Failed(x)'
  <2> HIDE DEF S
  <2> QED BY <1>5, MarksOnly DEF SafeInv
<1>7. ASSUME NEW x \in Blocks \ linked, x \in S PROVE Blocked(x)'
  <2>1. PICK a \in Path[x] : a \in Blocks \ linked /\ Parent[a] \in linked BY <1>7, FirstUnlinked
  <2>2. a \in Path[y] BY <1>3, <1>7, <2>1, PathFacts
  <2>3. a \in S BY <1>4, <2>1, <2>2
  <2> QED BY <1>2, <1>6, <2>1, <2>3 DEF Blocked
<1> QED BY <1>2, <1>6, <1>7, WaitSame

\* A block that ContextualCheckBlock turns down has never been stored.
LEMMA WaitReject ==
    ASSUME SafeInv, LinkInv, WaitInv, NEW b \in Blocks \ {Genesis}, NEW r \in BOOLEAN, RejectBlock(b, r),
           UNCHANGED restarts
    PROVE  WaitInv'
<1> DEFINE S == {b}
<1>1. flags' = Raise(S, "FAILED_VALID") /\ UNCHANGED <<nTx, linked, unlinked>> BY DEF RejectBlock
<1>2. b \notin nTx /\ b \notin linked BY DEF RejectBlock, SafeInv, MarkInv, LinkInv
<1> HIDE DEF S
<1>3. \A x \in Blocks : /\ Have(x, "HAVE_DATA")' <=> Have(x, "HAVE_DATA")
                        /\ Failed(x) => Failed(x)'
                        /\ Failed(x)' => Failed(x) \/ x \in S
                        /\ x \in S => Failed(x)'
  <2>1. "FAILED_VALID" \in Flags \ {"HAVE_DATA"} /\ "FAILED_VALID" \in FAILED_MASK BY DEF Flags, FAILED_MASK
  <2> QED BY <1>1, <2>1, MarksOnly DEF SafeInv
<1>4. ASSUME NEW x \in Blocks, x \in S PROVE Blocked(x)'
  <2>1. x = b /\ x \in Path[x] BY <1>4, PathFacts DEF S
  <2> QED BY <1>1, <1>2, <1>3, <1>4, <2>1 DEF Blocked
<1> QED BY <1>1, <1>3, <1>4, WaitSame

\* The blocks ReceivedBlockTransactions links: b did not wait itself, and what has waited
\* between it and a linked block is linked.
LEMMA NowThere ==
    ASSUME SafeInv, LinkInv, WaitInv, NEW b \in Blocks \ {Genesis}, ~Have(b, "HAVE_DATA"), Parent[b] \in linked
    PROVE  /\ b \notin unlinked /\ b \in NowLinked(b)
           /\ NowLinked(b) \in SUBSET (unlinked \cup {b})
           /\ \A u \in NowLinked(b) : Path[u] \in SUBSET (linked \cup NowLinked(b))
           /\ \A u \in unlinked : b \in Path[u] /\ Path[u] \ Path[b] \in SUBSET unlinked => u \in NowLinked(b)
           /\ \A u \in unlinked \ {Genesis} : Parent[u] \in NowLinked(b) => u \in NowLinked(b)
<1> DEFINE T == NowLinked(b)
<1>1. b \notin unlinked BY DEF WaitInv
<1>2. b \in T /\ T \in SUBSET (unlinked \cup {b}) BY DEF NowLinked
<1>3. \A u \in unlinked : b \in Path[u] /\ Path[u] \ Path[b] \in SUBSET unlinked => u \in T BY DEF NowLinked
<1>4. \A u \in T \ {b} : u \in unlinked /\ b \in Path[u] /\ Path[u] \ Path[b] \in SUBSET unlinked BY DEF NowLinked
<1> HIDE DEF T
<1>5. unlinked \in SUBSET Blocks BY DEF SafeInv, ShapeInv
<1>6. Path[b] \in SUBSET (linked \cup T)
  <2>1. Path[Parent[b]] \in SUBSET linked BY DEF LinkInv
  <2>2. Path[b] = Path[Parent[b]] \cup {b} BY ParentIs
  <2> QED BY <1>2, <2>1, <2>2, SMTT(30)
<1>7. ASSUME NEW u \in T \ {b}, NEW a \in Path[u] \ Path[b] PROVE a \in T
  <2>1. u \in Blocks /\ b \in Path[u] /\ Path[u] \ Path[b] \in SUBSET unlinked BY <1>4, <1>5, <1>7
  <2>2. b \in Path[a] /\ Path[a] \in SUBSET Path[u] BY <1>7, <2>1, PathLinear, PathFacts
  <2> QED BY <1>3, <1>7, <2>1, <2>2
<1>8. ASSUME NEW u \in unlinked \ {Genesis}, Parent[u] \in T PROVE u \in T
  <2>1. Path[u] = Path[Parent[u]] \cup {u} BY <1>5, <1>8, ParentIs
  <2>2. b \in Path[b] BY PathFacts
  <2>3. b \in Path[u] /\ Path[u] \ Path[b] \in SUBSET unlinked
    <3>1. CASE Parent[u] = b BY <2>1, <2>2, <3>1
    <3>2. CASE Parent[u] # b BY <1>4, <1>8, <2>1, <3>2
    <3> QED BY <3>1, <3>2
  <2> QED BY <1>3, <2>3
<1> QED BY <1>1, <1>2, <1>3, <1>6, <1>7, <1>8 DEF T

\* What AcceptBlock adds; what is above a failed block stays so.
LEMMA StoredIs ==
    ASSUME SafeInv, LinkInv, WaitInv, NEW b \in Blocks \ {Genesis}, NEW r \in BOOLEAN, AcceptBlock(b, r)
    PROVE  /\ b \in index /\ ~Failed(b) /\ ~Have(b, "HAVE_DATA")
           /\ nTx' = nTx \cup {b} /\ UNCHANGED <<index, failedBlocks, tip>>
           /\ \A x \in Blocks : /\ Have(x, "HAVE_DATA")' <=> Have(x, "HAVE_DATA") \/ x = b
                                /\ Failed(x)' <=> Failed(x)
           /\ \A x \in index : level'[x] >= TREE
<1>1. /\ flags' = Raise({b}, "HAVE_DATA") /\ nTx' = nTx \cup {b} /\ UNCHANGED <<index, failedBlocks, tip>>
      /\ level' = [level EXCEPT ![b] = IF @ < TRANSACTIONS THEN TRANSACTIONS ELSE @]
      /\ b \in index /\ ~Failed(b) /\ ~Have(b, "HAVE_DATA")
  BY DEF AcceptBlock, Wanted
<1>2. "HAVE_DATA" \in Flags BY DEF Flags
<1>3. \A x \in Blocks : flags'[x] = IF x = b THEN flags[x] \cup {"HAVE_DATA"} ELSE flags[x]
  BY <1>1, <1>2, RaiseIs, SMTT(30) DEF SafeInv
<1>4. \A x \in Blocks : /\ Have(x, "HAVE_DATA")' <=> Have(x, "HAVE_DATA") \/ x = b
                        /\ Failed(x)' <=> Failed(x)
  BY <1>3 DEF Have, Failed, FAILED_MASK
<1>5. \A x \in index : level'[x] >= TREE
  <2>1. level \in [Blocks -> Int] /\ index \in SUBSET Blocks /\ \A x \in index : level[x] >= TREE
    BY DEF SafeInv, ShapeInv, LinkInv
  <2> QED BY <1>1, <2>1, SMTT(30) DEF TREE, TRANSACTIONS
<1> QED BY <1>1, <1>4, <1>5

\* AcceptBlock, for a block whose parent is not linked.
LEMMA WaitStoreLater ==
    ASSUME SafeInv, LinkInv, WaitInv, NEW b \in Blocks \ {Genesis}, NEW r \in BOOLEAN, AcceptBlock(b, r),
           UNCHANGED <<pc, reconsidered, restarts, mostWork>>, Parent[b] \notin linked
    PROVE  LinkInv' /\ WaitInv'
<1>1. LinkLater(b) BY DEF AcceptBlock
<1>2. b \notin linked BY ParentIs DEF LinkInv
<1>3. /\ linked' = linked /\ unlinked' = IF CanWait(b) THEN unlinked \cup {b} ELSE unlinked
      /\ UNCHANGED candidates
  BY <1>1, <1>2 DEF LinkLater
<1>4. /\ b \in index /\ ~Failed(b) /\ ~Have(b, "HAVE_DATA")
      /\ nTx' = nTx \cup {b} /\ UNCHANGED <<index, failedBlocks, tip>>
      /\ \A x \in Blocks : /\ Have(x, "HAVE_DATA")' <=> Have(x, "HAVE_DATA") \/ x = b
                           /\ Failed(x)' <=> Failed(x)
      /\ \A x \in index : level'[x] >= TREE
  BY StoredIs
<1>5. LinkInv' BY <1>3, <1>4 DEF LinkInv
<1>6. ASSUME NEW x \in Blocks, Blocked(x) PROVE Blocked(x)'
  <2>1. PICK a \in Path[x] : a \notin linked /\ Failed(a) /\ (a \notin nTx \/ Parent[a] \in linked)
    BY <1>6 DEF Blocked
  <2>2. a \in Blocks /\ a # b BY <1>4, <2>1, PathFacts
  <2> QED BY <1>3, <1>4, <2>1, <2>2 DEF Blocked
<1>7. unlinked \in SUBSET Blocks /\ linked \in SUBSET Blocks BY DEF SafeInv, ShapeInv
<1>8. b \in unlinked' \/ Blocked(b)'
  <2>1. CASE CanWait(b) BY <1>3, <2>1
  <2>2. CASE ~CanWait(b)
    <3>1. Parent[b] \in index /\ Parent[b] \in Blocks /\ Path[b] = Path[Parent[b]] \cup {b}
      BY <1>4, ParentIs DEF LinkInv
    <3>2. Failed(Parent[b]) BY <2>2, <3>1 DEF CanWait, IsValid, LinkInv
    <3>3. Blocked(Parent[b])' BY <1>6, <3>1, <3>2 DEF WaitInv
    <3> QED BY <3>1, <3>3 DEF Blocked
  <2> QED BY <2>1, <2>2
<1>9. \A x \in Blocks \ linked' :
         Have(x, "HAVE_DATA")' => Parent[x] \notin linked' /\ (x \in unlinked' \/ Blocked(x)')
  BY <1>3, <1>4, <1>6, <1>8 DEF WaitInv
<1>10. \A x \in Blocks \ linked' : Failed(x)' => Blocked(x)' BY <1>3, <1>4, <1>6 DEF WaitInv
<1>11. \A x \in unlinked' \ linked' : x \in nTx' /\ Parent[x] \notin linked' BY <1>3, <1>4 DEF WaitInv
<1>12. ASSUME NEW x \in unlinked' \cap linked'
       PROVE  /\ Have(x, "HAVE_DATA")'
              /\ \E m \in Path[x] : ~Have(m, "HAVE_DATA")' /\ Path[x] \ Path[m] \in SUBSET unlinked'
  <2>1. x \in unlinked \cap linked BY <1>2, <1>3, <1>12
  <2>2. PICK m \in Path[x] : ~Have(m, "HAVE_DATA") /\ Path[x] \ Path[m] \in SUBSET unlinked
    BY <2>1 DEF WaitInv
  <2>3. m \in linked /\ m \in Blocks BY <1>7, <2>1, <2>2 DEF LinkInv
  <2>4. ~Have(m, "HAVE_DATA")' BY <1>2, <1>4, <2>2, <2>3
  <2>5. Path[x] \ Path[m] \in SUBSET unlinked' BY <1>3, <2>2
  <2>6. Have(x, "HAVE_DATA")' BY <1>4, <1>7, <2>1 DEF WaitInv
  <2> QED BY <2>4, <2>5, <2>6
<1>13. restarts' = 0 => \A x \in unlinked' : Have(x, "HAVE_DATA")' BY <1>3, <1>4, <1>7 DEF WaitInv
<1> QED BY <1>5, <1>9, <1>10, <1>11, <1>12, <1>13 DEF WaitInv

\* AcceptBlock, for a block whose parent is linked.
LEMMA WaitStoreLinked ==
    ASSUME SafeInv, LinkInv, WaitInv, NEW b \in Blocks \ {Genesis}, NEW r \in BOOLEAN, AcceptBlock(b, r),
           UNCHANGED <<pc, reconsidered, restarts, mostWork>>, Parent[b] \in linked
    PROVE  LinkInv' /\ WaitInv'
<1> DEFINE T == NowLinked(b)
<1>1. /\ linked' = linked \cup T /\ unlinked' = unlinked \ (T \ {b})
      /\ candidates' \in SUBSET (candidates \cup T)
  BY DEF AcceptBlock, LinkBlocks
<1>2. /\ b \in index /\ ~Failed(b) /\ ~Have(b, "HAVE_DATA")
      /\ nTx' = nTx \cup {b} /\ UNCHANGED <<index, failedBlocks, tip>>
      /\ \A x \in Blocks : /\ Have(x, "HAVE_DATA")' <=> Have(x, "HAVE_DATA") \/ x = b
                           /\ Failed(x)' <=> Failed(x)
      /\ \A x \in index : level'[x] >= TREE
  BY StoredIs
<1>3. /\ b \notin unlinked /\ b \in T /\ T \in SUBSET (unlinked \cup {b})
      /\ \A u \in T : Path[u] \in SUBSET (linked \cup T)
      /\ \A u \in unlinked : b \in Path[u] /\ Path[u] \ Path[b] \in SUBSET unlinked => u \in T
      /\ \A u \in unlinked \ {Genesis} : Parent[u] \in T => u \in T
  BY <1>2, NowThere
<1>4. \A u \in T \ {b} : b \in Path[u] /\ Path[u] \ Path[b] \in SUBSET unlinked BY DEF NowLinked
<1> HIDE DEF T
<1>5. unlinked \in SUBSET Blocks /\ linked \in SUBSET Blocks /\ Genesis \in linked
  BY GenesisLinked DEF SafeInv, ShapeInv
<1>6. unlinked' = unlinked \ T BY <1>1, <1>3
<1>7. LinkInv'
  <2>1. T \in SUBSET nTx' BY <1>2, <1>3 DEF WaitInv, LinkInv
  <2>2. \A x \in linked' : Path[x] \in SUBSET linked' BY <1>1, <1>3 DEF LinkInv
  <2> QED BY <1>1, <1>2, <2>1, <2>2 DEF LinkInv
<1>8. ASSUME NEW x \in Blocks, Blocked(x)
      PROVE  \E a \in Path[x] : a \notin linked' /\ Failed(a) /\ (a \notin nTx' \/ Parent[a] \in linked) /\ a # b
  <2>1. PICK a \in Path[x] : a \notin linked /\ Failed(a) /\ (a \notin nTx \/ Parent[a] \in linked)
    BY <1>8 DEF Blocked
  <2>2. a # b BY <1>2, <2>1
  <2>3. a \notin T BY <1>3, <2>1, <2>2 DEF WaitInv
  <2> QED BY <1>1, <1>2, <2>1, <2>2, <2>3
<1>9. ASSUME NEW x \in Blocks, Blocked(x) PROVE Blocked(x)'
  <2>1. PICK a \in Path[x] : a \notin linked' /\ Failed(a) /\ (a \notin nTx' \/ Parent[a] \in linked)
    BY <1>8, <1>9
  <2>2. a \in Blocks BY <2>1, PathFacts
  <2> QED BY <1>1, <1>2, <2>1, <2>2 DEF Blocked
<1>10. ASSUME NEW x \in Blocks \ linked', Have(x, "HAVE_DATA")'
       PROVE  Parent[x] \notin linked' /\ (x \in unlinked' \/ Blocked(x)')
  <2>1. x \notin linked /\ x \notin T BY <1>1, <1>10
  <2>2. x # b /\ x # Genesis BY <1>3, <1>5, <2>1
  <2>3. Have(x, "HAVE_DATA") /\ x \in nTx BY <1>2, <1>10, <2>2 DEF SafeInv, MarkInv
  <2>4. Parent[x] \notin linked /\ (x \in unlinked \/ Blocked(x)) BY <2>1, <2>3 DEF WaitInv
  <2>5. Parent[x] \notin T
    <3>1. CASE x \in unlinked BY <1>3, <2>1, <2>2, <3>1
    <3>2. CASE Blocked(x)
      <4>1. PICK a \in Path[x] : a \notin linked' /\ (a \notin nTx' \/ Parent[a] \in linked) BY <1>8, <3>2
      <4>2. a # x BY <1>2, <2>3, <2>4, <4>1
      <4>3. Path[x] = Path[Parent[x]] \cup {x} BY <2>2, ParentIs
      <4>4. a \in Path[Parent[x]] BY <4>1, <4>2, <4>3
      <4> QED BY <1>1, <1>3, <4>1, <4>4
    <3> QED BY <2>4, <3>1, <3>2
  <2> QED BY <1>1, <1>6, <1>9, <2>1, <2>4, <2>5
<1>11. ASSUME NEW x \in Blocks \ linked', Failed(x)' PROVE Blocked(x)'
  <2>1. x \notin linked /\ Failed(x) BY <1>1, <1>2, <1>11
  <2> QED BY <1>9, <2>1 DEF WaitInv
<1>12. ASSUME NEW x \in unlinked' \ linked' PROVE x \in nTx' /\ Parent[x] \notin linked'
  <2>1. x \in unlinked \ linked /\ x \notin T /\ x # Genesis BY <1>1, <1>5, <1>6, <1>12
  <2> QED BY <1>1, <1>2, <1>3, <2>1 DEF WaitInv
<1>13. ASSUME NEW x \in unlinked' \cap linked'
       PROVE  /\ Have(x, "HAVE_DATA")'
              /\ \E m \in Path[x] : ~Have(m, "HAVE_DATA")' /\ Path[x] \ Path[m] \in SUBSET unlinked'
  <2>1. x \in unlinked \cap linked /\ x \notin T /\ x \in Blocks BY <1>1, <1>5, <1>6, <1>13
  <2>2. PICK m \in Path[x] : ~Have(m, "HAVE_DATA") /\ Path[x] \ Path[m] \in SUBSET unlinked
    BY <2>1 DEF WaitInv
  <2>3. m # b
    <3>1. ASSUME m = b PROVE b \in Path[x] /\ Path[x] \ Path[b] \in SUBSET unlinked BY <2>2, <3>1
    <3>2. x \in unlinked /\ x \notin T BY <2>1
    <3> QED BY <1>3, <3>1, <3>2
  <2>4. ASSUME NEW s \in T, s \in Path[x] \ Path[m] PROVE FALSE
    <3>1. s # b BY <1>3, <2>2, <2>4
    <3>2. b \in Path[s] /\ Path[s] \ Path[b] \in SUBSET unlinked BY <1>4, <2>4, <3>1
    <3>3. ASSUME NEW z \in Path[x] \ Path[b] PROVE z \in unlinked
      <4>1. CASE z \in Path[s] BY <3>2, <3>3, <4>1
      <4>2. CASE z \notin Path[s]
        <5>1. s \in Path[z] BY <2>1, <2>4, <3>3, <4>2, PathLinear
        <5>2. m \in Blocks BY <2>1, <2>2, PathFacts
        <5>3. z \notin Path[m] BY <2>4, <5>1, <5>2, PathFacts
        <5> QED BY <2>2, <3>3, <5>3
      <4> QED BY <4>1, <4>2
    <3>4. b \in Path[x] BY <2>1, <2>4, <3>2, PathFacts
    <3>5. Path[x] \ Path[b] \in SUBSET unlinked BY <3>3
    <3>6. x \in unlinked /\ x \notin T BY <2>1
    <3> QED BY <1>3, <3>4, <3>5, <3>6
  <2>5. ~Have(m, "HAVE_DATA")'
    <3>1. m \in Blocks BY <2>1, <2>2, PathFacts
    <3> QED BY <1>2, <2>2, <2>3, <3>1
  <2>6. Path[x] \ Path[m] \in SUBSET unlinked' BY <1>6, <2>2, <2>4
  <2>7. Have(x, "HAVE_DATA")' BY <1>2, <2>1 DEF WaitInv
  <2> QED BY <2>5, <2>6, <2>7
<1>14. restarts' = 0 => \A x \in unlinked' : Have(x, "HAVE_DATA")' BY <1>2, <1>5, <1>6 DEF WaitInv
<1> QED BY <1>7, <1>10, <1>11, <1>12, <1>13, <1>14 DEF WaitInv

\* PruneOneBlockFile: a block above the pruned one waits for it from now on.
LEMMA WaitPrune ==
    ASSUME SafeInv, LinkInv, WaitInv, NEW x \in Blocks, Prune(x)
    PROVE  LinkInv' /\ WaitInv'
<1>1. /\ flags' = [flags EXCEPT ![x] = flags[x] \ {"HAVE_DATA", "HAVE_UNDO"}] /\ unlinked' = unlinked \ {x}
      /\ UNCHANGED <<index, level, nTx, linked, candidates, failedBlocks, tip, mostWork, pc, reconsidered, restarts>>
  BY DEF Prune, PruneOneBlockFile, FlagsKept, StillWaiting, frame, others
<1>2. LinkInv' BY <1>1 DEF LinkInv
<1>3. \A b \in Blocks : /\ Have(b, "HAVE_DATA")' <=> Have(b, "HAVE_DATA") /\ b # x
                        /\ Failed(b)' <=> Failed(b)
                        /\ Blocked(b)' <=> Blocked(b)
  <2>1. flags \in [Blocks -> SUBSET Flags] BY DEF SafeInv, ShapeInv
  <2>2. \A b \in Blocks : flags'[b] = IF b = x THEN flags[b] \ {"HAVE_DATA", "HAVE_UNDO"} ELSE flags[b]
    BY <1>1, <2>1
  <2>3. \A b \in Blocks : /\ Have(b, "HAVE_DATA")' <=> Have(b, "HAVE_DATA") /\ b # x
                          /\ Failed(b)' <=> Failed(b)
    BY <2>2 DEF Have, Failed, FAILED_MASK
  <2>4. ASSUME NEW b \in Blocks PROVE Blocked(b)' <=> Blocked(b)
    <3>1. \A a \in Path[b] : a \in Blocks BY PathFacts
    <3> QED BY <1>1, <2>3, <3>1 DEF Blocked
  <2> QED BY <2>3, <2>4
<1>4. unlinked \in SUBSET Blocks /\ x \in Path[x] BY PathFacts DEF SafeInv, ShapeInv
<1>5. \A b \in Blocks \ linked' :
         Have(b, "HAVE_DATA")' => Parent[b] \notin linked' /\ (b \in unlinked' \/ Blocked(b)')
  BY <1>1, <1>3 DEF WaitInv
<1>6. \A b \in Blocks \ linked' : Failed(b)' => Blocked(b)' BY <1>1, <1>3 DEF WaitInv
<1>7. \A b \in unlinked' \ linked' : b \in nTx' /\ Parent[b] \notin linked' BY <1>1 DEF WaitInv
<1>8. ASSUME NEW b \in unlinked' \cap linked'
      PROVE  /\ Have(b, "HAVE_DATA")'
             /\ \E m \in Path[b] : ~Have(m, "HAVE_DATA")' /\ Path[b] \ Path[m] \in SUBSET unlinked'
  <2>1. b \in unlinked \cap linked /\ b # x /\ b \in Blocks BY <1>1, <1>4, <1>8
  <2>2. PICK m \in Path[b] : ~Have(m, "HAVE_DATA") /\ Path[b] \ Path[m] \in SUBSET unlinked
    BY <2>1 DEF WaitInv
  <2>3. m \in Blocks BY <2>1, <2>2, PathFacts
  <2>4. Have(b, "HAVE_DATA")' BY <1>3, <2>1 DEF WaitInv
  <2>5. CASE x \in Path[b] \ Path[m]
    <3>1. m \in Path[x] BY <2>1, <2>2, <2>5, PathLinear
    <3>2. Path[m] \in SUBSET Path[x] BY <3>1, PathFacts
    <3>3. Path[b] \ Path[x] \in SUBSET unlinked' BY <1>1, <1>4, <2>2, <3>2
    <3> QED BY <1>3, <2>4, <2>5, <3>3
  <2>6. CASE x \notin Path[b] \ Path[m] BY <1>1, <1>3, <2>2, <2>3, <2>4, <2>6
  <2> QED BY <2>5, <2>6
<1>9. restarts' = 0 => \A b \in unlinked' : Have(b, "HAVE_DATA")' BY <1>1, <1>3, <1>4 DEF WaitInv
<1> QED BY <1>2, <1>5, <1>6, <1>7, <1>8, <1>9 DEF WaitInv

\* LoadBlockIndex: every stored block that is not linked waits, and what is above a failed
\* block is marked.
LEMMA WaitRestart ==
    ASSUME SafeInv, LinkInv, WaitInv, Restart
    PROVE  LinkInv' /\ WaitInv'
<1> DEFINE S == {b \in index : ~Failed(b) /\ \E a \in Path[b] : Failed(a)}
<1>1. /\ linked' = {b \in index : Path[b] \subseteq nTx}
      /\ unlinked' = {b \in nTx \ {Genesis} : Parent[b] \notin linked'}
      /\ flags' = Raise(S, "FAILED_CHILD") /\ failedBlocks' = {} /\ candidates' \in SUBSET linked'
      /\ restarts' = restarts + 1
      /\ UNCHANGED <<index, level, nTx, tip, mostWork, pc, reconsidered>>
  BY DEF Restart, LoadBlockIndex, frame
<1>2. /\ index \in SUBSET Blocks /\ nTx \in SUBSET index /\ linked \in SUBSET nTx
      /\ \A b \in linked : Path[b] \in SUBSET linked
  BY DEF SafeInv, ShapeInv, LinkInv
<1>3. linked \in SUBSET linked' /\ linked' \in SUBSET nTx
  <2>1. linked' \in SUBSET nTx BY <1>1, <1>2, PathFacts
  <2> QED BY <1>1, <1>2, <2>1
<1>4. ASSUME NEW b \in linked' PROVE Path[b] \in SUBSET linked'
  <2>1. b \in Blocks /\ Path[b] \in SUBSET nTx BY <1>1, <1>2
  <2>2. \A a \in Path[b] : a \in index /\ Path[a] \in SUBSET nTx BY <1>2, <2>1, PathFacts
  <2> QED BY <1>1, <2>2
<1>5. restarts' \in Nat /\ restarts' # 0
  <2>1. restarts \in Nat BY DEF LinkInv
  <2> QED BY <1>1, <2>1, SMTT(30)
<1>6. LinkInv' BY <1>1, <1>3, <1>4, <1>5 DEF LinkInv
<1>7. \A b \in Blocks : /\ Have(b, "HAVE_DATA")' <=> Have(b, "HAVE_DATA")
                        /\ Failed(b) => Failed(b)'
                        /\ Failed(b)' => Failed(b) \/ b \in S
                        /\ b \in S => Failed(b)'
  <2>1. "FAILED_CHILD" \in Flags \ {"HAVE_DATA"} /\ "FAILED_CHILD" \in FAILED_MASK BY DEF Flags, FAILED_MASK
  <2> HIDE DEF S
  <2> QED BY <1>1, <2>1, MarksOnly DEF SafeInv
<1>8. Genesis \in linked' BY <1>3, GenesisLinked
<1>9. ASSUME NEW b \in nTx \ linked' PROVE Parent[b] \notin linked' /\ b \in unlinked'
  <2>1. b \in Blocks \ {Genesis} /\ b \in index BY <1>2, <1>8, <1>9
  <2>2. Path[b] = Path[Parent[b]] \cup {b} BY <2>1, ParentIs
  <2>3. Parent[b] \notin linked' BY <1>1, <1>9, <2>1, <2>2
  <2> QED BY <1>1, <1>9, <2>1, <2>3
<1>10. \A b \in Blocks \ linked' :
          Have(b, "HAVE_DATA")' => Parent[b] \notin linked' /\ (b \in unlinked' \/ Blocked(b)')
  BY <1>7, <1>9 DEF SafeInv, MarkInv
<1>11. ASSUME NEW b \in Blocks, NEW a \in Path[b], a \notin nTx, Failed(a)' PROVE Blocked(b)'
  BY <1>1, <1>3, <1>11 DEF Blocked
<1>12. ASSUME NEW b \in index \ linked', NEW g \in Path[b], Failed(g), Path[g] \in SUBSET nTx PROVE Blocked(b)'
  <2>1. b \in Blocks BY <1>2, <1>12
  <2>2. PICK m \in Path[b] : m \notin nTx BY <1>1, <1>12
  <2>3. g \in Path[m] BY <1>12, <2>1, <2>2, PathLinear
  <2>4. m \in index /\ m \in Blocks BY <1>2, <1>12, <2>2, IndexClosed
  <2>5. Failed(m)' BY <1>7, <1>12, <2>3, <2>4
  <2> QED BY <1>11, <2>1, <2>2, <2>5
<1>13. ASSUME NEW b \in Blocks \ linked', NEW g \in Path[b], Failed(g), b \in index \/ g = b PROVE Blocked(b)'
  <2>1. g \in Blocks /\ Path[g] \in SUBSET Path[b] BY <1>13, PathFacts
  <2>2. CASE g \notin nTx BY <1>7, <1>11, <1>13, <2>1, <2>2
  <2>3. CASE g \in linked
    <3>1. Path[g] \in SUBSET nTx BY <1>2, <2>3
    <3>2. b \in index BY <1>2, <1>13, <2>3
    <3> QED BY <1>12, <1>13, <3>1, <3>2
  <2>4. CASE g \in nTx \ linked
    <3>1. b \in index BY <1>2, <1>13, <2>4
    <3>2. PICK a \in Path[g] : a \notin linked /\ Failed(a) /\ (a \notin nTx \/ Parent[a] \in linked)
      BY <1>13, <2>1, <2>4 DEF WaitInv, Blocked
    <3>3. a \in Blocks /\ a \in Path[b] BY <2>1, <3>2, PathFacts
    <3>4. CASE a \notin nTx BY <1>7, <1>11, <3>2, <3>3, <3>4
    <3>5. CASE a \in nTx
      <4>1. Parent[a] \in linked /\ a # Genesis BY <3>2, <3>5, GenesisLinked
      <4>2. Path[a] = Path[Parent[a]] \cup {a} BY <3>3, <4>1, ParentIs
      <4>3. Path[a] \in SUBSET nTx BY <1>2, <3>5, <4>1, <4>2, SMTT(30)
      <4> QED BY <1>12, <1>13, <3>1, <3>2, <3>3, <4>3
    <3> QED BY <3>4, <3>5
  <2> QED BY <2>2, <2>3, <2>4
<1>14. ASSUME NEW b \in Blocks \ linked', Failed(b)' PROVE Blocked(b)'
  <2>1. b \in Path[b] BY PathFacts
  <2>2. CASE Failed(b) BY <1>13, <2>1, <2>2
  <2>3. CASE b \in S
    <3>1. PICK g \in Path[b] : Failed(g) BY <2>3
    <3> QED BY <1>13, <2>3, <3>1
  <2> QED BY <1>7, <1>14, <2>2, <2>3
<1>15. \A b \in unlinked' \ linked' : b \in nTx' /\ Parent[b] \notin linked' BY <1>1
<1>16. unlinked' \cap linked' = {}
  <2> SUFFICES ASSUME NEW b \in unlinked', b \in linked' PROVE FALSE OBVIOUS
  <2>1. b \in Blocks \ {Genesis} /\ Parent[b] \notin linked' BY <1>1, <1>2
  <2>2. Parent[b] \in Path[b] BY <2>1, ParentIs
  <2> QED BY <1>4, <2>1, <2>2
<1> QED BY <1>5, <1>6, <1>10, <1>14, <1>15, <1>16 DEF WaitInv

\* Every step keeps both.
LEMMA WaitStep ==
    ASSUME CanInvalidate = {}, CanReconsider = {}, SafeInv, LinkInv, WaitInv, [Next]_vars
    PROVE  LinkInv' /\ WaitInv'
<1>1. ASSUME UNCHANGED <<nTx, linked, unlinked, flags, restarts>> PROVE WaitInv'
  <2>1. \A b \in Blocks : /\ Have(b, "HAVE_DATA")' <=> Have(b, "HAVE_DATA")
                          /\ Failed(b)' <=> Failed(b)
    BY <1>1 DEF Have, Failed
  <2> QED BY <1>1, <2>1, WaitSame
<1>2. ASSUME UNCHANGED <<index, level, nTx, linked, candidates, failedBlocks, tip, mostWork, pc, reconsidered, restarts>>
      PROVE  LinkInv'
  BY <1>2 DEF LinkInv
<1>3. ASSUME NEW b \in CanPrecious, PreciousBlock(b) PROVE LinkInv' /\ WaitInv'
  <2>1. /\ UNCHANGED <<index, level, nTx, linked, unlinked, flags, failedBlocks, tip, mostWork, pc, reconsidered, restarts>>
        /\ candidates' \in SUBSET (candidates \cup {b}) /\ (b \notin linked => candidates' \in SUBSET candidates)
    BY <1>3 DEF PreciousBlock, Kept, frame
  <2>2. candidates' \in SUBSET linked BY <2>1 DEF LinkInv
  <2>3. LinkInv' BY <2>1, <2>2 DEF LinkInv
  <2> QED BY <1>1, <2>1, <2>3
<1>4. ASSUME NEW b \in Blocks \ {Genesis}, ReceiveHeader(b) PROVE LinkInv' /\ WaitInv'
  <2>1. UNCHANGED <<pc, reconsidered, restarts, mostWork>> BY <1>4 DEF ReceiveHeader, others, frame
  <2>2. CASE AcceptBlockHeader(b)
    <3>1. /\ UNCHANGED <<nTx, linked, unlinked, flags, failedBlocks, candidates, tip>>
          /\ index' = index \cup {b} /\ Parent[b] \in index /\ level' = [level EXCEPT ![b] = TREE]
      BY <2>2 DEF AcceptBlockHeader
    <3>2. \A x \in index' : level'[x] >= TREE
      <4>1. level \in [Blocks -> Int] /\ index \in SUBSET Blocks /\ \A x \in index : level[x] >= TREE
        BY DEF SafeInv, ShapeInv, LinkInv
      <4> QED BY <3>1, <4>1, SMTT(30) DEF TREE
    <3>3. \A x \in index' \ {Genesis} : Parent[x] \in index' BY <3>1 DEF LinkInv
    <3>4. LinkInv' BY <2>1, <3>1, <3>2, <3>3 DEF LinkInv
    <3> QED BY <1>1, <2>1, <3>1, <3>4
  <2>3. CASE RejectBlockHeader(b)
    <3>1. UNCHANGED <<index, level, nTx, linked, candidates, failedBlocks, tip>> BY <2>3 DEF RejectBlockHeader
    <3> QED BY <1>2, <2>1, <2>3, <3>1, WaitRejectHeader
  <2> QED BY <1>4, <2>2, <2>3 DEF ReceiveHeader
<1>5. ASSUME NEW b \in Blocks \ {Genesis}, NEW r \in BOOLEAN, ReceiveBlock(b, r) PROVE LinkInv' /\ WaitInv'
  <2>1. UNCHANGED <<pc, reconsidered, restarts, mostWork>> BY <1>5 DEF ReceiveBlock, others, frame
  <2>2. CASE UNCHANGED treeVars BY <1>1, <1>2, <2>1, <2>2 DEF treeVars
  <2>3. CASE RejectBlock(b, r)
    <3>1. UNCHANGED <<index, level, nTx, linked, candidates, failedBlocks, tip>> BY <2>3 DEF RejectBlock
    <3> QED BY <1>2, <2>1, <2>3, <3>1, WaitReject
  <2>4. CASE AcceptBlock(b, r) BY <2>1, <2>4, WaitStoreLater, WaitStoreLinked
  <2> QED BY <1>5, <2>2, <2>3, <2>4 DEF ReceiveBlock
<1>6. CASE RequestShutdown \/ UNCHANGED vars BY <1>1, <1>2, <1>6 DEF RequestShutdown, vars, treeVars, others, frame
<1>7. ~Invalidation BY DEF LinkInv, Invalidation, InvalidateTip, InvalidateFails, LeaveLoop, MarkInvalid
<1> QED BY <1>3, <1>4, <1>5, <1>6, <1>7, WaitActivate, WaitPrune, WaitRestart DEF Next

\* Both always hold, where invalidateblock and reconsiderblock are not used.
LEMMA AlwaysWait ==
    ASSUME CanInvalidate = {}, CanReconsider = {}
    PROVE  Spec => [](SafeInv /\ LinkInv /\ WaitInv)
<1>1. Init => LinkInv /\ WaitInv
  <2> SUFFICES ASSUME Init PROVE LinkInv /\ WaitInv OBVIOUS
  <2> USE DEF Init, TreeInit
  <2>1. \A b \in Blocks : /\ ~Failed(b)
                          /\ Have(b, "HAVE_DATA") => b = Genesis
    BY DEF Failed, FAILED_MASK, Have
  <2>2. \A b \in Headers : level[b] >= TREE
    <3>1. Headers \in SUBSET Blocks BY BlockIndexAssumption
    <3> QED BY <3>1, SMTT(30) DEF TREE, TRANSACTIONS
  <2>3. /\ Path[Genesis] = {Genesis} /\ NoBlock \notin Blocks
        /\ \A b \in Headers \ {Genesis} : Parent[b] \in Headers
    BY BlockIndexAssumption
  <2>4. LinkInv BY <2>2, <2>3 DEF LinkInv
  <2> QED BY <2>1, <2>4 DEF WaitInv
<1>2. SafeInv /\ LinkInv /\ WaitInv /\ [Next]_vars => LinkInv' /\ WaitInv' BY WaitStep
<1> QED BY <1>1, <1>2, AlwaysSafe, PTL DEF Spec

\* A stored block that was never linked, and below which nothing has failed, is waiting.
NoneForgotten == \A b \in Blocks \ linked : Have(b, "HAVE_DATA") /\ ~FirstInvalid(b) => b \in unlinked

\* CheckBlockIndex on m_blocks_unlinked, whether the node prunes or not: every block there
\* misses data of an ancestor and, until the node restarts, has its own; and
\* ReceivedBlockTransactions, PruneOneBlockFile and LoadBlockIndex forget no block that
\* waits for its first linking.  invalidateblock and reconsiderblock are not used.
THEOREM WaitingSound ==
    ASSUME CanInvalidate = {}, CanReconsider = {}
    PROVE  Spec => [](UnlinkedSound /\ NoneForgotten)
<1>1. ASSUME SafeInv, LinkInv, WaitInv PROVE UnlinkedSound /\ NoneForgotten
  <2>1. unlinked \in SUBSET Blocks BY <1>1 DEF SafeInv, ShapeInv
  <2>2. ASSUME NEW b \in unlinked PROVE ~HaveAll(b)
    <3>1. CASE b \in linked BY <1>1, <2>2, <3>1 DEF WaitInv, HaveAll
    <3>2. CASE b \notin linked BY <1>1, <2>1, <2>2, <3>2, FirstUnlinked DEF HaveAll
    <3> QED BY <3>1, <3>2
  <2>3. ASSUME NEW b \in Blocks, Blocked(b) PROVE FirstInvalid(b)
    <3>1. PICK a \in Path[b] : a \notin linked /\ Failed(a) BY <2>3 DEF Blocked
    <3>2. a \in Blocks /\ Path[a] \in SUBSET Path[b] BY <3>1, PathFacts
    <3>3. FirstInvalid(a) BY <1>1, <3>1, <3>2 DEF LinkInv, SafeInv, MarkInv
    <3> QED BY <3>2, <3>3 DEF FirstInvalid
  <2>4. NoneForgotten BY <1>1, <2>3 DEF WaitInv, NoneForgotten
  <2> QED BY <1>1, <2>2, <2>4 DEF WaitInv, UnlinkedSound
<1> QED BY <1>1, AlwaysWait, PTL
=============================================================================
