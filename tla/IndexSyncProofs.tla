-------------------------- MODULE IndexSyncProofs --------------------------
(***************************************************************************)
(* The index for any tree of blocks and any number of reorganisations,     *)
(* flushes, crashes and shutdowns.  The argument has three invariants:     *)
(*   - CInv: what the thread, the callbacks and the queue may be doing at  *)
(*     the same time;                                                      *)
(*   - ReachInv: whichever events of the queue BlockConnected takes, the   *)
(*     index is above the block of a promise when its turn comes;          *)
(*   - DiskInv: what the height index, the hash index and the filter files *)
(*     hold of the index's own chain, of the locator's chain and of the    *)
(*     blocks that were left, with the positions that were committed.      *)
(***************************************************************************)
EXTENDS IndexSync, FiniteSetTheorems, TLAPS

\* The prover of a step that names no other.
USE ZenonT(120)

-----------------------------------------------------------------------------
(* The tree.                                                               *)

Nodes == Blocks \cup {NoBlock}

\* What the assumption says of a parent.
LEMMA Parents ==
    /\ NoBlock \notin Blocks /\ Genesis \in Blocks /\ NoBlock \in Nodes /\ Blocks \subseteq Nodes
    /\ \A b \in Blocks : Parent[b] \in Nodes /\ (Parent[b] = NoBlock <=> b = Genesis)
BY IndexSyncAssumption DEF Nodes

\* nullptr has no ancestors.
LEMMA PathNone == Path[NoBlock] = {}
BY DEF Path

\* The ancestors of a block, by the definition.
LEMMA PathDef ==
    ASSUME NEW b \in Blocks
    PROVE  Path[b] = {a \in Blocks : \A S \in SUBSET Blocks : b \in S /\ HasParents(S) => a \in S}
BY Parents DEF Path

\* They are blocks.
LEMMA PathBlocks == \A b \in Nodes : Path[b] \subseteq Blocks
<1>1. ASSUME NEW b \in Blocks PROVE Path[b] \subseteq Blocks
  BY PathDef
<1> QED
  BY <1>1, PathNone DEF Nodes

\* They are the least such set.
LEMMA PathLeast ==
    ASSUME NEW b \in Blocks, NEW S \in SUBSET Blocks, b \in S, HasParents(S)
    PROVE  Path[b] \subseteq S
BY PathDef

\* And they are such a set.
LEMMA PathHas ==
    ASSUME NEW b \in Blocks
    PROVE  b \in Path[b] /\ HasParents(Path[b])
<1>1. b \in Path[b]
  BY PathDef
<1>2. ASSUME NEW a \in Path[b], Parent[a] # NoBlock PROVE Parent[a] \in Path[b]
  <2>1. a \in Blocks /\ Parent[a] \in Blocks
    BY <1>2, PathBlocks, Parents DEF Nodes
  <2>2. ASSUME NEW S \in SUBSET Blocks, b \in S, HasParents(S) PROVE Parent[a] \in S
    <3>1. a \in S
      BY <2>2, PathLeast
    <3> QED
      BY <1>2, <2>2, <3>1 DEF HasParents
  <2> QED
    BY <2>1, <2>2, PathDef
<1>3. HasParents(Path[b])
  BY <1>2 DEF HasParents
<1> QED
  BY <1>1, <1>3

\* The ancestors of an ancestor.
LEMMA PathTrans ==
    ASSUME NEW b \in Nodes, NEW a \in Path[b]
    PROVE  a \in Blocks /\ b \in Blocks /\ Path[a] \subseteq Path[b]
<1>1. b \in Blocks
  BY PathNone DEF Nodes
<1>2. a \in Blocks /\ Path[b] \in SUBSET Blocks
  BY PathBlocks
<1> QED
  BY <1>1, <1>2, PathHas, PathLeast

\* A block and the ancestors of its parent.
LEMMA PathStep ==
    ASSUME NEW b \in Blocks
    PROVE  Path[b] = Path[Parent[b]] \cup {b}
<1> DEFINE S == Path[Parent[b]] \cup {b}
<1>1. Parent[b] \in Nodes /\ S \in SUBSET Blocks
  BY Parents, PathBlocks
<1>2. HasParents(S)
  <2>1. Parent[b] # NoBlock => Parent[b] \in Path[Parent[b]] /\ HasParents(Path[Parent[b]])
    BY <1>1, PathHas DEF Nodes
  <2>2. Parent[b] = NoBlock => Path[Parent[b]] = {}
    BY PathNone
  <2> QED
    BY <2>1, <2>2 DEF HasParents
<1>3. Path[b] \subseteq S
  BY <1>1, <1>2, PathLeast
<1>4. b \in Path[b] /\ HasParents(Path[b])
  BY PathHas
<1>5. Path[Parent[b]] \subseteq Path[b]
  <2>1. CASE Parent[b] = NoBlock
    BY <2>1, PathNone
  <2>2. CASE Parent[b] # NoBlock
    <3>1. Parent[b] \in Path[b]
      BY <1>4, <2>2 DEF HasParents
    <3> QED
      BY <3>1, PathTrans, Parents
  <2> QED
    BY <2>1, <2>2
<1> QED
  BY <1>3, <1>4, <1>5

\* Nothing is its own ancestor.
LEMMA NoCycle ==
    ASSUME NEW b \in Blocks
    PROVE  b \notin Path[Parent[b]]
<1> DEFINE S == {x \in Blocks : x \in Path[Parent[x]]}
<1> SUFFICES ASSUME S # {} PROVE FALSE
  OBVIOUS
<1>1. PICK x \in S : Parent[x] \notin S
  <2>1. S \in SUBSET Blocks
    OBVIOUS
  <2> QED
    BY <2>1, IndexSyncAssumption
<1>2. x \in Blocks /\ Parent[x] \in Nodes /\ x \in Path[Parent[x]]
  BY Parents
<1>3. Parent[x] \in Blocks
  BY <1>2, PathTrans
<1>4. Parent[x] \notin Path[Parent[Parent[x]]]
  BY <1>1, <1>3
<1>5. x # Parent[x]
  BY <1>1
<1>6. x \in Path[Parent[Parent[x]]]
  BY <1>2, <1>3, <1>5, PathStep
<1>7. Path[x] \subseteq Path[Parent[Parent[x]]]
  BY <1>3, <1>6, PathTrans, Parents
<1>8. Parent[x] \in Path[x]
  BY <1>2, <1>3, PathHas, PathStep
<1> QED
  BY <1>4, <1>7, <1>8

\* Ancestors of one another are the same.
LEMMA PathAnti ==
    ASSUME NEW a \in Blocks, NEW b \in Blocks, a \in Path[b], b \in Path[a]
    PROVE  a = b
<1> SUFFICES ASSUME a # b PROVE FALSE
  OBVIOUS
<1>0. Path[b] = Path[Parent[b]] \cup {b}
  BY PathStep
<1>1. a \in Path[Parent[b]]
  BY <1>0
<1>2. Path[a] \subseteq Path[Parent[b]]
  BY <1>1, PathTrans, Parents
<1> QED
  BY <1>2, NoCycle

\* Two blocks with the same ancestors are the same.
LEMMA PathEqual ==
    ASSUME NEW a \in Nodes, NEW b \in Nodes, Path[a] = Path[b]
    PROVE  a = b
<1>1. CASE a \in Blocks /\ b \in Blocks
  BY <1>1, PathHas, PathAnti
<1>2. a \in Blocks => Path[a] # {}
  BY PathHas
<1>3. b \in Blocks => Path[b] # {}
  BY PathHas
<1>4. a \in Blocks \/ a = NoBlock
  BY DEF Nodes
<1>5. b \in Blocks \/ b = NoBlock
  BY DEF Nodes
<1>6. a = NoBlock => Path[a] = {}
  BY PathNone
<1>7. b = NoBlock => Path[b] = {}
  BY PathNone
<1> QED
  BY <1>1, <1>2, <1>3, <1>4, <1>5, <1>6, <1>7

\* The blocks of a chain lie one above the other.
LEMMA PathLinear ==
    ASSUME NEW b \in Nodes, NEW a \in Path[b], NEW c \in Path[b]
    PROVE  a \in Path[c] \/ c \in Path[a]
<1> DEFINE S == {x \in Path[b] : a \in Path[x] \/ x \in Path[a]}
<1>1. b \in Blocks /\ S \in SUBSET Blocks
  BY PathTrans, PathBlocks
<1>2. b \in S
  BY <1>1, PathHas
<1>3. HasParents(S)
  <2> SUFFICES ASSUME NEW x \in S, Parent[x] # NoBlock PROVE Parent[x] \in S
    BY DEF HasParents
  <2>1. x \in Blocks /\ Parent[x] \in Blocks /\ a \in Blocks
    BY <1>1, Parents, PathTrans DEF Nodes
  <2>2. Parent[x] \in Path[b] /\ Parent[x] \in Path[x]
    BY <1>1, <2>1, PathHas DEF HasParents
  <2>3. CASE a \in Path[x]
    <3>0. Path[x] = Path[Parent[x]] \cup {x}
      BY <2>1, PathStep
    <3>1. a \in Path[Parent[x]] \/ a = x
      BY <2>3, <3>0
    <3>2. CASE a = x
      <4>1. Parent[x] \in Path[a]
        BY <2>2, <3>2
      <4> QED
        BY <2>2, <4>1
    <3> QED
      BY <2>2, <3>1, <3>2
  <2>4. CASE x \in Path[a]
    BY <2>1, <2>2, <2>4, PathHas DEF HasParents
  <2> QED
    BY <2>3, <2>4
<1>4. Path[b] \subseteq S
  BY <1>1, <1>2, <1>3, PathLeast
<1> QED
  BY <1>4

\* The genesis block is below every other.
LEMMA GenesisBelow ==
    ASSUME NEW b \in Blocks
    PROVE  Genesis \in Path[b]
<1>1. Path[b] \in SUBSET Blocks /\ Path[b] # {} /\ HasParents(Path[b])
  BY PathHas, PathBlocks, Parents
<1>2. PICK x \in Path[b] : Parent[x] \notin Path[b]
  BY <1>1, IndexSyncAssumption
<1>3. x \in Blocks /\ Parent[x] = NoBlock
  BY <1>1, <1>2 DEF HasParents
<1> QED
  BY <1>2, <1>3, Parents

\* The last block of a chain is the one it is the chain of.
LEMMA LastOfPath ==
    ASSUME NEW f \in Nodes
    PROVE  Last(Path[f]) = f
<1>1. CASE f = NoBlock
  BY <1>1, PathNone DEF Last
<1>2. CASE f \in Blocks
  <2> DEFINE c == CHOOSE b \in Path[f] : Path[f] \subseteq Path[b]
  <2>1. f \in Path[f] /\ Path[f] # {}
    BY <1>2, PathHas
  <2>2. c \in Path[f] /\ Path[f] \subseteq Path[c]
    BY <2>1
  <2>3. c \in Blocks /\ f \in Path[c]
    BY <2>1, <2>2, PathTrans
  <2>4. c = f
    BY <1>2, <2>2, <2>3, PathAnti
  <2> QED
    BY <2>1, <2>4 DEF Last
<1> QED
  BY <1>1, <1>2 DEF Nodes

\* Two chains have the chain of one block in common: FindFork finds it.
LEMMA Fork ==
    ASSUME NEW b \in Nodes, NEW t \in Nodes
    PROVE  FindFork(b, t) \in Nodes /\ Path[FindFork(b, t)] = Path[b] \cap Path[t]
<1> DEFINE S == {x \in Blocks : \A f \in Nodes : Path[x] \cap Path[t] # Path[f]}
<1>1. S = {}
  <2> SUFFICES ASSUME S # {} PROVE FALSE
    OBVIOUS
  <2>1. PICK x \in S : Parent[x] \notin S
    <3>1. S \in SUBSET Blocks
      OBVIOUS
    <3> QED
      BY <3>1, IndexSyncAssumption
  <2>2. x \in Blocks /\ x \in Nodes /\ Parent[x] \in Nodes
    BY Parents
  <2>3. x \notin Path[t]
    <3> SUFFICES ASSUME x \in Path[t] PROVE FALSE
      OBVIOUS
    <3>1. Path[x] \subseteq Path[t]
      BY PathTrans
    <3>2. Path[x] \cap Path[t] = Path[x]
      BY <3>1
    <3> QED
      BY <2>1, <2>2, <3>2
  <2>4. Path[x] \cap Path[t] = Path[Parent[x]] \cap Path[t]
    BY <2>2, <2>3, PathStep
  <2>5. CASE Parent[x] = NoBlock
    <3>1. Path[Parent[x]] \cap Path[t] = Path[NoBlock]
      BY <2>5, PathNone
    <3> QED
      BY <2>1, <2>4, <3>1, Parents
  <2>6. CASE Parent[x] \in Blocks
    <3>1. PICK f \in Nodes : Path[Parent[x]] \cap Path[t] = Path[f]
      BY <2>1, <2>6
    <3> QED
      BY <2>1, <2>4, <3>1
  <2> QED
    BY <2>2, <2>5, <2>6 DEF Nodes
<1>2. PICK f \in Nodes : Path[b] \cap Path[t] = Path[f]
  <2>1. CASE b = NoBlock
    <3>1. Path[b] \cap Path[t] = Path[NoBlock]
      BY <2>1, PathNone
    <3> QED
      BY <3>1, Parents
  <2>2. CASE b \in Blocks
    <3>1. b \notin S
      BY <1>1
    <3> QED
      BY <2>2, <3>1
  <2> QED
    BY <2>1, <2>2 DEF Nodes
<1>3. FindFork(b, t) = f
  BY <1>2, LastOfPath DEF FindFork
<1> QED
  BY <1>2, <1>3

\* A block whose parent is on the chain of f, and which is not, above f.
LEMMA OnTop ==
    ASSUME NEW t \in Nodes, NEW f \in Nodes, Path[f] \subseteq Path[t],
           NEW x \in Path[t], x \notin Path[f], Parent[x] \in Path[f] \cup {NoBlock}
    PROVE  Parent[x] = f
<1>1. x \in Blocks
  BY PathTrans
<1>2. CASE f = NoBlock
  BY <1>2, PathNone
<1>3. CASE f \in Blocks
  <2>1. f \in Path[f] /\ f \in Path[t]
    BY <1>3, PathHas
  <2>2. f \in Path[x] /\ f # x
    BY <2>1, PathLinear
  <2>3. f \in Path[Parent[x]]
    BY <1>1, <2>2, PathStep
  <2>4. Parent[x] # NoBlock
    BY <2>3, PathNone
  <2>5. Parent[x] \in Path[f] /\ Parent[x] \in Blocks
    BY <1>1, <2>4, Parents DEF Nodes
  <2> QED
    BY <1>3, <2>3, <2>5, PathAnti
<1> QED
  BY <1>2, <1>3 DEF Nodes

\* CChain::Next: the block above f.
LEMMA AboveFork ==
    ASSUME NEW t \in Nodes, NEW f \in Nodes, Path[f] \subseteq Path[t], f # t
    PROVE  Above(f, t) \in Path[t] /\ Parent[Above(f, t)] = f /\ Above(f, t) \notin Path[f]
<1> DEFINE S == Path[t] \ Path[f]
<1>1. S \in SUBSET Blocks
  BY PathBlocks
<1>2. S # {}
  <2>1. S = {} => Path[f] = Path[t]
    OBVIOUS
  <2> QED
    BY <2>1, PathEqual
<1>3. PICK x \in S : Parent[x] \notin S
  BY <1>1, <1>2, IndexSyncAssumption
<1>4. t \in Blocks
  BY <1>3, PathTrans
<1>5. HasParents(Path[t])
  BY <1>4, PathHas
<1>6. Parent[x] \in Path[f] \cup {NoBlock}
  BY <1>3, <1>5 DEF HasParents
<1>7. Parent[x] = f
  BY <1>6, OnTop
<1> DEFINE a == CHOOSE b \in Path[t] : Parent[b] = f
<1>8. a \in Path[t] /\ Parent[a] = f
  BY <1>7
<1>9. a \in Blocks
  BY <1>8, PathTrans
<1>10. a \notin Path[f]
  BY <1>8, <1>9, NoCycle
<1> QED
  BY <1>8, <1>10 DEF Above

\* NextSyncBlock: the block above the fork with the chain, unless the chain's tip has
\* been reached.
LEMMA NextBlock ==
    ASSUME NEW p \in Nodes, tip \in Nodes
    PROVE  /\ NextSyncBlock(p) \in Path[tip] \cup {NoBlock}
           /\ NextSyncBlock(p) = NoBlock <=> Path[tip] \subseteq Path[p]
           /\ NextSyncBlock(p) # NoBlock =>
                 Path[Parent[NextSyncBlock(p)]] = Path[p] \cap Path[tip]
<1> DEFINE f == FindFork(p, tip)
<1>1. f \in Nodes /\ Path[f] = Path[p] \cap Path[tip]
  BY Fork
<1>2. NextSyncBlock(p) = Above(f, tip)
  BY DEF NextSyncBlock
<1> HIDE DEF f
<1>3. CASE f = tip
  <2>1. Path[tip] \subseteq Path[p]
    BY <1>1, <1>3
  <2> QED
    BY <1>2, <1>3, <2>1 DEF Above
<1>4. CASE f # tip
  <2>1. Above(f, tip) \in Path[tip] /\ Parent[Above(f, tip)] = f
    BY <1>1, <1>4, AboveFork
  <2>2. Above(f, tip) # NoBlock
    BY <2>1, PathBlocks, Parents
  <2>3. ~(Path[tip] \subseteq Path[p])
    <3> SUFFICES ASSUME Path[tip] \subseteq Path[p] PROVE FALSE
      OBVIOUS
    <3>1. Path[f] = Path[tip]
      BY <1>1
    <3> QED
      BY <1>1, <1>4, <3>1, PathEqual
  <2> QED
    BY <1>1, <1>2, <2>1, <2>2, <2>3
<1> QED
  BY <1>3, <1>4

\* Chains are finite.
LEMMA PathFinite ==
    ASSUME NEW b \in Nodes
    PROVE  IsFiniteSet(Path[b]) /\ Cardinality(Path[b]) \in Nat
           /\ Cardinality(Path[b]) <= Cardinality(Blocks) /\ Cardinality(Blocks) \in Nat
<1>1. IsFiniteSet(Blocks) /\ Path[b] \in SUBSET Blocks
  BY PathBlocks, IndexSyncAssumption
<1>2. IsFiniteSet(Path[b]) /\ Cardinality(Path[b]) <= Cardinality(Blocks)
  BY <1>1, FS_Subset
<1>3. Cardinality(Path[b]) \in Nat /\ Cardinality(Blocks) \in Nat
  BY <1>1, <1>2, FS_CardinalityType
<1> QED
  BY <1>2, <1>3

\* nHeight.
LEMMA HeightNone == Height(NoBlock) = -1
<1>1. Cardinality(Path[NoBlock]) = 0
  BY PathNone, FS_EmptySet
<1> QED
  BY <1>1, SMTT(30) DEF Height

\* A block is one higher than its parent.
LEMMA HeightStep ==
    ASSUME NEW b \in Blocks
    PROVE  Height(b) \in Heights /\ Height(b) \in Nat /\ Height(Parent[b]) = Height(b) - 1
<1>1. Parent[b] \in Nodes /\ b \in Nodes
  BY Parents
<1>2. IsFiniteSet(Path[Parent[b]]) /\ Cardinality(Path[Parent[b]]) \in Nat
  BY <1>1, PathFinite
<1>3. Path[b] = Path[Parent[b]] \cup {b} /\ b \notin Path[Parent[b]]
  BY PathStep, NoCycle
<1>4. Cardinality(Path[b]) = Cardinality(Path[Parent[b]]) + 1
  BY <1>2, <1>3, FS_AddElement
<1>5. Cardinality(Path[b]) <= Cardinality(Blocks) /\ Cardinality(Blocks) \in Nat
  BY <1>1, PathFinite
<1> QED
  BY <1>2, <1>4, <1>5, SMTT(30) DEF Height, Heights

\* What a height is.
LEMMA HeightType ==
    ASSUME NEW b \in Nodes
    PROVE  Height(b) \in Int /\ Height(b) >= -1 /\ (b # NoBlock => Height(b) >= 0)
<1>1. CASE b = NoBlock
  BY <1>1, HeightNone, SMTT(30)
<1>2. CASE b \in Blocks
  <2>1. Height(b) \in Nat
    BY <1>2, HeightStep
  <2> QED
    BY <2>1, SMTT(30)
<1> QED
  BY <1>1, <1>2 DEF Nodes

\* Ancestors are lower.
LEMMA HeightLess ==
    ASSUME NEW b \in Nodes, NEW a \in Nodes, Path[a] \subseteq Path[b]
    PROVE  Height(a) <= Height(b) /\ (a # b => Height(a) < Height(b))
<1>1. IsFiniteSet(Path[b]) /\ Cardinality(Path[b]) \in Nat /\ Cardinality(Path[a]) \in Nat
  BY PathFinite
<1>2. /\ Cardinality(Path[a]) <= Cardinality(Path[b])
      /\ Cardinality(Path[b]) = Cardinality(Path[a]) => Path[b] = Path[a]
  BY <1>1, FS_Subset
<1>3. Path[b] = Path[a] => a = b
  BY PathEqual
<1>4. a # b => Cardinality(Path[b]) # Cardinality(Path[a])
  BY <1>2, <1>3
<1> QED
  BY <1>1, <1>2, <1>4, SMTT(30) DEF Height

\* A chain has one block at a height.
LEMMA HeightOnly ==
    ASSUME NEW b \in Nodes, NEW a \in Path[b], NEW c \in Path[b], Height(a) = Height(c)
    PROVE  a = c
<1>1. a \in Blocks /\ c \in Blocks /\ a \in Nodes /\ c \in Nodes
  BY PathTrans, Parents
<1>2. CASE a \in Path[c]
  <2>1. Path[a] \subseteq Path[c]
    BY <1>1, <1>2, PathTrans
  <2>2. a # c => Height(a) < Height(c)
    BY <1>1, <2>1, HeightLess
  <2>3. Height(a) \in Int
    BY <1>1, HeightType
  <2> QED
    BY <2>2, <2>3, SMTT(30)
<1>3. CASE c \in Path[a]
  <2>1. Path[c] \subseteq Path[a]
    BY <1>1, <1>3, PathTrans
  <2>2. a # c => Height(c) < Height(a)
    BY <1>1, <2>1, HeightLess
  <2>3. Height(a) \in Int
    BY <1>1, HeightType
  <2> QED
    BY <2>2, <2>3, SMTT(30)
<1> QED
  BY <1>2, <1>3, PathLinear

\* And it has one at every height above f.
LEMMA AtHeight ==
    ASSUME NEW t \in Nodes, NEW f \in Nodes, Path[f] \subseteq Path[t],
           NEW h \in Int, Height(f) < h, h <= Height(t)
    PROVE  \E b \in Path[t] \ Path[f] : Height(b) = h
<1> DEFINE S == {c \in Path[t] : Height(c) >= h}
<1>1. Height(f) \in Int /\ Height(f) >= -1 /\ Height(t) \in Int
  BY HeightType
<1>2. t \in Blocks
  <2>1. t # NoBlock
    BY <1>1, HeightNone, SMTT(30)
  <2> QED
    BY <2>1 DEF Nodes
<1>3. t \in S
  <2>1. Height(t) >= h
    BY <1>1, SMTT(30)
  <2> QED
    BY <1>2, <2>1, PathHas
<1>4. S \in SUBSET Blocks
  BY PathBlocks
<1>5. PICK x \in S : Parent[x] \notin S
  BY <1>3, <1>4, IndexSyncAssumption
<1>6. x \in Blocks /\ x \in Path[t] /\ Height(x) >= h
  BY <1>4, <1>5
<1>7. Height(x) \in Nat /\ Height(Parent[x]) = Height(x) - 1
  BY <1>6, HeightStep
<1>8. ~(Height(Parent[x]) >= h)
  <2>1. CASE Parent[x] = NoBlock
    <3>1. Height(Parent[x]) = -1
      BY <2>1, HeightNone
    <3> QED
      BY <1>1, <3>1, SMTT(30)
  <2>2. CASE Parent[x] # NoBlock
    <3>1. Parent[x] \in Path[t]
      BY <1>2, <1>6, <2>2, PathHas DEF HasParents
    <3> QED
      BY <1>5, <3>1
  <2> QED
    BY <2>1, <2>2
<1>9. Height(x) = h
  BY <1>6, <1>7, <1>8, SMTT(30)
<1>10. x \notin Path[f]
  <2> SUFFICES ASSUME x \in Path[f] PROVE FALSE
    OBVIOUS
  <2>1. x \in Nodes /\ Path[x] \subseteq Path[f]
    BY PathTrans, Parents
  <2>2. Height(x) <= Height(f)
    BY <2>1, HeightLess
  <2> QED
    BY <1>1, <1>9, <2>2, SMTT(30)
<1> QED
  BY <1>6, <1>9, <1>10

\* The events of a move: the blocks of the new chain above the fork, each the parent of
\* the next.
LEMMA ConnectedBlocks ==
    ASSUME NEW t \in Nodes, NEW u \in Nodes, Path[t] \ Path[u] # {}
    PROVE  \E n \in Nat \ {0} : \E B \in [1..n -> Blocks] :
              /\ Connected(Path[t] \ Path[u]) = [i \in 1..n |-> [type |-> "connected", block |-> B[i]]]
              /\ \A i \in 1..n : B[i] \in Path[t] \ Path[u]
              /\ B[n] = t
              /\ Parent[B[1]] \in Nodes /\ Path[Parent[B[1]]] = Path[t] \cap Path[u]
              /\ \A i \in 2..n : Parent[B[i]] = B[i - 1]
<1> DEFINE S == Path[t] \ Path[u]
           f == FindFork(t, u)
           low == CHOOSE g \in {Parent[b] : b \in S} : g \notin S
           n == Cardinality(S)
           B == [i \in 1..n |-> CHOOSE b \in S : Height(b) = Height(low) + i]
<1>1. f \in Nodes /\ Path[f] = Path[t] \cap Path[u]
  BY Fork
<1>2. Connected(S) = [i \in 1..n |-> [type |-> "connected", block |-> CHOOSE b \in S : Height(b) = Height(low) + i]]
  BY DEF Connected
<1> HIDE DEF f
<1>3. S = Path[t] \ Path[f] /\ Path[f] \subseteq Path[t] /\ f # t /\ S # {}
  BY <1>1
<1>4. t \in Blocks
  BY <1>3, PathTrans
<1>5. /\ Above(f, t) \in Path[t] /\ Parent[Above(f, t)] = f /\ Above(f, t) \notin Path[f]
  BY <1>1, <1>3, AboveFork
<1>6. f \notin S
  <2>1. f \in Path[f] \/ f = NoBlock
    BY <1>1, PathHas DEF Nodes
  <2>2. NoBlock \notin S
    BY PathBlocks, Parents
  <2> QED
    BY <1>3, <2>1, <2>2
<1>7. \A g \in {Parent[b] : b \in S} : g \notin S => g = f
  <2> SUFFICES ASSUME NEW b \in S, Parent[b] \notin S PROVE Parent[b] = f
    OBVIOUS
  <2>1. Parent[b] \in Path[t] \cup {NoBlock}
    BY <1>4, PathHas DEF HasParents
  <2>2. Parent[b] \in Path[f] \cup {NoBlock}
    BY <1>3, <2>1
  <2>3. b \in Path[t] /\ b \notin Path[f]
    BY <1>3
  <2> QED
    BY <1>1, <1>3, <2>2, <2>3, OnTop
<1>8. low = f
  <2>1. f \in {Parent[b] : b \in S}
    BY <1>3, <1>5
  <2>2. \E g \in {Parent[b] : b \in S} : g \notin S
    BY <1>6, <2>1
  <2>3. low \in {Parent[b] : b \in S} /\ low \notin S
    BY <2>2
  <2> QED
    BY <1>7, <2>3
<1>9. n \in Nat \ {0} /\ n = Height(t) - Height(f)
  <2>1. /\ IsFiniteSet(Path[t]) /\ Cardinality(Path[t]) \in Nat
        /\ IsFiniteSet(Path[f]) /\ Cardinality(Path[f]) \in Nat
    BY <1>1, PathFinite
  <2>2. Path[t] \cap Path[f] = Path[f]
    BY <1>3
  <2>3. IsFiniteSet(S) /\ n = Cardinality(Path[t]) - Cardinality(Path[f])
    <3>1. /\ IsFiniteSet(Path[t] \ Path[f])
          /\ Cardinality(Path[t] \ Path[f]) = Cardinality(Path[t]) - Cardinality(Path[t] \cap Path[f])
      BY <2>1, FS_Difference
    <3> QED
      BY <1>3, <2>2, <3>1
  <2>4. n \in Nat /\ n # 0
    <3>1. IsFiniteSet(S) /\ S # {}
      BY <1>3, <2>3
    <3> HIDE DEF S
    <3> QED
      BY <3>1, FS_CardinalityType, FS_EmptySet
  <2> QED
    BY <2>1, <2>3, <2>4, SMTT(30) DEF Height
<1> HIDE DEF n, low
<1>10. Height(f) \in Int /\ Height(t) \in Int
  BY <1>1, HeightType
<1>11. ASSUME NEW i \in 1..n PROVE B[i] \in S /\ Height(B[i]) = Height(f) + i
  <2>1. Height(f) + i \in Int /\ Height(f) < Height(f) + i /\ Height(f) + i <= Height(t)
    BY <1>9, <1>10, SMTT(30)
  <2>2. \E b \in S : Height(b) = Height(f) + i
    <3>1. \E b \in Path[t] \ Path[f] : Height(b) = Height(f) + i
      BY <1>1, <1>3, <2>1, AtHeight
    <3> HIDE DEF S
    <3> QED
      BY <1>3, <3>1
  <2> DEFINE c == CHOOSE b \in S : Height(b) = Height(f) + i
  <2>3. B[i] = c
    BY <1>8, SMTT(30)
  <2>4. c \in S /\ Height(c) = Height(f) + i
    BY <2>2
  <2> HIDE DEF c, B
  <2> QED
    BY <2>3, <2>4
<1>12. Connected(S) = [i \in 1..n |-> [type |-> "connected", block |-> B[i]]]
  BY <1>2
<1>13. B \in [1..n -> Blocks]
  <2>1. S \subseteq Blocks
    BY PathBlocks
  <2>2. \A i \in 1..n : B[i] \in Blocks
    BY <1>11, <2>1
  <2> QED
    BY <2>2
<1> HIDE DEF B
<1>14. ASSUME NEW i \in 1..n, NEW b \in S, Height(b) = Height(f) + i PROVE b = B[i]
  <2>1. Height(b) = Height(B[i]) /\ B[i] \in S
    BY <1>11, <1>14
  <2> QED
    BY <2>1, HeightOnly
<1>15. 1 \in 1..n /\ n \in 1..n /\ Height(t) = Height(f) + n
  BY <1>9, <1>10, SMTT(30)
<1>16. B[n] = t
  <2>1. t \in S
    <3>1. t \in Path[t]
      BY <1>4, PathHas
    <3>2. t \notin Path[f]
      <4> SUFFICES ASSUME t \in Path[f] PROVE FALSE
        OBVIOUS
      <4>1. Path[t] \subseteq Path[f]
        BY <1>1, PathTrans
      <4> QED
        BY <1>3, <4>1
    <3> QED
      BY <1>3, <3>1, <3>2
  <2> QED
    BY <1>14, <1>15, <2>1
<1>17. Parent[B[1]] = f
  <2>1. Above(f, t) \in S /\ Above(f, t) \in Blocks
    BY <1>3, <1>5, PathTrans
  <2>2. Height(f) = Height(Above(f, t)) - 1 /\ Height(Above(f, t)) \in Nat
    BY <1>5, <2>1, HeightStep
  <2>3. Height(Above(f, t)) = Height(f) + 1
    BY <1>10, <2>2, SMTT(30)
  <2>4. Above(f, t) = B[1]
    BY <1>14, <1>15, <2>1, <2>3
  <2> QED
    BY <1>5, <2>4
<1>18. ASSUME NEW i \in 2..n PROVE Parent[B[i]] = B[i - 1]
  <2> DEFINE c == B[i - 1]
  <2>1. i \in 1..n /\ i - 1 \in 1..n
    BY <1>9, SMTT(30)
  <2>2. c \in S /\ Height(c) = Height(f) + (i - 1)
    BY <1>11, <2>1
  <2> HIDE DEF c
  <2>3. c \in Nodes /\ c \in Blocks /\ Path[c] \subseteq Path[t]
    BY <2>2, PathTrans, Parents
  <2>4. Height(c) # Height(t) /\ Height(c) >= Height(f)
    BY <1>9, <1>10, <2>2, SMTT(30)
  <2>5. Above(c, t) \in Path[t] /\ Parent[Above(c, t)] = c
    BY <2>3, <2>4, AboveFork
  <2>6. Above(c, t) \in Blocks /\ Above(c, t) \in Nodes
    BY <2>5, PathTrans, Parents
  <2>7. Height(c) = Height(Above(c, t)) - 1 /\ Height(Above(c, t)) \in Nat
    BY <2>5, <2>6, HeightStep
  <2>8. Height(Above(c, t)) = Height(f) + i /\ ~(Height(Above(c, t)) <= Height(f))
    BY <1>10, <2>2, <2>7, SMTT(30)
  <2>9. Above(c, t) \notin Path[f]
    <3> SUFFICES ASSUME Above(c, t) \in Path[f] PROVE FALSE
      OBVIOUS
    <3>1. Path[Above(c, t)] \subseteq Path[f]
      BY <1>1, PathTrans
    <3> QED
      BY <1>1, <2>6, <2>8, <3>1, HeightLess
  <2>10. Above(c, t) \in S
    BY <1>3, <2>5, <2>9
  <2>11. Above(c, t) = B[i]
    BY <1>14, <2>1, <2>8, <2>10
  <2>12. Parent[B[i]] = c
    BY <2>5, <2>11
  <2> QED
    BY <2>12 DEF c
<1>19. Parent[B[1]] \in Nodes /\ Path[Parent[B[1]]] = Path[t] \cap Path[u]
  BY <1>1, <1>17
<1>20. \A i \in 1..n : B[i] \in S
  BY <1>11
<1>21. \A i \in 2..n : Parent[B[i]] = B[i - 1]
  BY <1>18
<1> QED
  BY <1>9, <1>12, <1>13, <1>16, <1>19, <1>20, <1>21

-----------------------------------------------------------------------------
(* Sequences.                                                              *)

\* A sequence is a function.
LEMMA LenProperties ==
    ASSUME NEW S, NEW s \in Seq(S)
    PROVE  Len(s) \in Nat /\ DOMAIN s = 1..Len(s) /\ s \in [1..Len(s) -> S]
BY SMTT(30)

\* And a function is a sequence.
LEMMA SeqOf ==
    ASSUME NEW S, NEW n \in Nat, NEW s \in [1..n -> S]
    PROVE  s \in Seq(S) /\ Len(s) = n
BY SMTT(30)

\* The empty sequence.
LEMMA EmptySeq ==
    ASSUME NEW S
    PROVE  /\ <<>> \in Seq(S) /\ Len(<<>>) = 0 /\ 1..Len(<<>>) = {}
           /\ \A s \in Seq(S) : s # <<>> => Len(s) \in Nat \ {0} /\ 1 \in 1..Len(s)
BY SMTT(30)

\* A sequence of one element.
LEMMA OneSeq ==
    ASSUME NEW S, NEW e \in S
    PROVE  <<e>> \in Seq(S) /\ Len(<<e>>) = 1 /\ <<e>>[1] = e /\ 1..Len(<<e>>) = {1}
BY SMTT(30)

\* The first element, and the others.
LEMMA HeadTailProperties ==
    ASSUME NEW S, NEW s \in Seq(S), s # <<>>
    PROVE  /\ Head(s) = s[1] /\ s[1] \in S
           /\ Tail(s) \in Seq(S) /\ Len(Tail(s)) = Len(s) - 1
           /\ \A i \in 1..Len(Tail(s)) : Tail(s)[i] = s[i + 1] /\ i + 1 \in 1..Len(s) /\ i + 1 # 1
BY SMTT(30)

\* One sequence behind another.
LEMMA ConcatProperties ==
    ASSUME NEW S, NEW s \in Seq(S), NEW t \in Seq(S)
    PROVE  /\ s \o t \in Seq(S) /\ Len(s \o t) = Len(s) + Len(t)
           /\ \A i \in 1..(Len(s) + Len(t)) :
                 (s \o t)[i] = IF i <= Len(s) THEN s[i] ELSE t[i - Len(s)]
BY SMTT(30)

-----------------------------------------------------------------------------
(* Where the thread, the callback and the chain are.                       *)

Event == [type : {"connected", "flushed", "promise"}, block : Blocks]

TypeInv ==
    /\ tip \in Nodes /\ diskTip \in Nodes /\ best \in Nodes /\ pindex \in Nodes
    /\ batchBest \in Nodes /\ event \in Nodes /\ locator \in Nodes
    /\ queue \in Seq(Event)

\* The thread runs until m_synced is set, and the callbacks after that.
ControlInv ==
    /\ pc \in {"loop", "locator", "write", "rewind", "failed"} => ~synced
    /\ pc \in Final => synced /\ best # NoBlock
    /\ hpc # "idle" => synced /\ event # NoBlock /\ best = Parent[event]
    /\ hpc = "idle" => event = NoBlock
    /\ pc \in {"locator", "write", "failed"} => pindex # NoBlock
    /\ pc = "rewind" => NextSyncBlock(pindex) # NoBlock

\* Only an index that was switched on before there was a chain meets the genesis block in
\* an event, and then it meets it first.
StartInv ==
    /\ tip = NoBlock => queue = <<>> /\ best = NoBlock /\ synced /\ event = NoBlock /\ pc = "done"
    /\ \A i \in 1..Len(queue) : queue[i].type = "promise" => synced
    /\ \A i \in 1..Len(queue) : queue[i].type = "connected" /\ queue[i].block = Genesis =>
          i = 1 /\ synced /\ best = NoBlock /\ event = NoBlock
    /\ synced /\ best = NoBlock /\ event = NoBlock /\ tip # NoBlock =>
          queue # <<>> /\ queue[1].type = "connected" /\ queue[1].block = Genesis

CInv == TypeInv /\ ControlInv /\ StartInv

\* A rewind of the thread goes back to a block below its own.
LEMMA SyncFork ==
    ASSUME tip \in Nodes, pindex \in Nodes, NextSyncBlock(pindex) # NoBlock
    PROVE  LET next == NextSyncBlock(pindex) IN
           /\ next \in Blocks /\ next \in Path[tip] /\ Parent[next] \in Nodes
           /\ Path[Parent[next]] \subseteq Path[pindex]
           /\ Parent[next] # pindex => pindex \in Blocks /\ Parent[next] \in Path[pindex]
<1> DEFINE next == NextSyncBlock(pindex)
<1>1. next \in Path[tip] /\ Path[Parent[next]] = Path[pindex] \cap Path[tip]
  BY NextBlock
<1> HIDE DEF next
<1>2. tip \in Blocks /\ next \in Blocks /\ Parent[next] \in Nodes
  BY <1>1, PathTrans, Parents
<1>3. CASE pindex = NoBlock
  <2>1. Path[Parent[next]] = {}
    BY <1>1, <1>3, PathNone
  <2>2. Parent[next] \notin Blocks
    BY <2>1, PathHas
  <2>3. Parent[next] = pindex
    BY <1>2, <1>3, <2>2 DEF Nodes
  <2> QED
    BY <1>1, <1>2, <2>3 DEF next
<1>4. CASE pindex \in Blocks
  <2>1. Genesis \in Path[Parent[next]]
    BY <1>1, <1>2, <1>4, GenesisBelow
  <2>2. Parent[next] \in Blocks
    BY <1>2, <2>1, PathTrans
  <2>3. Parent[next] \in Path[Parent[next]]
    BY <2>2, PathHas
  <2> QED
    BY <1>1, <1>2, <1>4, <2>3 DEF next
<1> QED
  BY <1>3, <1>4 DEF Nodes

\* What BlockConnected does: the block is not for the index, ...
Ignored(b) ==
    /\ ~synced \/ (best # NoBlock /\ ~Connects(b))
    /\ UNCHANGED <<best, event, hpc, fatal, disk, left>>

\* ... the copy fails, ...
Uncopied(b) ==
    /\ synced /\ best \in Blocks /\ Parent[b] \in Path[best] /\ ~CanCopy(best, Parent[b])
    /\ fatal' = TRUE
    /\ UNCHANGED <<best, event, hpc, disk, left>>

\* ... or the block is on top of the index, with or without a rewind.
Taken(b) ==
    /\ synced /\ event' = b /\ best' = Parent[b]
    /\ best # NoBlock => Parent[b] # NoBlock
    /\ Path[Parent[b]] \subseteq Path[best]
    /\ \/ best = Parent[b] /\ hpc' = "write" /\ UNCHANGED <<disk, left>>
       \/ /\ best \in Blocks /\ Parent[b] \in Path[best]
          /\ hpc' = "commit" /\ CopyOut(best, Parent[b])
    /\ UNCHANGED fatal

\* BlockConnected does one of the three.
LEMMA BlockConnectedSteps ==
    ASSUME CInv, BlockConnected
    PROVE  \E b \in Blocks :
              /\ hpc = "idle" /\ event = NoBlock
              /\ queue # <<>> /\ queue[1].type = "connected" /\ queue[1].block = b
              /\ queue' = Tail(queue)
              /\ UNCHANGED <<tip, diskTip, timed, batchPos, batchBest, synced, pindex, pc, pos, ahead, early, gap>>
              /\ Ignored(b) \/ Uncopied(b) \/ Taken(b)
<1> DEFINE b == Head(queue).block
           rewinds == best # Parent[b]
<1>1. /\ hpc = "idle" /\ queue # <<>> /\ Head(queue).type = "connected" /\ queue' = Tail(queue)
      /\ UNCHANGED <<tip, diskTip, timed, batchPos, batchBest, synced, pindex, pc, pos, ahead, early, gap>>
  BY DEF BlockConnected, NextIs, Delivered, batch
<1>2. event = NoBlock
  BY <1>1 DEF CInv, ControlInv
<1>3. Head(queue) = queue[1] /\ queue[1] \in Event /\ 1 \in 1..Len(queue)
  BY <1>1, HeadTailProperties, EmptySeq DEF CInv, TypeInv
<1>4. b \in Blocks /\ queue[1].type = "connected" /\ queue[1].block = b
  BY <1>1, <1>3 DEF Event
<1>5. tip # NoBlock
  BY <1>1 DEF CInv, StartInv
<1>6. best # NoBlock => b # Genesis
  BY <1>3, <1>4 DEF CInv, StartInv
<1>7. synced /\ best = NoBlock => b = Genesis
  BY <1>2, <1>3, <1>4, <1>5 DEF CInv, StartInv
<1>8. best \in Nodes /\ Parent[b] \in Nodes /\ (Parent[b] = NoBlock <=> b = Genesis)
  BY <1>4, Parents DEF CInv, TypeInv
<1>9. CASE ~synced \/ (best # NoBlock /\ ~Connects(b))
  <2>1. Ignored(b)
    BY <1>9 DEF BlockConnected, Ignored
  <2> QED
    BY <1>1, <1>2, <1>4, <2>1
<1>10. CASE synced /\ (best = NoBlock \/ Connects(b))
  <2>1. best = NoBlock => Parent[b] = best
    BY <1>7, <1>8, <1>10
  <2>2. best # NoBlock => best \in Blocks /\ Parent[b] # NoBlock /\ Parent[b] \in Path[best]
    BY <1>6, <1>8, <1>10 DEF Connects, Nodes
  <2>3. Path[Parent[b]] \subseteq Path[best]
    BY <1>8, <2>1, <2>2, PathTrans
  <2>4. CASE rewinds /\ ~CanCopy(best, Parent[b])
    <3>1. fatal' = TRUE /\ UNCHANGED <<best, event, hpc, disk, left>>
      BY <1>10, <2>4 DEF BlockConnected, FatalError
    <3>2. Uncopied(b)
      BY <1>10, <2>1, <2>2, <2>4, <3>1 DEF Uncopied
    <3> QED
      BY <1>1, <1>2, <1>4, <3>2
  <2>5. CASE ~(rewinds /\ ~CanCopy(best, Parent[b]))
    <3>1. /\ event' = b /\ best' = Parent[b] /\ UNCHANGED fatal
          /\ IF rewinds THEN CopyOut(best, Parent[b]) /\ hpc' = "commit"
                        ELSE UNCHANGED <<disk, left>> /\ hpc' = "write"
      BY <1>7, <1>10, <2>5 DEF BlockConnected
    <3>2. Taken(b)
      BY <1>10, <2>1, <2>2, <2>3, <3>1 DEF Taken
    <3> QED
      BY <1>1, <1>2, <1>4, <3>2
  <2> QED
    BY <2>4, <2>5
<1> QED
  BY <1>9, <1>10

\* A move of the chain: the events queued, behind those of at most one flush.
MoveEvents(t) == IF Path[t] \ Path[tip] = {} THEN <<>> ELSE Connected(Path[t] \ Path[tip])

\* What a move changes.
LEMMA MoveSteps ==
    ASSUME NEW t \in Blocks, tip \in Nodes, diskTip \in Nodes, MoveTo(t),
           tip = NoBlock => t = Genesis
    PROVE  /\ pc # "rewind" /\ tip' = t /\ diskTip' \in Nodes
           /\ UNCHANGED <<memory, disk, history>>
           /\ \/ queue' = queue \o MoveEvents(t)
              \/ \E c \in Blocks :
                    /\ tip # NoBlock
                    /\ queue' = (queue \o <<[type |-> "flushed", block |-> c]>>) \o MoveEvents(t)
<1>1. pc # "rewind" /\ tip' = t /\ UNCHANGED <<memory, disk, history>>
  BY DEF MoveTo, MainFree, Final
<1>2. CASE queue' = queue \o MoveEvents(t) /\ UNCHANGED <<diskTip, flushes>>
  BY <1>1, <1>2
<1>3. CASE \E f \in FlushInMove(t) : /\ CountFlush /\ diskTip' = f.coins
                                     /\ queue' = queue \o FlushEvent(f) \o MoveEvents(t)
  <2>1. PICK f \in FlushInMove(t) : diskTip' = f.coins /\ queue' = queue \o FlushEvent(f) \o MoveEvents(t)
    BY <1>3
  <2>2. \E b \in Blocks : /\ b # Genesis /\ b \in Path[tip] \cup Path[t]
                          /\ \/ f = [coins |-> Parent[b], named |-> b]
                             \/ f = [coins |-> b, named |-> Parent[b]]
    <3>1. t \in Nodes
      BY Parents
    <3> QED
      BY <2>1, <3>1, PathBlocks DEF FlushInMove
  <2>3. PICK b \in Blocks : /\ b # Genesis /\ b \in Path[tip] \cup Path[t]
                            /\ \/ f = [coins |-> Parent[b], named |-> b]
                               \/ f = [coins |-> b, named |-> Parent[b]]
    BY <2>2
  <2>4. Parent[b] \in Blocks /\ b \in Nodes
    BY <2>3, Parents DEF Nodes
  <2>5. f.coins \in Nodes /\ f.named \in Blocks
    BY <2>3, <2>4, Parents, SMTT(30)
  <2>6. tip # NoBlock
    <3> SUFFICES ASSUME tip = NoBlock PROVE FALSE
      OBVIOUS
    <3>1. b \in Path[Genesis] /\ Genesis \in Blocks
      BY <2>3, PathNone, Parents
    <3>2. Path[Genesis] = Path[NoBlock] \cup {Genesis}
      BY <3>1, PathStep, Parents
    <3> QED
      BY <2>3, <3>1, <3>2, PathNone
  <2>7. queue' = (queue \o <<[type |-> "flushed", block |-> f.named]>>) \o MoveEvents(t)
    BY <2>1 DEF FlushEvent
  <2> QED
    BY <1>1, <2>1, <2>5, <2>6, <2>7
<1> QED
  BY <1>2, <1>3 DEF MoveTo, MoveEvents

\* ActivateBestChain and InvalidateBlock are such moves.
LEMMA Moves ==
    ASSUME tip \in Nodes,
           (\E t \in Blocks : ActivateBestChain(t)) \/ InvalidateBlock
    PROVE  \E t \in Blocks : MoveTo(t) /\ (tip = NoBlock => t = Genesis)
<1>1. CASE InvalidateBlock
  <2>1. tip \in Blocks /\ tip # Genesis /\ MoveTo(Parent[tip])
    BY <1>1 DEF InvalidateBlock, Nodes
  <2>2. Parent[tip] \in Blocks /\ tip # NoBlock
    BY <2>1, Parents DEF Nodes
  <2> QED
    BY <2>1, <2>2
<1>2. ASSUME NEW t \in Blocks, ActivateBestChain(t)
      PROVE  MoveTo(t) /\ (tip = NoBlock => t = Genesis)
  <2>1. MoveTo(t) /\ (Height(t) = Height(tip) + 1 \/ Height(t) = Height(tip))
    BY <1>2 DEF ActivateBestChain
  <2>2. ASSUME tip = NoBlock PROVE t = Genesis
    <3>1. Height(t) \in Nat /\ Height(Parent[t]) = Height(t) - 1
      BY HeightStep
    <3>2. Height(t) = -1 + 1 \/ Height(t) = -1
      BY <2>1, <2>2, HeightNone
    <3>3. Height(Parent[t]) = -1
      BY <3>1, <3>2, SMTT(30)
    <3>4. Parent[t] \in Nodes /\ ~(Height(Parent[t]) >= 0)
      BY <3>3, Parents, SMTT(30)
    <3>5. Parent[t] = NoBlock
      BY <3>4, HeightType
    <3> QED
      BY <3>5, Parents
  <2> QED
    BY <2>1, <2>2
<1> QED
  BY <1>1, <1>2

\* The events of a move are events.
LEMMA MoveEventsType ==
    ASSUME NEW t \in Blocks, tip \in Nodes
    PROVE  /\ MoveEvents(t) \in Seq(Event)
           /\ \A i \in 1..Len(MoveEvents(t)) : MoveEvents(t)[i].type = "connected"
           /\ \A i \in 1..Len(MoveEvents(t)) : MoveEvents(t)[i].block = Genesis => tip = NoBlock /\ i = 1
           /\ tip = NoBlock => MoveEvents(t) # <<>> /\ MoveEvents(t)[1].block = Genesis
<1>1. CASE Path[t] \ Path[tip] = {}
  <2>1. MoveEvents(t) = <<>>
    BY <1>1 DEF MoveEvents
  <2>2. tip # NoBlock
    BY <1>1, PathNone, PathHas
  <2> QED
    BY <2>1, <2>2, EmptySeq
<1>2. CASE Path[t] \ Path[tip] # {}
  <2> DEFINE q == Connected(Path[t] \ Path[tip])
  <2>0. t \in Nodes
    BY Parents
  <2>1. PICK n \in Nat \ {0} : \E B \in [1..n -> Blocks] :
              /\ q = [i \in 1..n |-> [type |-> "connected", block |-> B[i]]]
              /\ \A i \in 1..n : B[i] \in Path[t] \ Path[tip]
              /\ B[n] = t
              /\ Parent[B[1]] \in Nodes /\ Path[Parent[B[1]]] = Path[t] \cap Path[tip]
              /\ \A i \in 2..n : Parent[B[i]] = B[i - 1]
    BY <1>2, <2>0, ConnectedBlocks
  <2>2. PICK B \in [1..n -> Blocks] :
              /\ q = [i \in 1..n |-> [type |-> "connected", block |-> B[i]]]
              /\ \A i \in 1..n : B[i] \in Path[t] \ Path[tip]
              /\ B[n] = t
              /\ Parent[B[1]] \in Nodes /\ Path[Parent[B[1]]] = Path[t] \cap Path[tip]
              /\ \A i \in 2..n : Parent[B[i]] = B[i - 1]
    BY <2>1
  <2>3. MoveEvents(t) = q
    BY <1>2 DEF MoveEvents
  <2> HIDE DEF q
  <2>4. \A i \in 1..n : q[i] = [type |-> "connected", block |-> B[i]] /\ B[i] \in Blocks
    BY <2>2
  <2>5. q \in [1..n -> Event]
    BY <2>2, <2>4 DEF Event
  <2>6. q \in Seq(Event) /\ Len(q) = n
    BY <2>5, SeqOf
  <2>7. ASSUME NEW i \in 1..n PROVE q[i].type = "connected" /\ q[i].block = B[i]
    <3>1. q[i] = [type |-> "connected", block |-> B[i]]
      BY <2>4
    <3> QED
      BY <3>1, SMTT(30)
  <2>8. 1 \in 1..n /\ q # <<>>
    BY <2>6, SMTT(30)
  <2>9. tip = NoBlock => B[1] = Genesis
    <3> SUFFICES ASSUME tip = NoBlock PROVE B[1] = Genesis
      OBVIOUS
    <3>1. Path[Parent[B[1]]] = {}
      BY <2>2, PathNone
    <3>2. Parent[B[1]] \notin Blocks
      BY <3>1, PathHas
    <3>3. Parent[B[1]] = NoBlock
      BY <2>2, <3>2 DEF Nodes
    <3> QED
      BY <2>4, <2>8, <3>3, Parents
  <2>10. ASSUME NEW i \in 1..n, B[i] = Genesis PROVE tip = NoBlock /\ i = 1
    <3>1. tip \notin Blocks
      <4>1. B[i] \notin Path[tip]
        BY <2>2
      <4> QED
        BY <2>10, <4>1, GenesisBelow
    <3>2. i # 1 => i \in 2..n /\ i - 1 \in 1..n
      BY SMTT(30)
    <3>3. i # 1 => Parent[Genesis] \in Blocks
      BY <2>2, <2>4, <2>10, <3>2
    <3>4. Parent[Genesis] = NoBlock
      BY Parents
    <3> QED
      BY <3>1, <3>3, <3>4, Parents DEF Nodes
  <2>11. \A i \in 1..Len(q) : q[i].type = "connected"
    BY <2>6, <2>7
  <2>12. \A i \in 1..Len(q) : q[i].block = Genesis => tip = NoBlock /\ i = 1
    BY <2>6, <2>7, <2>10
  <2>13. tip = NoBlock => q # <<>> /\ q[1].block = Genesis
    BY <2>7, <2>8, <2>9
  <2> QED
    BY <2>3, <2>6, <2>11, <2>12, <2>13
<1> QED
  BY <1>1, <1>2

\* StartInv, when only the index moves; when the thread does; ...
LEMMA StartSame ==
    ASSUME StartInv, UNCHANGED <<tip, queue, best, event, synced>>, tip = NoBlock => pc' = pc
    PROVE  StartInv'
BY DEF StartInv

\* ... when the thread moves; ...
LEMMA StartThread ==
    ASSUME StartInv, ~synced, UNCHANGED <<tip, queue>>, ~synced' \/ best' # NoBlock
    PROVE  StartInv'
BY DEF StartInv

\* ... when an event is delivered; ...
LEMMA StartTail ==
    ASSUME StartInv, queue \in Seq(Event), queue # <<>>, queue' = Tail(queue),
           UNCHANGED <<tip, synced>>, ~(synced /\ best' = NoBlock /\ event' = NoBlock)
    PROVE  StartInv'
<1>1. \A i \in 1..Len(queue') : queue'[i] = queue[i + 1] /\ i + 1 \in 1..Len(queue) /\ i + 1 # 1
  BY HeadTailProperties
<1>2. tip # NoBlock
  BY DEF StartInv
<1>3. ASSUME NEW i \in 1..Len(queue'), queue'[i].type = "promise" PROVE synced'
  <2>1. queue[i + 1].type = "promise" /\ i + 1 \in 1..Len(queue)
    BY <1>1, <1>3
  <2> QED
    BY <2>1 DEF StartInv
<1>4. ASSUME NEW i \in 1..Len(queue'), queue'[i].type = "connected", queue'[i].block = Genesis
      PROVE  FALSE
  <2>1. /\ queue[i + 1].type = "connected" /\ queue[i + 1].block = Genesis
        /\ i + 1 \in 1..Len(queue) /\ i + 1 # 1
    BY <1>1, <1>4
  <2> QED
    BY <2>1 DEF StartInv
<1> QED
  BY <1>2, <1>3, <1>4 DEF StartInv

\* ... when events are queued ...
LEMMA StartGrow ==
    ASSUME StartInv, queue \in Seq(Event), NEW r \in Seq(Event), queue' = queue \o r,
           UNCHANGED <<best, event, synced, pc>>, tip' # NoBlock,
           tip # NoBlock \/ (r # <<>> /\ r[1].type = "connected" /\ r[1].block = Genesis),
           \A i \in 1..Len(r) : r[i].type = "promise" => synced,
           \A i \in 1..Len(r) : r[i].type = "connected" /\ r[i].block = Genesis => tip = NoBlock /\ i = 1
    PROVE  StartInv'
<1>1. /\ Len(queue') = Len(queue) + Len(r) /\ Len(queue) \in Nat /\ Len(r) \in Nat /\ queue' \in Seq(Event)
      /\ \A i \in 1..Len(queue') : queue'[i] = IF i <= Len(queue) THEN queue[i] ELSE r[i - Len(queue)]
  <2>1. /\ Len(queue \o r) = Len(queue) + Len(r) /\ queue \o r \in Seq(Event)
        /\ \A i \in 1..(Len(queue) + Len(r)) :
              (queue \o r)[i] = IF i <= Len(queue) THEN queue[i] ELSE r[i - Len(queue)]
    BY ConcatProperties
  <2>2. Len(queue) \in Nat /\ Len(r) \in Nat
    BY LenProperties
  <2> QED
    BY <2>1, <2>2
<1>2. ASSUME NEW i \in 1..Len(queue')
      PROVE  \/ i \in 1..Len(queue) /\ queue'[i] = queue[i]
             \/ i - Len(queue) \in 1..Len(r) /\ queue'[i] = r[i - Len(queue)]
  BY <1>1, SMTT(30)
<1>3. tip = NoBlock => /\ Len(queue) = 0 /\ synced /\ best = NoBlock /\ event = NoBlock
                       /\ \A i \in 1..Len(queue') : i - Len(queue) = 1 => i = 1
  <2>1. tip = NoBlock => Len(queue) = 0 /\ synced /\ best = NoBlock /\ event = NoBlock
    BY EmptySeq DEF StartInv
  <2>2. Len(queue) = 0 => \A i \in 1..Len(queue') : i - Len(queue) = 1 => i = 1
    BY SMTT(30)
  <2> QED
    BY <2>1, <2>2
<1>4. ASSUME NEW i \in 1..Len(queue'), queue'[i].type = "promise" PROVE synced'
  <2>1. CASE i \in 1..Len(queue) /\ queue'[i] = queue[i]
    <3>1. i \in 1..Len(queue) /\ queue[i].type = "promise"
      BY <1>4, <2>1
    <3> QED
      BY <3>1 DEF StartInv
  <2>2. CASE i - Len(queue) \in 1..Len(r) /\ queue'[i] = r[i - Len(queue)]
    BY <1>4, <2>2
  <2> QED
    BY <1>2, <2>1, <2>2
<1>5. ASSUME NEW i \in 1..Len(queue'), queue'[i].type = "connected", queue'[i].block = Genesis
      PROVE  i = 1 /\ synced' /\ best' = NoBlock /\ event' = NoBlock
  <2>1. CASE i \in 1..Len(queue) /\ queue'[i] = queue[i]
    <3>1. i \in 1..Len(queue) /\ queue[i].type = "connected" /\ queue[i].block = Genesis
      BY <1>5, <2>1
    <3> QED
      BY <3>1 DEF StartInv
  <2>2. CASE i - Len(queue) \in 1..Len(r) /\ queue'[i] = r[i - Len(queue)]
    <3>1. tip = NoBlock /\ i - Len(queue) = 1
      BY <1>5, <2>2
    <3> QED
      BY <1>3, <3>1
  <2> QED
    BY <1>2, <2>1, <2>2
<1>6. ASSUME synced, best = NoBlock, event = NoBlock
      PROVE  queue' # <<>> /\ queue'[1].type = "connected" /\ queue'[1].block = Genesis
  <2>1. CASE tip = NoBlock
    <3>1. r # <<>> /\ 1 \in 1..Len(r) /\ Len(queue) = 0
      BY <1>3, <2>1, EmptySeq
    <3>2. Len(queue') # 0 /\ queue'[1] = r[1]
      BY <1>1, <3>1, SMTT(30)
    <3>3. queue' # <<>>
      BY <3>2, EmptySeq
    <3> QED
      BY <2>1, <3>2, <3>3
  <2>2. CASE tip # NoBlock
    <3>1. queue # <<>> /\ queue[1].type = "connected" /\ queue[1].block = Genesis
      BY <1>6, <2>2 DEF StartInv
    <3>2. 1 \in 1..Len(queue)
      BY <3>1, EmptySeq
    <3>3. Len(queue') # 0 /\ queue'[1] = queue[1]
      BY <1>1, <3>2, SMTT(30)
    <3>4. queue' # <<>>
      BY <3>3, EmptySeq
    <3> QED
      BY <3>1, <3>3, <3>4
  <2> QED
    BY <2>1, <2>2
<1> QED
  BY <1>4, <1>5, <1>6 DEF StartInv

\* ... and when the node starts.
LEMMA StartIndex ==
    ASSUME queue' = <<>>, synced' = (best' = tip'), event' = NoBlock,
           tip' = NoBlock => best' = NoBlock, pc' = IF best' = tip' THEN "done" ELSE "loop"
    PROVE  StartInv'
<1>1. 1..Len(queue') = {}
  BY EmptySeq
<1> QED
  BY <1>1 DEF StartInv

\* BaseIndex::Init finds the last block of the locator that is on the chain.
LEMMA IndexStart ==
    ASSUME NEW t \in Nodes, locator \in Nodes, IndexInit(t)
    PROVE  /\ tip' = t /\ diskTip' = t /\ queue' = <<>> /\ best' \in Nodes /\ pindex' = best'
           /\ Path[best'] = Path[locator] \cap Path[t]
           /\ synced' = (best' = t) /\ pc' = (IF best' = t THEN "done" ELSE "loop")
           /\ t = NoBlock => best' = NoBlock
           /\ batchBest' = NoBlock /\ event' = NoBlock /\ hpc' = "idle" /\ fatal' = FALSE /\ pos' = dbPos
           /\ gap' = gap \cup early /\ early' = {} /\ ahead' = Path[locator] \ Path[t]
<1>1. best' = FindFork(locator, t)
  BY DEF IndexInit
<1>2. best' \in Nodes /\ Path[best'] = Path[locator] \cap Path[t]
  BY <1>1, Fork
<1>3. t = NoBlock => best' = NoBlock
  <2> SUFFICES ASSUME t = NoBlock PROVE best' = NoBlock
    OBVIOUS
  <2>1. Path[best'] = {}
    BY <1>2, PathNone
  <2> QED
    BY <1>2, <2>1, PathHas DEF Nodes
<1> QED
  BY <1>2, <1>3 DEF IndexInit

\* A start of the process keeps the control invariant; so do ...
LEMMA CIndexInit ==
    ASSUME CInv, NEW t \in Nodes, IndexInit(t), UNCHANGED locator
    PROVE  CInv'
<1>1. locator \in Nodes
  BY DEF CInv, TypeInv
<1>2. /\ tip' = t /\ diskTip' = t /\ queue' = <<>> /\ best' \in Nodes /\ pindex' = best'
      /\ synced' = (best' = t) /\ pc' = (IF best' = t THEN "done" ELSE "loop")
      /\ t = NoBlock => best' = NoBlock
      /\ batchBest' = NoBlock /\ event' = NoBlock /\ hpc' = "idle"
  BY <1>1, IndexStart
<1>3. TypeInv'
  BY <1>1, <1>2, EmptySeq, Parents DEF TypeInv
<1>4. ControlInv'
  BY <1>2 DEF ControlInv, Final
<1>5. StartInv'
  BY <1>2, StartIndex
<1> QED
  BY <1>3, <1>4, <1>5 DEF CInv

\* Init is a start on an empty disk.
LEMMA CInit == Init => CInv
<1> SUFFICES ASSUME Init PROVE CInv
  OBVIOUS
<1>1. tip \in Nodes
  BY IndexSyncAssumption DEF Init, Nodes
<1>2. TypeInv
  BY <1>1, EmptySeq, Parents DEF Init, TypeInv
<1>3. ControlInv
  BY DEF Init, ControlInv, Final
<1>4. 1..Len(queue) = {}
  BY EmptySeq DEF Init
<1>5. StartInv
  BY <1>4 DEF Init, StartInv
<1> QED
  BY <1>2, <1>3, <1>5 DEF CInv

\* The chain moves or is flushed, a promise is queued, an interrupt is set.
LEMMA CGrow ==
    ASSUME CInv, NEW r \in Seq(Event), queue' = queue \o r,
           UNCHANGED <<memory, disk>>, tip' \in Blocks, diskTip' \in Nodes,
           tip' = tip \/ pc # "rewind",
           tip # NoBlock \/ (r # <<>> /\ r[1].type = "connected" /\ r[1].block = Genesis),
           \A i \in 1..Len(r) : r[i].type = "promise" => synced,
           \A i \in 1..Len(r) : r[i].type = "connected" /\ r[i].block = Genesis => tip = NoBlock /\ i = 1
    PROVE  CInv'
<1>1. UNCHANGED <<best, pindex, batchBest, event, synced, pc, hpc, locator>>
  BY DEF memory, batch, disk
<1>2. queue \in Seq(Event) /\ tip' # NoBlock /\ tip' \in Nodes
  BY Parents DEF CInv, TypeInv
<1>3. queue' \in Seq(Event)
  BY <1>2, ConcatProperties
<1>4. TypeInv'
  BY <1>1, <1>2, <1>3 DEF CInv, TypeInv
<1>5. ControlInv'
  BY <1>1 DEF CInv, ControlInv, NextSyncBlock
<1>6. StartInv'
  BY <1>1, <1>2, StartGrow DEF CInv
<1> QED
  BY <1>4, <1>5, <1>6 DEF CInv

\* ... a move of the chain, ...
LEMMA CMove ==
    ASSUME CInv, (\E t \in Blocks : ActivateBestChain(t)) \/ InvalidateBlock
    PROVE  CInv'
<1>0. tip \in Nodes /\ diskTip \in Nodes /\ queue \in Seq(Event)
  BY DEF CInv, TypeInv
<1>1. PICK t \in Blocks : MoveTo(t) /\ (tip = NoBlock => t = Genesis)
  BY <1>0, Moves
<1> DEFINE m == MoveEvents(t)
<1>2. /\ pc # "rewind" /\ tip' = t /\ diskTip' \in Nodes
      /\ UNCHANGED <<memory, disk, history>>
      /\ \/ queue' = queue \o m
         \/ \E c \in Blocks : /\ tip # NoBlock
                              /\ queue' = (queue \o <<[type |-> "flushed", block |-> c]>>) \o m
  BY <1>0, <1>1, MoveSteps
<1>3. /\ m \in Seq(Event)
      /\ \A i \in 1..Len(m) : m[i].type = "connected"
      /\ \A i \in 1..Len(m) : m[i].block = Genesis => tip = NoBlock /\ i = 1
      /\ tip = NoBlock => m # <<>> /\ m[1].block = Genesis
  BY <1>0, MoveEventsType
<1> HIDE DEF m
<1>4. tip = NoBlock => m[1].type = "connected"
  <2>1. tip = NoBlock => 1 \in 1..Len(m)
    BY <1>3, EmptySeq
  <2> QED
    BY <1>3, <2>1
<1>5. CASE queue' = queue \o m
  <2>1. \A i \in 1..Len(m) : m[i].type # "promise"
    BY <1>3
  <2> QED
    BY <1>2, <1>3, <1>4, <1>5, <2>1, CGrow
<1>6. ASSUME NEW c \in Blocks, tip # NoBlock,
             queue' = (queue \o <<[type |-> "flushed", block |-> c]>>) \o m
      PROVE  CInv'
  <2> DEFINE e == [type |-> "flushed", block |-> c]
             r == <<e>> \o m
  <2>1. e \in Event /\ e.type = "flushed"
    BY DEF Event
  <2>2. <<e>> \in Seq(Event) /\ Len(<<e>>) = 1
    BY <2>1, OneSeq
  <2>3. queue' = queue \o r /\ r \in Seq(Event)
    BY <1>0, <1>3, <1>6, <2>2, SMTT(30)
  <2>4. \A i \in 1..Len(r) : r[i] = e \/ (i - 1 \in 1..Len(m) /\ r[i] = m[i - 1])
    <3> HIDE DEF e
    <3>1. Len(m) \in Nat
      BY <1>3, LenProperties
    <3> QED
      BY <1>3, <2>1, <2>2, <3>1, SMTT(30)
  <2> HIDE DEF r, e
  <2>5. \A i \in 1..Len(r) : r[i].type # "promise"
    BY <1>3, <2>1, <2>4
  <2>6. \A i \in 1..Len(r) : r[i].type = "connected" /\ r[i].block = Genesis => FALSE
    BY <1>3, <1>6, <2>1, <2>4
  <2> QED
    BY <1>2, <1>6, <2>3, <2>5, <2>6, CGrow
<1> QED
  BY <1>2, <1>5, <1>6

\* ... a flush of the chain state, ...
LEMMA CFlush ==
    ASSUME CInv, FlushStateToDisk
    PROVE  CInv'
<1> DEFINE e == [type |-> "flushed", block |-> tip]
<1>1. /\ tip # NoBlock /\ diskTip' = tip /\ tip' = tip /\ UNCHANGED <<memory, disk>>
      /\ queue' = queue \o <<e>>
  BY DEF FlushStateToDisk, FlushEvent
<1>2. tip \in Blocks /\ tip \in Nodes
  BY <1>1 DEF CInv, TypeInv, Nodes
<1>3. e \in Event /\ e.type = "flushed"
  BY <1>2 DEF Event
<1> HIDE DEF e
<1>4. <<e>> \in Seq(Event) /\ \A i \in 1..Len(<<e>>) : <<e>>[i].type = "flushed"
  BY <1>3, OneSeq
<1>5. \A i \in 1..Len(<<e>>) : <<e>>[i].type # "promise" /\ <<e>>[i].type # "connected"
  BY <1>4
<1> QED
  BY <1>1, <1>2, <1>4, <1>5, CGrow

\* ... a call of BlockUntilSyncedToCurrentChain, ...
LEMMA CPromise ==
    ASSUME CInv, BlockUntilSyncedToCurrentChain
    PROVE  CInv'
<1> DEFINE e == [type |-> "promise", block |-> tip]
<1>1. /\ synced /\ best # NoBlock /\ UNCHANGED <<tip, diskTip, memory, disk>>
      /\ queue' = Append(queue, e)
  BY DEF BlockUntilSyncedToCurrentChain
<1>2. tip # NoBlock
  BY <1>1 DEF CInv, StartInv
<1>3. tip \in Blocks /\ tip \in Nodes /\ diskTip \in Nodes /\ queue \in Seq(Event)
  BY <1>2 DEF CInv, TypeInv, Nodes
<1>4. e \in Event /\ e.type = "promise"
  BY <1>3 DEF Event
<1> HIDE DEF e
<1>5. <<e>> \in Seq(Event) /\ \A i \in 1..Len(<<e>>) : <<e>>[i].type = "promise"
  BY <1>4, OneSeq
<1>6. queue' = queue \o <<e>>
  BY <1>1, <1>3, <1>4, SMTT(30)
<1>7. \A i \in 1..Len(<<e>>) : <<e>>[i].type # "connected"
  BY <1>5
<1> QED
  BY <1>1, <1>2, <1>3, <1>5, <1>6, <1>7, CGrow

\* ... and Interrupt.
LEMMA CInterrupt ==
    ASSUME CInv, Interrupt
    PROVE  CInv'
<1>1. UNCHANGED <<tip, diskTip, queue, best, pindex, batchBest, event, locator, synced, pc, hpc>>
  BY DEF Interrupt, chain, batch, disk
<1> QED
  BY <1>1 DEF CInv, TypeInv, ControlInv, StartInv, NextSyncBlock

\* The thread.
LEMMA CThread ==
    ASSUME CInv, ThreadSync
    PROVE  CInv'
<1>0. /\ tip \in Nodes /\ diskTip \in Nodes /\ best \in Nodes /\ pindex \in Nodes
      /\ batchBest \in Nodes /\ event \in Nodes /\ locator \in Nodes /\ queue \in Seq(Event)
      /\ StartInv /\ ControlInv
  BY DEF CInv, TypeInv
<1>1. UNCHANGED <<tip, diskTip, queue, event, hpc>> /\ batchBest' \in Nodes
  <2>1. UNCHANGED <<tip, diskTip, queue, event, hpc>> /\ batchBest' \in {batchBest, best, tip, NoBlock}
    BY DEF ThreadSync, SyncInterrupted, SyncDone, CommitPosition, CommitLocator, CommitBatch, SyncNext,
           SyncRewind, SyncRewound, SyncLocator, SyncWrite, GetLocator, chain, batch
  <2> QED
    BY <1>0, <2>1, Parents
<1>2. CASE SyncInterrupted
  <2>1. /\ pc = "loop" /\ best' = pindex /\ UNCHANGED <<synced, pindex>> /\ pc' = "done"
        /\ locator' = IF pindex = NoBlock THEN tip ELSE pindex
    BY <1>2 DEF SyncInterrupted, Commit, GetLocator
  <2>2. ~synced /\ hpc = "idle"
    BY <1>0, <2>1 DEF ControlInv, Final
  <2>3. TypeInv'
    BY <1>0, <1>1, <2>1 DEF TypeInv
  <2>4. ControlInv'
    BY <1>0, <1>1, <2>1, <2>2 DEF ControlInv, Final
  <2>5. StartInv'
    BY <1>0, <1>1, <2>1, <2>2, StartThread
  <2> QED
    BY <2>3, <2>4, <2>5 DEF CInv
<1>3. CASE SyncDone
  <2>1. /\ pc = "loop" /\ NextSyncBlock(pindex) = NoBlock /\ best' = pindex /\ synced' = TRUE
        /\ pc' = "final" /\ UNCHANGED <<pindex, locator>>
    BY <1>3 DEF SyncDone, disk
  <2>2. ~synced /\ hpc = "idle" /\ tip # NoBlock
    BY <1>0, <2>1 DEF ControlInv, StartInv
  <2>3. pindex # NoBlock
    <3>1. tip \in Blocks /\ Path[tip] \subseteq Path[pindex]
      BY <1>0, <2>1, <2>2, NextBlock DEF Nodes
    <3>2. Path[pindex] # {}
      BY <3>1, PathHas
    <3> QED
      BY <3>2, PathNone
  <2>4. TypeInv'
    BY <1>0, <1>1, <2>1 DEF TypeInv
  <2>5. ControlInv'
    BY <1>0, <1>1, <2>1, <2>2, <2>3 DEF ControlInv, Final
  <2>6. StartInv'
    BY <1>0, <1>1, <2>1, <2>2, <2>3, StartThread
  <2> QED
    BY <2>4, <2>5, <2>6 DEF CInv
<1>4. CASE CommitPosition \/ CommitLocator \/ CommitBatch
  <2>1. /\ pc \in Final /\ UNCHANGED <<best, synced, pindex>> /\ pc' \in Final \cup {"done"}
        /\ locator' \in {locator, batchBest}
    BY <1>4 DEF CommitPosition, CommitLocator, CommitBatch, Final, disk
  <2>2. tip # NoBlock
    BY <1>0, <2>1 DEF StartInv, Final
  <2>3. TypeInv'
    BY <1>0, <1>1, <2>1 DEF TypeInv
  <2>4. ControlInv'
    BY <1>0, <1>1, <2>1 DEF ControlInv, Final
  <2>5. StartInv'
    BY <1>0, <1>1, <2>1, <2>2, StartSame
  <2> QED
    BY <2>3, <2>4, <2>5 DEF CInv
<1>5. CASE SyncNext
  <2>1. /\ pc = "loop" /\ pindex' = NextSyncBlock(pindex) /\ NextSyncBlock(pindex) # NoBlock
        /\ UNCHANGED <<best, synced, locator>> /\ pc' = "locator"
    BY <1>5 DEF SyncNext, disk
  <2>2. ~synced /\ hpc = "idle" /\ pindex' \in Nodes /\ pindex' # NoBlock
    BY <1>0, <2>1, SyncFork, Parents DEF ControlInv, Final
  <2>3. TypeInv'
    BY <1>0, <1>1, <2>1, <2>2 DEF TypeInv
  <2>4. ControlInv'
    BY <1>0, <1>1, <2>1, <2>2 DEF ControlInv, Final
  <2>5. StartInv'
    BY <1>0, <1>1, <2>1, <2>2, StartThread
  <2> QED
    BY <2>3, <2>4, <2>5 DEF CInv
<1>6. CASE SyncRewind
  <2>1. /\ pc = "loop" /\ NextSyncBlock(pindex) # NoBlock
        /\ Parent[NextSyncBlock(pindex)] # pindex
        /\ UNCHANGED <<best, synced, locator, pindex>> /\ pc' \in {"rewind", "failed"}
    BY <1>6 DEF SyncRewind, disk, CopyOut
  <2>2. ~synced /\ hpc = "idle" /\ pindex # NoBlock
    BY <1>0, <2>1, SyncFork, Parents DEF ControlInv, Final
  <2>3. TypeInv'
    BY <1>0, <1>1, <2>1 DEF TypeInv
  <2>4. NextSyncBlock(pindex)' = NextSyncBlock(pindex)
    BY <1>1, <2>1 DEF NextSyncBlock
  <2>5. ControlInv'
    BY <1>0, <1>1, <2>1, <2>2, <2>4 DEF ControlInv, Final
  <2>6. StartInv'
    BY <1>0, <1>1, <2>1, <2>2, StartThread
  <2> QED
    BY <2>3, <2>5, <2>6 DEF CInv
<1>7. CASE SyncRewound
  <2> DEFINE next == NextSyncBlock(pindex)
  <2>1. /\ pc = "rewind" /\ best' = Parent[next] /\ locator' = Parent[next] /\ pindex' = next
        /\ UNCHANGED synced /\ pc' = "locator"
    BY <1>7 DEF SyncRewound, RewoundLocator
  <2>2. ~synced /\ hpc = "idle" /\ next # NoBlock
    BY <1>0, <2>1 DEF ControlInv, Final
  <2>3. next \in Blocks /\ next \in Nodes /\ Parent[next] \in Nodes
    BY <1>0, <2>2, SyncFork, Parents
  <2> HIDE DEF next
  <2>4. TypeInv'
    BY <1>0, <1>1, <2>1, <2>3 DEF TypeInv
  <2>5. ControlInv'
    BY <1>0, <1>1, <2>1, <2>2 DEF ControlInv, Final
  <2>6. StartInv'
    BY <1>0, <1>1, <2>1, <2>2, StartThread
  <2> QED
    BY <2>4, <2>5, <2>6 DEF CInv
<1>8. CASE SyncLocator
  <2>1. /\ pc = "locator" /\ UNCHANGED <<synced, pindex>> /\ pc' = "write"
        /\ (best' = best /\ locator' = locator) \/ (best' = pindex /\ locator' = pindex)
    BY <1>8 DEF SyncLocator
  <2>2. ~synced /\ hpc = "idle" /\ pindex # NoBlock
    BY <1>0, <2>1 DEF ControlInv, Final
  <2>3. TypeInv'
    BY <1>0, <1>1, <2>1 DEF TypeInv
  <2>4. ControlInv'
    BY <1>0, <1>1, <2>1, <2>2 DEF ControlInv, Final
  <2>5. StartInv'
    BY <1>0, <1>1, <2>1, <2>2, StartThread
  <2> QED
    BY <2>3, <2>4, <2>5 DEF CInv
<1>9. CASE SyncWrite
  <2>1. /\ pc = "write" /\ UNCHANGED <<best, synced, pindex, locator>> /\ pc' \in {"loop", "failed"}
    BY <1>9 DEF SyncWrite, WriteBlock, disk
  <2>2. ~synced /\ hpc = "idle" /\ pindex # NoBlock
    BY <1>0, <2>1 DEF ControlInv, Final
  <2>3. TypeInv'
    BY <1>0, <1>1, <2>1 DEF TypeInv
  <2>4. ControlInv'
    BY <1>0, <1>1, <2>1, <2>2 DEF ControlInv, Final
  <2>5. StartInv'
    BY <1>0, <1>1, <2>1, <2>2, StartThread
  <2> QED
    BY <2>3, <2>4, <2>5 DEF CInv
<1> QED
  BY <1>2, <1>3, <1>4, <1>5, <1>6, <1>7, <1>8, <1>9 DEF ThreadSync

\* The callbacks.
LEMMA CConnected ==
    ASSUME CInv, BlockConnected
    PROVE  CInv'
<1>0. /\ tip \in Nodes /\ diskTip \in Nodes /\ best \in Nodes /\ pindex \in Nodes
      /\ batchBest \in Nodes /\ event \in Nodes /\ locator \in Nodes /\ queue \in Seq(Event)
      /\ StartInv /\ ControlInv
  BY DEF CInv, TypeInv
<1>1. PICK b \in Blocks :
          /\ hpc = "idle" /\ event = NoBlock
          /\ queue # <<>> /\ queue[1].type = "connected" /\ queue[1].block = b
          /\ queue' = Tail(queue)
          /\ UNCHANGED <<tip, diskTip, timed, batchPos, batchBest, synced, pindex, pc, pos, ahead, early, gap>>
          /\ Ignored(b) \/ Uncopied(b) \/ Taken(b)
  BY BlockConnectedSteps
<1>2. UNCHANGED <<tip, diskTip, synced, pindex, pc, batchBest>> /\ queue' \in Seq(Event)
  BY <1>0, <1>1, HeadTailProperties
<1>3. b # NoBlock /\ b \in Nodes /\ Parent[b] \in Nodes
  BY Parents
<1>4. CASE Ignored(b) \/ Uncopied(b)
  <2>1. UNCHANGED <<best, event, hpc, locator>>
    BY <1>4 DEF Ignored, Uncopied, disk
  <2>2. ~synced \/ best # NoBlock
    BY <1>4, Parents DEF Ignored, Uncopied
  <2>3. TypeInv'
    BY <1>0, <1>2, <2>1 DEF TypeInv
  <2>4. NextSyncBlock(pindex)' = NextSyncBlock(pindex)
    BY <1>2 DEF NextSyncBlock
  <2>5. ControlInv'
    BY <1>0, <1>2, <2>1, <2>4 DEF ControlInv
  <2>6. StartInv'
    BY <1>0, <1>1, <1>2, <2>1, <2>2, StartTail
  <2> QED
    BY <2>3, <2>5, <2>6 DEF CInv
<1>5. CASE Taken(b)
  <2>1. /\ synced /\ event' = b /\ best' = Parent[b] /\ (best # NoBlock => Parent[b] # NoBlock)
        /\ hpc' \in {"write", "commit"} /\ locator' = locator
    BY <1>5 DEF Taken, CopyOut, disk
  <2>2. TypeInv'
    BY <1>0, <1>2, <1>3, <2>1 DEF TypeInv
  <2>3. ControlInv'
    BY <1>0, <1>2, <1>3, <2>1 DEF ControlInv
  <2>4. StartInv'
    BY <1>0, <1>1, <1>2, <1>3, <2>1, StartTail
  <2> QED
    BY <2>2, <2>3, <2>4 DEF CInv
<1> QED
  BY <1>1, <1>4, <1>5

\* WriteBlock can write the genesis block anywhere.
LEMMA CWriteConnected ==
    ASSUME CInv, WriteConnected \/ BestConnected
    PROVE  CInv'
<1>0. /\ tip \in Nodes /\ diskTip \in Nodes /\ best \in Nodes /\ pindex \in Nodes
      /\ batchBest \in Nodes /\ event \in Nodes /\ locator \in Nodes /\ queue \in Seq(Event)
      /\ StartInv /\ ControlInv
  BY DEF CInv, TypeInv
<1>1. /\ hpc \in {"write", "best"} /\ locator' = locator
      /\ UNCHANGED <<tip, diskTip, queue, synced, pindex, batchBest, pc>>
      /\ \/ event' = event /\ hpc' = "best" /\ best' = best
         \/ event' = NoBlock /\ hpc' = "idle" /\ ~CanWrite(event) /\ best' = best
         \/ event' = NoBlock /\ hpc' = "idle" /\ best' = event
  BY DEF WriteConnected, BestConnected, WriteBlock, disk, chain, batch
<1>2. synced /\ event # NoBlock /\ best = Parent[event]
  BY <1>0, <1>1 DEF ControlInv
<1>3. event \in Blocks
  BY <1>0, <1>2 DEF Nodes
<1>4. best' \in Nodes /\ event' \in Nodes /\ (best = NoBlock => best' # NoBlock \/ event' # NoBlock)
      /\ (best # NoBlock => best' # NoBlock)
  BY <1>0, <1>1, <1>2, <1>3, Parents DEF CanWrite
<1>5. TypeInv'
  BY <1>0, <1>1, <1>4 DEF TypeInv
<1>6. NextSyncBlock(pindex)' = NextSyncBlock(pindex)
  BY <1>1 DEF NextSyncBlock
<1>7. ControlInv'
  BY <1>0, <1>1, <1>2, <1>4, <1>6 DEF ControlInv
<1>8. StartInv'
  <2>1. tip # NoBlock
    BY <1>0, <1>2 DEF StartInv
  <2>2. \A i \in 1..Len(queue) : ~(queue[i].type = "connected" /\ queue[i].block = Genesis)
    BY <1>0, <1>2 DEF StartInv
  <2>3. ~(best' = NoBlock /\ event' = NoBlock)
    BY <1>4
  <2> QED
    BY <1>0, <1>1, <2>1, <2>2, <2>3 DEF StartInv
<1> QED
  BY <1>5, <1>7, <1>8 DEF CInv

\* All the callbacks.
LEMMA CCallbacks ==
    ASSUME CInv, Callbacks
    PROVE  CInv'
<1>0. /\ tip \in Nodes /\ diskTip \in Nodes /\ best \in Nodes /\ pindex \in Nodes
      /\ batchBest \in Nodes /\ event \in Nodes /\ locator \in Nodes /\ queue \in Seq(Event)
      /\ StartInv /\ ControlInv
  BY DEF CInv, TypeInv
<1>1. CASE RewindCommit
  <2>1. /\ hpc = "commit" /\ locator' = best /\ hpc' = "write"
        /\ UNCHANGED <<tip, diskTip, queue, best, synced, pindex, pc, batchBest, event>>
    BY <1>1 DEF RewindCommit, RewoundLocator, chain, batch
  <2>2. TypeInv'
    BY <1>0, <2>1 DEF TypeInv
  <2>3. NextSyncBlock(pindex)' = NextSyncBlock(pindex)
    BY <2>1 DEF NextSyncBlock
  <2>4. ControlInv'
    BY <1>0, <2>1, <2>3 DEF ControlInv
  <2>5. StartInv'
    BY <1>0, <2>1, StartSame
  <2> QED
    BY <2>2, <2>4, <2>5 DEF CInv
<1>2. CASE ChainStateFlushed \/ KeepPromise
  <2>1. /\ hpc = "idle" /\ queue # <<>> /\ queue' = Tail(queue) /\ Head(queue).type # "connected"
        /\ UNCHANGED <<tip, diskTip, memory>>
        /\ locator' \in {locator, best, tip}
    BY <1>2 DEF ChainStateFlushed, KeepPromise, NextIs, Delivered, Commit, GetLocator, disk
  <2>2. UNCHANGED <<best, synced, pindex, pc, batchBest, event, hpc>>
    BY <2>1 DEF memory, batch
  <2>3. Head(queue) = queue[1] /\ queue' \in Seq(Event)
    BY <1>0, <2>1, HeadTailProperties
  <2>4. TypeInv'
    BY <1>0, <2>1, <2>2, <2>3 DEF TypeInv
  <2>5. NextSyncBlock(pindex)' = NextSyncBlock(pindex)
    BY <2>1, <2>2 DEF NextSyncBlock
  <2>6. ControlInv'
    BY <1>0, <2>2, <2>5 DEF ControlInv
  <2>7. ~(synced /\ best = NoBlock /\ event = NoBlock)
    BY <1>0, <2>1, <2>3 DEF StartInv
  <2>8. StartInv'
    BY <1>0, <2>1, <2>2, <2>7, StartTail
  <2> QED
    BY <2>4, <2>6, <2>8 DEF CInv
<1> QED
  BY <1>1, <1>2, CConnected, CWriteConnected DEF Callbacks

\* Every step keeps it.
LEMMA CNext == CInv /\ [Next]_vars => CInv'
<1> SUFFICES ASSUME CInv, [Next]_vars PROVE CInv'
  OBVIOUS
<1>1. CASE Crash \/ AssertFails
  <2>1. diskTip \in Nodes /\ IndexInit(diskTip) /\ UNCHANGED locator
    BY <1>1 DEF Crash, AssertFails, Die, CInv, TypeInv
  <2> QED
    BY <2>1, CIndexInit
<1>2. CASE Restart
  <2>1. tip \in Nodes /\ IndexInit(tip) /\ UNCHANGED locator
    BY <1>2 DEF Restart, CInv, TypeInv, disk
  <2> QED
    BY <2>1, CIndexInit
<1>3. CASE UNCHANGED vars
  <2>1. UNCHANGED <<tip, diskTip, queue, best, pindex, batchBest, event, locator, synced, pc, hpc>>
    BY <1>3 DEF vars, chain, memory, batch, disk
  <2> QED
    BY <2>1 DEF CInv, TypeInv, ControlInv, StartInv, NextSyncBlock
<1> QED
  BY <1>1, <1>2, <1>3, CMove, CFlush, CThread, CCallbacks, CPromise, CInterrupt DEF Next

-----------------------------------------------------------------------------
(* The events on the way to the index.                                     *)

Below(x) == Path[x] \cup {NoBlock}

\* A block that BlockConnected takes when the index is at x.
Joins(x, b) == Parent[b] \in Below(x)

\* None of the events of q after the j-th and before the i-th is taken.
Apart(q, j, i, x) == \A k \in (j + 1)..(i - 1) : q[k].type = "connected" => ~Joins(x, q[k].block)

\* With the index at x and the first j events of q delivered: as long as no event is taken,
\* x is above the block of the next promise, and above t if there is none.
Reaches(q, j, t, x) ==
    /\ \A i \in (j + 1)..Len(q) :
          q[i].type = "promise" /\ Apart(q, j, i, x) => q[i].block \in Path[x]
    /\ Apart(q, j, Len(q) + 1, x) => t \in Below(x)

\* So it is when a block of the queue has been taken.
Linked(q, t) ==
    \A j \in 1..Len(q) : q[j].type = "connected" => Reaches(q, j, t, q[j].block)

\* The block the index is at, or is about to be.
At == IF event # NoBlock THEN event ELSE best

ReachInv ==
    /\ Linked(queue, tip)
    /\ synced /\ ~fatal => Reaches(queue, 0, tip, At)

\* Below what is below.
LEMMA BelowTrans ==
    ASSUME NEW x \in Nodes, NEW t \in Nodes, t \in Below(x), NEW a, a \in Below(t)
    PROVE  a \in Below(x) /\ (a \in Path[t] => a \in Path[x])
<1>1. CASE t = NoBlock
  BY <1>1, PathNone DEF Below
<1>2. CASE t \in Path[x]
  <2>1. Path[t] \subseteq Path[x]
    BY <1>2, PathTrans
  <2> QED
    BY <2>1 DEF Below
<1> QED
  BY <1>1, <1>2 DEF Below

\* A block is below itself.
LEMMA BelowSelf ==
    ASSUME NEW x \in Nodes
    PROVE  x \in Below(x)
BY PathHas DEF Below, Nodes

\* The first event is delivered.
LEMMA ReachesFirst ==
    ASSUME NEW q \in Seq(Event), NEW t, NEW x, Reaches(q, 0, t, x),
           q[1].type = "connected" => ~Joins(x, q[1].block)
    PROVE  Reaches(q, 1, t, x)
<1>0. Len(q) \in Nat
  BY LenProperties
<1>1. ASSUME NEW i \in Int, Apart(q, 1, i, x) PROVE Apart(q, 0, i, x)
  <2> SUFFICES ASSUME NEW k \in (0 + 1)..(i - 1), q[k].type = "connected"
               PROVE  ~Joins(x, q[k].block)
    BY DEF Apart
  <2>1. k = 1 \/ k \in (1 + 1)..(i - 1)
    BY SMTT(30)
  <2> QED
    BY <1>1, <2>1 DEF Apart
<1>2. ASSUME NEW i \in (1 + 1)..Len(q), q[i].type = "promise", Apart(q, 1, i, x)
      PROVE  q[i].block \in Path[x]
  <2>1. i \in (0 + 1)..Len(q) /\ i \in Int
    BY <1>0, SMTT(30)
  <2> QED
    BY <1>1, <1>2, <2>1 DEF Reaches
<1>3. Len(q) + 1 \in Int
  BY <1>0, SMTT(30)
<1> QED
  BY <1>1, <1>2, <1>3 DEF Reaches

\* The delivery of the first event, seen from a later one.
LEMMA ReachesTail ==
    ASSUME NEW q \in Seq(Event), q # <<>>, NEW j \in 1..Len(q), NEW t, NEW x, Reaches(q, j, t, x)
    PROVE  Reaches(Tail(q), j - 1, t, x)
<1> DEFINE r == Tail(q)
<1>0. Len(q) \in Nat /\ Len(r) = Len(q) - 1 /\ \A i \in 1..Len(r) : r[i] = q[i + 1]
  BY LenProperties, HeadTailProperties
<1> HIDE DEF r
<1>1. ASSUME NEW i \in Int, i <= Len(q), Apart(r, j - 1, i, x) PROVE Apart(q, j, i + 1, x)
  <2> SUFFICES ASSUME NEW k \in (j + 1)..((i + 1) - 1), q[k].type = "connected"
               PROVE  ~Joins(x, q[k].block)
    BY DEF Apart
  <2>1. k - 1 \in ((j - 1) + 1)..(i - 1) /\ k - 1 \in 1..Len(r) /\ (k - 1) + 1 = k
    BY <1>0, <1>1, SMTT(30)
  <2>2. r[k - 1] = q[k]
    BY <1>0, <2>1
  <2> QED
    BY <1>1, <2>1, <2>2 DEF Apart
<1>2. ASSUME NEW i \in ((j - 1) + 1)..Len(r), r[i].type = "promise", Apart(r, j - 1, i, x)
      PROVE  r[i].block \in Path[x]
  <2>1. i \in Int /\ i <= Len(q) /\ i + 1 \in (j + 1)..Len(q) /\ i \in 1..Len(r)
    BY <1>0, SMTT(30)
  <2>2. r[i] = q[i + 1] /\ Apart(q, j, i + 1, x)
    BY <1>0, <1>1, <1>2, <2>1
  <2> QED
    BY <1>2, <2>1, <2>2 DEF Reaches
<1>3. ASSUME Apart(r, j - 1, Len(r) + 1, x) PROVE t \in Below(x)
  <2>1. Len(r) + 1 = Len(q) /\ Len(q) \in Int /\ Len(q) <= Len(q)
    BY <1>0, SMTT(30)
  <2>2. Apart(q, j, Len(q) + 1, x)
    BY <1>1, <1>3, <2>1
  <2> QED
    BY <2>2 DEF Reaches
<1>4. Reaches(r, j - 1, t, x)
  BY <1>2, <1>3 DEF Reaches
<1> QED
  BY <1>4 DEF r

\* Linked when an event is delivered; and where a first event leads that is taken.
LEMMA LinkedTail ==
    ASSUME NEW q \in Seq(Event), q # <<>>, NEW t, Linked(q, t)
    PROVE  /\ Linked(Tail(q), t)
           /\ q[1].type = "connected" => Reaches(Tail(q), 0, t, q[1].block)
<1>0. /\ 1 \in 1..Len(q) /\ Len(q) \in Nat
      /\ Len(Tail(q)) = Len(q) - 1 /\ \A i \in 1..Len(Tail(q)) : Tail(q)[i] = q[i + 1]
  <2>1. Len(q) \in Nat
    BY LenProperties
  <2>2. 1 \in 1..Len(q)
    BY EmptySeq
  <2>3. Len(Tail(q)) = Len(q) - 1 /\ \A i \in 1..Len(Tail(q)) : Tail(q)[i] = q[i + 1]
    BY HeadTailProperties
  <2> QED
    BY <2>1, <2>2, <2>3
<1>1. q[1].type = "connected" => Reaches(Tail(q), 0, t, q[1].block)
  <2>1. q[1].type = "connected" => Reaches(q, 1, t, q[1].block)
    BY <1>0 DEF Linked
  <2>2. 1 - 1 = 0
    BY SMTT(30)
  <2> QED
    BY <1>0, <2>1, <2>2, ReachesTail
<1>2. ASSUME NEW j \in 1..Len(Tail(q)), Tail(q)[j].type = "connected"
      PROVE  Reaches(Tail(q), j, t, Tail(q)[j].block)
  <2>1. j + 1 \in 1..Len(q) /\ (j + 1) - 1 = j
    BY <1>0, SMTT(30)
  <2>2. Tail(q)[j] = q[j + 1]
    BY <1>0
  <2>3. Reaches(q, j + 1, t, q[j + 1].block)
    BY <1>2, <2>1, <2>2 DEF Linked
  <2>4. Reaches(Tail(q), (j + 1) - 1, t, q[j + 1].block)
    BY <2>1, <2>3, ReachesTail
  <2> QED
    BY <2>1, <2>2, <2>4
<1> QED
  BY <1>1, <1>2 DEF Linked

\* The events r of a step that takes the tip from t to t2: none of a block connected, or
\* first that of a block on top of the chain of t.
Follows(r, t, t2) ==
    \/ /\ \A i \in 1..Len(r) : r[i].type # "connected" /\ (r[i].type = "promise" => r[i].block \in Path[t])
       /\ t2 \in Below(t)
    \/ r # <<>> /\ r[1].type = "connected" /\ Parent[r[1].block] \in Below(t)

\* The elements of one sequence behind another.
LEMMA ConcatElements ==
    ASSUME NEW q \in Seq(Event), NEW r \in Seq(Event)
    PROVE  /\ q \o r \in Seq(Event) /\ Len(q) \in Nat /\ Len(r) \in Nat
           /\ Len(q \o r) = Len(q) + Len(r)
           /\ \A i \in 1..Len(q) : (q \o r)[i] = q[i]
           /\ \A i \in 1..Len(r) : (q \o r)[Len(q) + i] = r[i]
<1>1. Len(q) \in Nat /\ Len(r) \in Nat
  BY LenProperties
<1>2. /\ q \o r \in Seq(Event) /\ Len(q \o r) = Len(q) + Len(r)
      /\ \A i \in 1..(Len(q) + Len(r)) :
            (q \o r)[i] = IF i <= Len(q) THEN q[i] ELSE r[i - Len(q)]
  BY ConcatProperties
<1>3. ASSUME NEW i \in 1..Len(q) PROVE (q \o r)[i] = q[i]
  <2>1. i \in 1..(Len(q) + Len(r)) /\ i <= Len(q)
    BY <1>1, SMTT(30)
  <2> QED
    BY <1>2, <2>1
<1>4. ASSUME NEW i \in 1..Len(r) PROVE (q \o r)[Len(q) + i] = r[i]
  <2>1. Len(q) + i \in 1..(Len(q) + Len(r)) /\ ~(Len(q) + i <= Len(q)) /\ (Len(q) + i) - Len(q) = i
    BY <1>1, SMTT(30)
  <2> QED
    BY <1>2, <2>1
<1> QED
  BY <1>1, <1>2, <1>3, <1>4

\* Events that carry the tip on from t to t2 may be queued behind q.
LEMMA ReachesConcat ==
    ASSUME NEW q \in Seq(Event), NEW r \in Seq(Event), NEW t \in Nodes, NEW t2 \in Nodes,
           NEW x \in Nodes, NEW j \in 0..Len(q), Reaches(q, j, t, x), Follows(r, t, t2)
    PROVE  Reaches(q \o r, j, t2, x)
<1> DEFINE s == q \o r
           n == Len(q)
<1>0. /\ n \in Nat /\ Len(r) \in Nat /\ Len(s) = n + Len(r)
      /\ \A i \in 1..n : s[i] = q[i]
      /\ \A i \in 1..Len(r) : s[n + i] = r[i]
  BY ConcatElements
<1> HIDE DEF s, n
<1>1. ASSUME NEW i \in Int, i <= n + 1, Apart(s, j, i, x) PROVE Apart(q, j, i, x)
  <2> SUFFICES ASSUME NEW k \in (j + 1)..(i - 1), q[k].type = "connected"
               PROVE  ~Joins(x, q[k].block)
    BY DEF Apart
  <2>1. k \in 1..n
    BY <1>0, <1>1, SMTT(30) DEF n
  <2>2. s[k] = q[k]
    BY <1>0, <2>1
  <2> QED
    BY <1>1, <2>2 DEF Apart
<1>2. ASSUME NEW i \in Int, n < i, Apart(s, j, i, x) PROVE t \in Below(x)
  <2>1. Apart(s, j, n + 1, x)
    <3>1. ASSUME NEW k \in (j + 1)..((n + 1) - 1) PROVE k \in (j + 1)..(i - 1)
      BY <1>0, <1>2, SMTT(30) DEF n
    <3> QED
      BY <1>2, <3>1 DEF Apart
  <2>2. n + 1 \in Int /\ n + 1 <= n + 1
    BY <1>0, SMTT(30)
  <2>3. Apart(q, j, n + 1, x)
    BY <1>1, <2>1, <2>2
  <2> QED
    BY <2>3 DEF Reaches, n
<1>3. ASSUME NEW i \in Int, n + 1 < i, Apart(s, j, i, x), r # <<>>, r[1].type = "connected",
             Parent[r[1].block] \in Below(t)
      PROVE  FALSE
  <2>1. t \in Below(x)
    <3>1. n < i
      BY <1>0, <1>3, SMTT(30)
    <3> QED
      BY <1>2, <1>3, <3>1
  <2>2. 1 \in 1..Len(r) /\ n + 1 \in (j + 1)..(i - 1)
    <3>1. 1 \in 1..Len(r)
      BY <1>3, EmptySeq
    <3> QED
      BY <1>0, <1>3, <3>1, SMTT(30) DEF n
  <2>3. s[n + 1] = r[1]
    BY <1>0, <2>2
  <2>4. ~Joins(x, r[1].block)
    BY <1>3, <2>2, <2>3 DEF Apart
  <2> QED
    BY <1>3, <2>1, <2>4, BelowTrans DEF Joins
<1>4. ASSUME NEW i \in (j + 1)..Len(s), s[i].type = "promise", Apart(s, j, i, x)
      PROVE  s[i].block \in Path[x]
  <2>1. CASE i <= n
    <3>1. i \in 1..n /\ i \in (j + 1)..n /\ i \in Int /\ i <= n + 1
      BY <1>0, <2>1, SMTT(30) DEF n
    <3>2. s[i] = q[i] /\ Apart(q, j, i, x)
      BY <1>0, <1>1, <1>4, <3>1
    <3> QED
      BY <1>4, <3>1, <3>2 DEF Reaches, n
  <2>2. CASE ~(i <= n)
    <3>1. /\ i \in Int /\ n < i /\ i - n \in 1..Len(r) /\ n + (i - n) = i
          /\ ~(n + 1 < i) => i - n = 1
      BY <1>0, <2>2, SMTT(30) DEF n
    <3>2. s[i] = r[i - n] /\ t \in Below(x)
      BY <1>0, <1>2, <1>4, <3>1
    <3>3. CASE r # <<>> /\ r[1].type = "connected" /\ Parent[r[1].block] \in Below(t)
      <4>1. i - n # 1
        BY <1>4, <3>2, <3>3
      <4>2. n + 1 < i
        BY <3>1, <4>1
      <4> QED
        BY <1>3, <1>4, <3>1, <3>3, <4>2
    <3>4. CASE \A k \in 1..Len(r) : r[k].type = "promise" => r[k].block \in Path[t]
      <4>1. r[i - n].block \in Path[t]
        BY <1>4, <3>1, <3>2, <3>4
      <4>2. r[i - n].block \in Below(t)
        BY <4>1 DEF Below
      <4>3. r[i - n].block \in Path[x]
        BY <3>2, <4>1, <4>2, BelowTrans
      <4> QED
        BY <3>2, <4>3
    <3> QED
      BY <3>3, <3>4 DEF Follows
  <2> QED
    BY <2>1, <2>2
<1>5. ASSUME Apart(s, j, Len(s) + 1, x) PROVE t2 \in Below(x)
  <2>1. Len(s) + 1 \in Int /\ n < Len(s) + 1
    BY <1>0, SMTT(30)
  <2>2. t \in Below(x)
    BY <1>2, <1>5, <2>1
  <2>3. CASE r # <<>> /\ r[1].type = "connected" /\ Parent[r[1].block] \in Below(t)
    <3>1. 1 \in 1..Len(r)
      BY <2>3, EmptySeq
    <3>2. n + 1 < Len(s) + 1
      BY <1>0, <3>1, SMTT(30)
    <3> QED
      BY <1>3, <1>5, <2>1, <2>3, <3>2
  <2>4. CASE t2 \in Below(t)
    BY <2>2, <2>4, BelowTrans
  <2> QED
    BY <2>3, <2>4 DEF Follows
<1>6. Reaches(s, j, t2, x)
  BY <1>4, <1>5 DEF Reaches
<1> QED
  BY <1>6 DEF s

\* Events queued before r change nothing for an event of r.
LEMMA ReachesShift ==
    ASSUME NEW q \in Seq(Event), NEW r \in Seq(Event), NEW t, NEW x,
           NEW j \in 1..Len(r), Reaches(r, j, t, x)
    PROVE  Reaches(q \o r, Len(q) + j, t, x)
<1> DEFINE s == q \o r
           n == Len(q)
<1>0. /\ n \in Nat /\ Len(r) \in Nat /\ Len(s) = n + Len(r)
      /\ \A i \in 1..Len(r) : s[n + i] = r[i]
  BY ConcatElements
<1> HIDE DEF s, n
<1>1. ASSUME NEW i \in Int, i <= Len(r) + 1, Apart(s, n + j, n + i, x) PROVE Apart(r, j, i, x)
  <2> SUFFICES ASSUME NEW k \in (j + 1)..(i - 1), r[k].type = "connected"
               PROVE  ~Joins(x, r[k].block)
    BY DEF Apart
  <2>1. k \in 1..Len(r) /\ n + k \in ((n + j) + 1)..((n + i) - 1)
    BY <1>0, <1>1, SMTT(30)
  <2>2. s[n + k] = r[k]
    BY <1>0, <2>1
  <2> QED
    BY <1>1, <2>1, <2>2 DEF Apart
<1>2. ASSUME NEW i \in ((n + j) + 1)..Len(s), s[i].type = "promise", Apart(s, n + j, i, x)
      PROVE  s[i].block \in Path[x]
  <2>1. /\ i - n \in (j + 1)..Len(r) /\ i - n \in 1..Len(r) /\ i - n \in Int
        /\ i - n <= Len(r) + 1 /\ n + (i - n) = i
    BY <1>0, SMTT(30)
  <2>2. s[i] = r[i - n] /\ Apart(r, j, i - n, x)
    BY <1>0, <1>1, <1>2, <2>1
  <2> QED
    BY <1>2, <2>1, <2>2 DEF Reaches
<1>3. ASSUME Apart(s, n + j, Len(s) + 1, x) PROVE t \in Below(x)
  <2>1. Len(r) + 1 \in Int /\ Len(r) + 1 <= Len(r) + 1 /\ Len(s) + 1 = n + (Len(r) + 1)
    BY <1>0, SMTT(30)
  <2>2. Apart(r, j, Len(r) + 1, x)
    BY <1>1, <1>3, <2>1
  <2> QED
    BY <2>2 DEF Reaches
<1>4. Reaches(s, n + j, t, x)
  BY <1>2, <1>3 DEF Reaches
<1> QED
  BY <1>4 DEF s, n

\* Linked when events are queued.
LEMMA LinkedConcat ==
    ASSUME NEW q \in Seq(Event), NEW r \in Seq(Event), NEW t \in Nodes, NEW t2 \in Nodes,
           Linked(q, t), Linked(r, t2), Follows(r, t, t2)
    PROVE  Linked(q \o r, t2)
<1> SUFFICES ASSUME NEW j \in 1..Len(q \o r), (q \o r)[j].type = "connected"
             PROVE  Reaches(q \o r, j, t2, (q \o r)[j].block)
  BY DEF Linked
<1>0. /\ Len(q) \in Nat /\ Len(r) \in Nat /\ Len(q \o r) = Len(q) + Len(r)
      /\ \A i \in 1..Len(q) : (q \o r)[i] = q[i]
      /\ \A i \in 1..Len(r) : (q \o r)[Len(q) + i] = r[i]
  BY ConcatElements
<1>1. CASE j <= Len(q)
  <2>1. j \in 1..Len(q) /\ j \in 0..Len(q)
    BY <1>0, <1>1, SMTT(30)
  <2>2. (q \o r)[j] = q[j] /\ q[j] \in Event
    <3>1. q \in [1..Len(q) -> Event]
      BY LenProperties
    <3> QED
      BY <1>0, <2>1, <3>1
  <2>3. Reaches(q, j, t, q[j].block)
    BY <2>1, <2>2 DEF Linked
  <2>4. q[j].block \in Nodes
    BY <2>2, Parents DEF Event
  <2>5. Reaches(q \o r, j, t2, q[j].block)
    BY <2>1, <2>3, <2>4, ReachesConcat
  <2> QED
    BY <2>2, <2>5
<1>2. CASE ~(j <= Len(q))
  <2>1. j - Len(q) \in 1..Len(r) /\ Len(q) + (j - Len(q)) = j
    BY <1>0, <1>2, SMTT(30)
  <2>2. (q \o r)[j] = r[j - Len(q)]
    BY <1>0, <2>1
  <2>3. Reaches(r, j - Len(q), t2, r[j - Len(q)].block)
    BY <2>1, <2>2 DEF Linked
  <2>4. Reaches(q \o r, Len(q) + (j - Len(q)), t2, r[j - Len(q)].block)
    BY <2>1, <2>3, ReachesShift
  <2> QED
    BY <2>1, <2>2, <2>4
<1> QED
  BY <1>1, <1>2

\* The events of a move lead to its tip, one on top of the other.
LEMMA MoveLinked ==
    ASSUME NEW t \in Blocks, tip \in Nodes
    PROVE  Linked(MoveEvents(t), t) /\ Follows(MoveEvents(t), tip, t)
<1>1. CASE Path[t] \ Path[tip] = {}
  <2>1. MoveEvents(t) = <<>>
    BY <1>1 DEF MoveEvents
  <2>2. 1..Len(MoveEvents(t)) = {}
    BY <2>1, EmptySeq
  <2>3. t \in Below(tip)
    BY <1>1, PathHas DEF Below
  <2> QED
    BY <2>2, <2>3 DEF Linked, Follows
<1>2. CASE Path[t] \ Path[tip] # {}
  <2> DEFINE q == Connected(Path[t] \ Path[tip])
  <2>0. t \in Nodes
    BY Parents
  <2>1. PICK n \in Nat \ {0} : \E B \in [1..n -> Blocks] :
              /\ q = [i \in 1..n |-> [type |-> "connected", block |-> B[i]]]
              /\ \A i \in 1..n : B[i] \in Path[t] \ Path[tip]
              /\ B[n] = t
              /\ Parent[B[1]] \in Nodes /\ Path[Parent[B[1]]] = Path[t] \cap Path[tip]
              /\ \A i \in 2..n : Parent[B[i]] = B[i - 1]
    BY <1>2, <2>0, ConnectedBlocks
  <2>2. PICK B \in [1..n -> Blocks] :
              /\ q = [i \in 1..n |-> [type |-> "connected", block |-> B[i]]]
              /\ \A i \in 1..n : B[i] \in Path[t] \ Path[tip]
              /\ B[n] = t
              /\ Parent[B[1]] \in Nodes /\ Path[Parent[B[1]]] = Path[t] \cap Path[tip]
              /\ \A i \in 2..n : Parent[B[i]] = B[i - 1]
    BY <2>1
  <2>3. MoveEvents(t) = q
    BY <1>2 DEF MoveEvents
  <2>4. q \in Seq(Event) /\ \A i \in 1..Len(q) : q[i].type = "connected"
    BY <2>3, MoveEventsType
  <2> HIDE DEF q
  <2>5. q = [i \in 1..n |-> [type |-> "connected", block |-> B[i]]]
    BY <2>2
  <2>6. Len(q) = n
    <3>1. q \in [1..n -> Event]
      BY <2>5, SMTT(30) DEF Event
    <3> QED
      BY <3>1, SeqOf
  <2>7. ASSUME NEW i \in 1..n PROVE q[i].type = "connected" /\ q[i].block = B[i] /\ B[i] \in Blocks
    <3>1. q[i] = [type |-> "connected", block |-> B[i]]
      BY <2>5
    <3> QED
      BY <3>1, SMTT(30)
  <2>8. 1 \in 1..n /\ q # <<>>
    BY <2>6, SMTT(30)
  <2>9. Parent[B[1]] \in Below(tip)
    BY <2>2, PathHas DEF Below, Nodes
  <2>10. Follows(q, tip, t)
    BY <2>7, <2>8, <2>9 DEF Follows
  <2>11. ASSUME NEW j \in 1..n PROVE Reaches(q, j, t, B[j])
    <3>1. B[j] \in Blocks /\ B[j] \in Below(B[j])
      BY <2>7, PathHas DEF Below
    <3>2. CASE j = n
      <4>1. \A i \in (j + 1)..n : FALSE
        BY <3>2, SMTT(30)
      <4>2. t \in Below(B[j])
        BY <2>2, <3>1, <3>2
      <4> QED
        BY <2>6, <4>1, <4>2 DEF Reaches
    <3>3. CASE j # n
      <4>1. /\ j + 1 \in 1..n /\ j + 1 \in 2..n /\ (j + 1) - 1 = j
            /\ \A i \in (j + 1)..n : i # j + 1 => j + 1 \in (j + 1)..(i - 1)
            /\ j + 1 \in (j + 1)..((n + 1) - 1)
        BY <3>3, SMTT(30)
      <4>2. Parent[B[j + 1]] = B[j]
        BY <2>2, <4>1
      <4>3. q[j + 1].type = "connected" /\ Joins(B[j], q[j + 1].block)
        BY <2>7, <3>1, <4>1, <4>2 DEF Joins
      <4>4. ASSUME NEW i \in (j + 1)..n, q[i].type = "promise" PROVE ~Apart(q, j, i, B[j])
        <5>1. i # j + 1
          BY <4>3, <4>4
        <5> QED
          BY <4>1, <4>3, <5>1 DEF Apart
      <4>5. ~Apart(q, j, n + 1, B[j])
        BY <4>1, <4>3 DEF Apart
      <4> QED
        BY <2>6, <4>4, <4>5 DEF Reaches
    <3> QED
      BY <3>2, <3>3
  <2>12. Linked(q, t)
    BY <2>6, <2>7, <2>11 DEF Linked
  <2> QED
    BY <2>3, <2>10, <2>12
<1> QED
  BY <1>1, <1>2

\* ReachInv, when nothing moves for it; ...
LEMMA ReachSame ==
    ASSUME ReachInv, UNCHANGED <<tip, queue>>,
           ~(synced' /\ ~fatal') \/ (synced /\ ~fatal /\ At' = At)
    PROVE  ReachInv'
BY DEF ReachInv

\* ... when events are queued.
LEMMA ReachGrow ==
    ASSUME ReachInv, queue \in Seq(Event), tip \in Nodes, event \in Nodes, best \in Nodes,
           NEW r \in Seq(Event), NEW t \in Nodes, queue' = queue \o r, tip' = t,
           UNCHANGED <<synced, fatal, event, best>>, Linked(r, t), Follows(r, tip, t)
    PROVE  ReachInv'
<1>1. Linked(queue \o r, t)
  BY LinkedConcat DEF ReachInv
<1>2. At \in Nodes /\ At' = At
  BY DEF At
<1>3. 0 \in 0..Len(queue)
  <2>1. Len(queue) \in Nat
    BY LenProperties
  <2> QED
    BY <2>1, SMTT(30)
<1>4. synced /\ ~fatal => Reaches(queue \o r, 0, t, At)
  BY <1>2, <1>3, ReachesConcat DEF ReachInv
<1> QED
  BY <1>1, <1>2, <1>4 DEF ReachInv

\* The events of a flush and of a promise.
LEMMA OneFollows ==
    ASSUME NEW t \in Blocks, NEW e \in Event,
           e.type = "flushed" \/ (e.type = "promise" /\ e.block = t)
    PROVE  <<e>> \in Seq(Event) /\ Linked(<<e>>, t) /\ Follows(<<e>>, t, t)
<1>1. <<e>> \in Seq(Event) /\ 1..Len(<<e>>) = {1} /\ <<e>>[1] = e
  BY OneSeq
<1>2. t \in Path[t] /\ t \in Below(t)
  BY PathHas DEF Below
<1>3. \A i \in 1..Len(<<e>>) : <<e>>[i].type # "connected" /\ (<<e>>[i].type = "promise" => <<e>>[i].block \in Path[t])
  BY <1>1, <1>2
<1> QED
  BY <1>1, <1>2, <1>3 DEF Linked, Follows

\* A move of the chain keeps the invariant of the queue; so do ...
LEMMA ReachMove ==
    ASSUME CInv, ReachInv, (\E t \in Blocks : ActivateBestChain(t)) \/ InvalidateBlock
    PROVE  ReachInv'
<1>0. /\ tip \in Nodes /\ diskTip \in Nodes /\ queue \in Seq(Event)
      /\ event \in Nodes /\ best \in Nodes
  BY DEF CInv, TypeInv
<1>1. PICK t \in Blocks : MoveTo(t) /\ (tip = NoBlock => t = Genesis)
  BY <1>0, Moves
<1> DEFINE m == MoveEvents(t)
<1>2. /\ tip' = t /\ UNCHANGED <<memory, disk, history>>
      /\ \/ queue' = queue \o m
         \/ \E c \in Blocks : /\ tip # NoBlock
                              /\ queue' = (queue \o <<[type |-> "flushed", block |-> c]>>) \o m
  BY <1>0, <1>1, MoveSteps
<1>3. m \in Seq(Event) /\ Linked(m, t) /\ Follows(m, tip, t) /\ t \in Nodes
  BY <1>0, MoveEventsType, MoveLinked, Parents
<1> HIDE DEF m
<1>4. UNCHANGED <<synced, fatal, event, best>>
  BY <1>2 DEF memory
<1>5. CASE queue' = queue \o m
  BY <1>0, <1>2, <1>3, <1>4, <1>5, ReachGrow
<1>6. ASSUME NEW c \in Blocks, tip # NoBlock,
             queue' = (queue \o <<[type |-> "flushed", block |-> c]>>) \o m
      PROVE  ReachInv'
  <2> DEFINE e == [type |-> "flushed", block |-> c]
             q == queue \o <<e>>
  <2>1. e \in Event /\ e.type = "flushed" /\ tip \in Blocks
    BY <1>0, <1>6 DEF Event, Nodes
  <2>2. queue' = q \o m
    BY <1>6
  <2> HIDE DEF e
  <2>3. <<e>> \in Seq(Event) /\ Linked(<<e>>, tip) /\ Follows(<<e>>, tip, tip)
    BY <2>1, OneFollows
  <2>4. q \in Seq(Event) /\ Linked(q, tip)
    BY <1>0, <2>3, ConcatProperties, LinkedConcat DEF ReachInv
  <2>5. At \in Nodes /\ At' = At
    BY <1>0, <1>4 DEF At
  <2>6. 0 \in 0..Len(queue) /\ 0 \in 0..Len(q)
    <3>1. Len(queue) \in Nat /\ Len(q) \in Nat
      BY <1>0, <2>4, LenProperties
    <3> HIDE DEF q
    <3> QED
      BY <3>1, SMTT(30)
  <2>7. synced /\ ~fatal => Reaches(q, 0, tip, At)
    BY <1>0, <2>3, <2>5, <2>6, ReachesConcat DEF ReachInv
  <2> HIDE DEF q
  <2>8. Linked(q \o m, t)
    BY <1>0, <1>3, <2>4, LinkedConcat
  <2>9. synced /\ ~fatal => Reaches(q \o m, 0, t, At)
    BY <1>0, <1>3, <2>4, <2>5, <2>6, <2>7, ReachesConcat
  <2> QED
    BY <1>2, <1>4, <2>2, <2>5, <2>8, <2>9 DEF ReachInv
<1> QED
  BY <1>2, <1>5, <1>6

\* ... a flush, ...
LEMMA ReachFlush ==
    ASSUME CInv, ReachInv, FlushStateToDisk
    PROVE  ReachInv'
<1> DEFINE e == [type |-> "flushed", block |-> tip]
<1>1. tip # NoBlock /\ tip' = tip /\ UNCHANGED memory /\ queue' = queue \o <<e>>
  BY DEF FlushStateToDisk, FlushEvent
<1>2. /\ tip \in Blocks /\ tip \in Nodes /\ queue \in Seq(Event) /\ event \in Nodes /\ best \in Nodes
      /\ UNCHANGED <<synced, fatal, event, best>>
  BY <1>1 DEF CInv, TypeInv, Nodes, memory
<1>3. e \in Event /\ e.type = "flushed"
  BY <1>2 DEF Event
<1> HIDE DEF e
<1>4. <<e>> \in Seq(Event) /\ Linked(<<e>>, tip) /\ Follows(<<e>>, tip, tip)
  BY <1>2, <1>3, OneFollows
<1> QED
  BY <1>1, <1>2, <1>4, ReachGrow

\* ... a promise, ...
LEMMA ReachPromise ==
    ASSUME CInv, ReachInv, BlockUntilSyncedToCurrentChain
    PROVE  ReachInv'
<1> DEFINE e == [type |-> "promise", block |-> tip]
<1>1. synced /\ best # NoBlock /\ UNCHANGED <<tip, memory>> /\ queue' = Append(queue, e)
  BY DEF BlockUntilSyncedToCurrentChain
<1>2. tip # NoBlock
  BY <1>1 DEF CInv, StartInv
<1>3. /\ tip \in Blocks /\ tip \in Nodes /\ queue \in Seq(Event) /\ event \in Nodes /\ best \in Nodes
      /\ UNCHANGED <<synced, fatal, event, best>>
  BY <1>1, <1>2 DEF CInv, TypeInv, Nodes, memory
<1>4. e \in Event /\ e.type = "promise" /\ e.block = tip
  BY <1>3 DEF Event
<1> HIDE DEF e
<1>5. <<e>> \in Seq(Event) /\ Linked(<<e>>, tip) /\ Follows(<<e>>, tip, tip)
  BY <1>3, <1>4, OneFollows
<1>6. queue' = queue \o <<e>>
  BY <1>1, <1>3, <1>4, SMTT(30)
<1> QED
  BY <1>1, <1>3, <1>5, <1>6, ReachGrow

\* ... a start of the process (with nothing queued), ...
LEMMA ReachIndexInit ==
    ASSUME CInv, NEW t \in Nodes, IndexInit(t)
    PROVE  ReachInv'
<1>1. locator \in Nodes
  BY DEF CInv, TypeInv
<1>2. tip' = t /\ queue' = <<>> /\ synced' = (best' = t) /\ event' = NoBlock
  BY <1>1, IndexStart
<1>3. Len(queue') = 0 /\ 1..Len(queue') = {}
  BY <1>2, EmptySeq
<1>4. \A i \in (0 + 1)..0 : FALSE
  BY SMTT(30)
<1>5. synced' => t \in Below(At')
  BY <1>2, BelowSelf DEF At
<1> QED
  BY <1>2, <1>3, <1>4, <1>5 DEF ReachInv, Linked, Reaches

\* ... the thread (which becomes synced only at the tip, with the events it has missed queued), ...
LEMMA ReachThread ==
    ASSUME CInv, ReachInv, ThreadSync
    PROVE  ReachInv'
<1>0. /\ tip \in Nodes /\ pindex \in Nodes /\ queue \in Seq(Event) /\ ControlInv /\ StartInv
  BY DEF CInv, TypeInv
<1>1. UNCHANGED <<tip, queue, event>>
  BY DEF ThreadSync, SyncInterrupted, SyncDone, CommitPosition, CommitLocator, CommitBatch, SyncNext,
         SyncRewind, SyncRewound, SyncLocator, SyncWrite, chain
<1>2. CASE SyncDone
  <2>1. pc = "loop" /\ NextSyncBlock(pindex) = NoBlock /\ best' = pindex
    BY <1>2 DEF SyncDone
  <2>2. ~synced /\ hpc = "idle" /\ event = NoBlock
    BY <1>0, <2>1 DEF ControlInv
  <2>3. At' = pindex
    BY <1>1, <2>1, <2>2 DEF At
  <2>4. Path[tip] \subseteq Path[pindex]
    BY <1>0, <2>1, NextBlock
  <2>5. tip \in Below(pindex)
    BY <1>0, <2>4, PathHas DEF Below, Nodes
  <2>6. \A i \in 1..Len(queue) : queue[i].type # "promise"
    BY <1>0, <2>2 DEF StartInv
  <2>7. \A i \in (0 + 1)..Len(queue) : i \in 1..Len(queue)
    BY SMTT(30)
  <2>8. Reaches(queue, 0, tip, pindex)
    BY <2>5, <2>6, <2>7 DEF Reaches
  <2> QED
    BY <1>1, <2>3, <2>8 DEF ReachInv
<1>3. CASE CommitPosition \/ CommitLocator \/ CommitBatch
  <2>1. UNCHANGED <<synced, fatal, best>>
    BY <1>3 DEF CommitPosition, CommitLocator, CommitBatch
  <2>2. At' = At
    BY <1>1, <2>1 DEF At
  <2> QED
    BY <1>1, <2>1, <2>2, ReachSame
<1>4. CASE ~(SyncDone \/ CommitPosition \/ CommitLocator \/ CommitBatch)
  <2>1. pc \in {"loop", "locator", "write", "rewind"} /\ synced' = synced
    BY <1>4 DEF ThreadSync, SyncInterrupted, SyncNext, SyncRewind, SyncRewound, SyncLocator, SyncWrite
  <2>2. ~synced'
    BY <1>0, <2>1 DEF ControlInv
  <2> QED
    BY <1>1, <2>2, ReachSame
<1> QED
  BY <1>2, <1>3, <1>4

\* ... and the callbacks.
LEMMA ReachCallbacks ==
    ASSUME CInv, ReachInv, Callbacks
    PROVE  ReachInv'
<1>0. /\ tip \in Nodes /\ queue \in Seq(Event) /\ ControlInv /\ StartInv
  BY DEF CInv, TypeInv
<1>1. CASE BlockConnected
  <2>1. PICK b \in Blocks :
          /\ hpc = "idle" /\ event = NoBlock
          /\ queue # <<>> /\ queue[1].type = "connected" /\ queue[1].block = b
          /\ queue' = Tail(queue)
          /\ UNCHANGED <<tip, diskTip, timed, batchPos, batchBest, synced, pindex, pc, pos, ahead, early, gap>>
          /\ Ignored(b) \/ Uncopied(b) \/ Taken(b)
    BY <1>1, BlockConnectedSteps
  <2>2. UNCHANGED <<tip, synced>>
    BY <2>1
  <2>3. Linked(queue', tip') /\ Reaches(queue', 0, tip', b)
    BY <1>0, <2>1, <2>2, LinkedTail DEF ReachInv
  <2>4. CASE Ignored(b)
    <3>1. UNCHANGED <<best, event, fatal>> /\ (~synced \/ ~Joins(best, b))
      BY <2>4 DEF Ignored, Connects, Joins, Below
    <3>2. At = best /\ At' = best
      BY <2>1, <3>1 DEF At
    <3>3. ASSUME synced, ~fatal PROVE Reaches(queue', 0, tip, best)
      <4>1. Reaches(queue, 0, tip, best)
        BY <3>2, <3>3 DEF ReachInv
      <4>2. Reaches(queue, 1, tip, best)
        BY <1>0, <2>1, <3>1, <3>3, <4>1, ReachesFirst
      <4>3. 1 \in 1..Len(queue) /\ 1 - 1 = 0
        <5>1. 1 - 1 = 0
          BY SMTT(30)
        <5> QED
          BY <1>0, <2>1, <5>1, EmptySeq
      <4> QED
        BY <1>0, <2>1, <4>2, <4>3, ReachesTail
    <3> QED
      BY <2>2, <2>3, <3>1, <3>2, <3>3 DEF ReachInv
  <2>5. CASE Uncopied(b)
    BY <2>3, <2>5 DEF Uncopied, ReachInv
  <2>6. CASE Taken(b)
    <3>1. At' = b
      BY <2>6, Parents DEF Taken, At
    <3> QED
      BY <2>3, <3>1 DEF ReachInv
  <2> QED
    BY <2>1, <2>4, <2>5, <2>6
<1>2. CASE RewindCommit
  <2>1. UNCHANGED <<tip, queue, synced, fatal, best, event>>
    BY <1>2 DEF RewindCommit, chain
  <2>2. At' = At
    BY <2>1 DEF At
  <2> QED
    BY <2>1, <2>2, ReachSame
<1>3. CASE WriteConnected \/ BestConnected
  <2>1. /\ hpc \in {"write", "best"} /\ UNCHANGED <<tip, queue, synced>>
        /\ \/ UNCHANGED <<best, event, fatal>>
           \/ best' = event /\ event' = NoBlock /\ fatal' = fatal
           \/ fatal' = TRUE
    BY <1>3 DEF WriteConnected, BestConnected, chain, FatalError
  <2>2. event # NoBlock
    BY <1>0, <2>1 DEF ControlInv
  <2>3. CASE fatal' = TRUE
    BY <2>1, <2>3, ReachSame
  <2>4. CASE fatal' # TRUE
    <3>1. At' = At /\ fatal' = fatal
      BY <2>1, <2>2, <2>4 DEF At
    <3> QED
      BY <2>1, <3>1, ReachSame
  <2> QED
    BY <2>3, <2>4
<1>4. CASE ChainStateFlushed \/ KeepPromise
  <2>1. /\ queue # <<>> /\ queue' = Tail(queue) /\ Head(queue).type # "connected"
        /\ UNCHANGED <<tip, memory>>
    BY <1>4 DEF ChainStateFlushed, KeepPromise, NextIs, Delivered
  <2>2. UNCHANGED <<best, synced, event, fatal>>
    BY <2>1 DEF memory
  <2>3. At' = At
    BY <2>2 DEF At
  <2>4. Head(queue) = queue[1]
    BY <1>0, <2>1, HeadTailProperties
  <2>5. Linked(queue', tip)
    BY <1>0, <2>1, LinkedTail DEF ReachInv
  <2>6. ASSUME synced, ~fatal PROVE Reaches(queue', 0, tip, At)
    <3>1. Reaches(queue, 1, tip, At)
      BY <1>0, <2>1, <2>4, <2>6, ReachesFirst DEF ReachInv
    <3>2. 1 - 1 = 0
      BY SMTT(30)
    <3>3. 1 \in 1..Len(queue)
      BY <1>0, <2>1, EmptySeq
    <3> QED
      BY <1>0, <2>1, <3>1, <3>2, <3>3, ReachesTail
  <2> QED
    BY <2>1, <2>2, <2>3, <2>5, <2>6 DEF ReachInv
<1> QED
  BY <1>1, <1>2, <1>3, <1>4 DEF Callbacks

\* It holds at first.
LEMMA ReachInit == Init => ReachInv
<1> SUFFICES ASSUME Init PROVE ReachInv
  OBVIOUS
<1>1. Len(queue) = 0 /\ 1..Len(queue) = {}
  BY EmptySeq DEF Init
<1>2. \A i \in (0 + 1)..0 : FALSE
  BY SMTT(30)
<1>3. synced => tip \in Below(At)
  BY DEF Init, At, Below
<1> QED
  BY <1>1, <1>2, <1>3 DEF ReachInv, Linked, Reaches

\* Every step keeps it.
LEMMA ReachNext == CInv /\ ReachInv /\ [Next]_vars => ReachInv'
<1> SUFFICES ASSUME CInv, ReachInv, [Next]_vars PROVE ReachInv'
  OBVIOUS
<1>1. CASE Crash \/ AssertFails
  <2>1. diskTip \in Nodes /\ IndexInit(diskTip)
    BY <1>1 DEF Crash, AssertFails, Die, CInv, TypeInv
  <2> QED
    BY <2>1, ReachIndexInit
<1>2. CASE Restart
  <2>1. tip \in Nodes /\ IndexInit(tip)
    BY <1>2 DEF Restart, CInv, TypeInv
  <2> QED
    BY <2>1, ReachIndexInit
<1>3. CASE Interrupt \/ UNCHANGED vars
  <2>1. UNCHANGED <<tip, queue, best, event, synced, fatal>>
    BY <1>3 DEF Interrupt, vars, chain, memory
  <2>2. At' = At
    BY <2>1 DEF At
  <2> QED
    BY <2>1, <2>2, ReachSame
<1> QED
  BY <1>1, <1>2, <1>3, ReachMove, ReachFlush, ReachThread, ReachCallbacks, ReachPromise DEF Next

\* BlockUntilSyncedToCurrentChain: whatever the chain does meanwhile, when the promise is
\* kept the index is at or above the block that was the tip at the time of the call.
THEOREM PromiseSafe == Spec => []SyncedMeansIndexed
<1>1. CInv /\ ReachInv => SyncedMeansIndexed
  <2> SUFFICES ASSUME CInv, ReachInv, hpc = "idle", queue # <<>>, Head(queue).type = "promise", ~fatal
               PROVE  Head(queue).block \in Path[best]
    BY DEF SyncedMeansIndexed
  <2>1. queue \in Seq(Event) /\ event = NoBlock
    BY DEF CInv, TypeInv, ControlInv
  <2>2. Head(queue) = queue[1] /\ 1 \in 1..Len(queue)
    BY <2>1, HeadTailProperties, EmptySeq
  <2>3. synced
    BY <2>2 DEF CInv, StartInv
  <2>4. At = best
    BY <2>1 DEF At
  <2>5. Apart(queue, 0, 1, best)
    <3>1. \A k \in (0 + 1)..(1 - 1) : FALSE
      BY SMTT(30)
    <3> QED
      BY <3>1 DEF Apart
  <2>6. 1 \in (0 + 1)..Len(queue)
    BY <2>2, SMTT(30)
  <2> QED
    BY <2>2, <2>3, <2>4, <2>5, <2>6 DEF ReachInv, Reaches
<1> QED
  BY <1>1, CInit, CNext, ReachInit, ReachNext, PTL DEF Spec

-----------------------------------------------------------------------------
(* What the disk holds.                                                    *)

DiskTypes ==
    /\ pos \in Nat /\ dbPos \in Nat /\ 1 <= dbPos /\ dbPos <= pos
    /\ file \in Seq(Blocks) /\ pos - 1 <= Len(file)
    /\ heightIdx \in [Heights -> [block : Nodes, pos : Nat]]
    /\ left \subseteq Blocks

\* The entry of the height of b is the one of b, and its filter lies below position p.
Entry(H, F, p, b) ==
    LET e == H[Height(b)] IN e.block = b /\ e.pos \in 1..(p - 1) /\ F[e.pos] = b

\* The index has its own chain; the database has the chain of the locator, and the blocks
\* left behind, below the position that was committed with them, except for blocks that
\* are named early; and what the locator names beyond the index's chain is known to be
\* ahead of it.  The last does not hold while a Rewind is between its two batches.
DiskInv ==
    /\ DiskTypes
    /\ \A b \in Path[Indexed] \ gap : Entry(heightIdx, file, pos, b)
    /\ \A b \in Path[locator] \ (gap \cup early) : Entry(heightIdx, file, dbPos, b)
    /\ hpc # "commit" /\ pc # "failed" =>
          Path[locator] \ Path[Indexed] \subseteq early \cup ahead \cup gap
    /\ gap = {} => \A b \in left :
          /\ hashIdx[b] \in 1..(pos - 1) /\ file[hashIdx[b]] = b
          /\ b \notin early => hashIdx[b] \in 1..(dbPos - 1)
    /\ fatal => gap # {}

\* While the last Commit of the thread waits to be written, callbacks only add to the chain
\* it names, and to the file, or are about to rewind: they cannot before it is written.
\* And BlockConnected makes a block m_best_block_index when it is written.
WindowInv ==
    /\ pc \in {"final_locator", "final_batch"} =>
          batchPos \in Nat /\ 1 <= batchPos /\ batchPos <= pos
    /\ pc = "final_batch" =>
          /\ \A b \in Path[batchBest] \ gap : Entry(heightIdx, file, pos, b)
          /\ hpc # "commit" => Path[batchBest] \subseteq Path[best]
    /\ hpc = "best" => Entry(heightIdx, file, pos, event)

\* It is what the properties say.
LEMMA DiskSafe == DiskInv => IndexExact /\ StaleFiltersKept /\ NeverFatal
<1> SUFFICES ASSUME DiskInv PROVE IndexExact /\ StaleFiltersKept /\ NeverFatal
  OBVIOUS
<1>1. IndexExact
  BY DEF DiskInv, IndexExact, Entry, Readable
<1>2. StaleFiltersKept
  <2> SUFFICES ASSUME gap = {}, NEW b \in left PROVE Readable(b, hashIdx[b])
    BY DEF StaleFiltersKept
  <2> QED
    BY DEF DiskInv, Readable
<1>3. NeverFatal
  BY DEF DiskInv, NeverFatal
<1> QED
  BY <1>1, <1>2, <1>3

\* An entry stays one when the position grows.
LEMMA EntryLater ==
    ASSUME NEW H, NEW F, NEW b, NEW p \in Nat, NEW p2 \in Nat, p <= p2, Entry(H, F, p, b)
    PROVE  Entry(H, F, p2, b)
<1>1. \A x \in 1..(p - 1) : x \in 1..(p2 - 1)
  BY SMTT(30)
<1> QED
  BY <1>1 DEF Entry

\* Nothing is indexed at first.
LEMMA DiskInit == Init => DiskInv
<1> SUFFICES ASSUME Init PROVE DiskInv
  OBVIOUS
<1>1. DiskTypes
  <2>1. None \in [block : Nodes, pos : Nat]
    BY Parents, SMTT(30) DEF None
  <2>2. heightIdx \in [Heights -> [block : Nodes, pos : Nat]]
    BY <2>1 DEF Init
  <2>3. file \in Seq(Blocks) /\ Len(file) = 0
    BY EmptySeq DEF Init
  <2>4. pos = 1 /\ dbPos = 1 /\ left = {}
    BY DEF Init
  <2> QED
    BY <2>2, <2>3, <2>4, SMTT(30) DEF DiskTypes
<1>2. Indexed = NoBlock
  BY DEF Init, Indexed
<1>3. Path[Indexed] = {} /\ Path[locator] = {}
  BY <1>2, PathNone DEF Init
<1> QED
  BY <1>1, <1>3 DEF Init, DiskInv

\* DiskInv, when the disk is left alone; ...
LEMMA DiskSame ==
    ASSUME DiskInv, UNCHANGED <<locator, dbPos, file, heightIdx, hashIdx, pos, left, early, ahead, gap>>,
           Path[Indexed'] \subseteq Path[Indexed],
           \/ hpc' = "commit" \/ pc' = "failed"
           \/ hpc # "commit" /\ pc # "failed" /\ Indexed' = Indexed,
           fatal' => gap # {}
    PROVE  DiskInv'
<1>1. DiskTypes'
  BY DEF DiskInv, DiskTypes
<1>2. \A b \in Path[Indexed'] \ gap : Entry(heightIdx, file, pos, b)
  BY DEF DiskInv
<1>3. hpc' # "commit" /\ pc' # "failed" =>
          Path[locator] \ Path[Indexed'] \subseteq early \cup ahead \cup gap
  BY DEF DiskInv
<1> QED
  BY <1>1, <1>2, <1>3 DEF DiskInv

\* ... when the state is committed; ...
LEMMA DiskCommit ==
    ASSUME DiskInv, UNCHANGED <<file, heightIdx, hashIdx, pos, left>>, dbPos' = pos,
           gap \subseteq gap', Path[Indexed'] \subseteq Path[Indexed],
           Path[locator'] \subseteq Path[Indexed'] \cup early' \cup gap',
           fatal' => gap' # {}
    PROVE  DiskInv'
<1>0. pos \in Nat /\ dbPos \in Nat /\ dbPos <= pos /\ DiskTypes
  BY DEF DiskInv, DiskTypes
<1>1. DiskTypes'
  <2>1. 1 <= pos /\ pos <= pos
    BY <1>0, SMTT(30) DEF DiskTypes
  <2> QED
    BY <1>0, <2>1 DEF DiskTypes
<1>2. \A b \in Path[Indexed'] \ gap' : Entry(heightIdx, file, pos, b)
  BY DEF DiskInv
<1>3. \A b \in Path[locator'] \ (gap' \cup early') : b \in Path[Indexed'] \ gap'
  OBVIOUS
<1>4. \A b \in Path[locator'] \ (gap' \cup early') : Entry(heightIdx, file, pos, b)
  BY <1>2, <1>3
<1>5. Path[locator'] \ Path[Indexed'] \subseteq early' \cup ahead' \cup gap'
  OBVIOUS
<1>6. gap' = {} => \A b \in left : hashIdx[b] \in 1..(pos - 1) /\ file[hashIdx[b]] = b
  BY DEF DiskInv
<1> QED
  BY <1>1, <1>2, <1>4, <1>5, <1>6 DEF DiskInv

\* ... when m_best_block_index is set to a block that is written; ...
LEMMA DiskBest ==
    ASSUME DiskInv, UNCHANGED <<locator, dbPos, file, heightIdx, hashIdx, pos, left, early, ahead, gap>>,
           NEW b \in Blocks, Indexed = Parent[b], Indexed' = b, Entry(heightIdx, file, pos, b),
           hpc # "commit", pc # "failed", fatal' => gap # {}
    PROVE  DiskInv'
<1>1. DiskTypes'
  BY DEF DiskInv, DiskTypes
<1>2. Path[b] = Path[Parent[b]] \cup {b}
  BY PathStep
<1>3. \A c \in Path[b] \ gap : Entry(heightIdx, file, pos, c)
  BY <1>2 DEF DiskInv
<1>4. Path[locator] \ Path[b] \subseteq early \cup ahead \cup gap
  BY <1>2 DEF DiskInv
<1> QED
  BY <1>1, <1>3, <1>4 DEF DiskInv

\* ... when the last Commit of the thread is written: a filter beyond the position is one of
\* a block named early; ...
LEMMA DiskBatch ==
    ASSUME DiskInv, WindowInv, CommitBatch, Indexed = best, Indexed' = best
    PROVE  DiskInv'
<1>0. /\ DiskTypes /\ pos \in Nat /\ (fatal => gap # {})
      /\ batchPos \in Nat /\ 1 <= batchPos /\ batchPos <= pos
      /\ \A b \in Path[batchBest] \ gap : Entry(heightIdx, file, pos, b)
      /\ hpc # "commit" => Path[batchBest] \subseteq Path[best]
  BY DEF DiskInv, DiskTypes, WindowInv, CommitBatch
<1>1. /\ locator' = batchBest /\ dbPos' = batchPos /\ ahead' = {}
      /\ early' = {file[i] : i \in batchPos..(pos - 1)} \cap (Path[batchBest] \cup left)
      /\ UNCHANGED <<best, hpc, pos, fatal, file, heightIdx, hashIdx, left, gap>>
  BY DEF CommitBatch
<1>2. \A x \in 1..(pos - 1) : x \in batchPos..(pos - 1) \/ x \in 1..(batchPos - 1)
  BY <1>0, SMTT(30)
<1>3. \A x \in 1..(pos - 1) : x \in 1..(batchPos - 1) \/ file[x] \in {file[i] : i \in batchPos..(pos - 1)}
  BY <1>2
<1>4. DiskTypes'
  BY <1>0, <1>1 DEF DiskTypes
<1>5. ASSUME NEW b \in Path[batchBest] \ (gap \cup early') PROVE Entry(heightIdx, file, batchPos, b)
  <2>1. Entry(heightIdx, file, pos, b)
    BY <1>0
  <2> DEFINE e == heightIdx[Height(b)]
  <2>2. e.block = b /\ e.pos \in 1..(pos - 1) /\ file[e.pos] = b
    BY <2>1 DEF Entry
  <2>3. b \notin {file[i] : i \in batchPos..(pos - 1)}
    BY <1>1
  <2>4. e.pos \in 1..(batchPos - 1)
    BY <1>3, <2>2, <2>3
  <2> QED
    BY <2>2, <2>4 DEF Entry
<1>6. ASSUME gap = {}, NEW b \in left
      PROVE  /\ hashIdx[b] \in 1..(pos - 1) /\ file[hashIdx[b]] = b
             /\ b \notin early' => hashIdx[b] \in 1..(batchPos - 1)
  <2>1. hashIdx[b] \in 1..(pos - 1) /\ file[hashIdx[b]] = b
    BY <1>6 DEF DiskInv
  <2>2. hashIdx[b] \in 1..(batchPos - 1) \/ b \in {file[i] : i \in batchPos..(pos - 1)}
    BY <1>3, <2>1
  <2> QED
    BY <1>1, <2>1, <2>2
<1>7. \A b \in Path[Indexed'] \ gap : Entry(heightIdx, file, pos, b)
  BY DEF DiskInv
<1>8. hpc # "commit" => Path[batchBest] \ Path[Indexed'] \subseteq early' \cup ahead' \cup gap
  BY <1>0
<1> QED
  BY <1>0, <1>1, <1>4, <1>5, <1>6, <1>7, <1>8 DEF DiskInv

\* A block is written at a height that no block of the chain below it has.
LEMMA WriteEntry ==
    ASSUME DiskTypes, NEW b \in Blocks, WriteBlock(b), NEW c \in Blocks, Height(c) # Height(b),
           NEW p \in Nat, p <= pos, Entry(heightIdx, file, p, c)
    PROVE  Entry(heightIdx', file', p, c)
<1> DEFINE e == heightIdx[Height(c)]
<1>1. heightIdx'[Height(c)] = e
  <2>1. Height(c) \in Heights /\ Height(b) \in Heights
    BY HeightStep
  <2> QED
    BY <2>1 DEF WriteBlock, DiskTypes
<1>2. e.block = c /\ e.pos \in 1..(p - 1) /\ file[e.pos] = c
  BY DEF Entry
<1> HIDE DEF e
<1>3. e.pos \in 1..pos /\ e.pos # pos
  BY <1>2, SMTT(30) DEF DiskTypes
<1>4. file'[e.pos] = file[e.pos]
  BY <1>3 DEF WriteBlock
<1> QED
  BY <1>1, <1>2, <1>4 DEF Entry

\* The block written has its entry.
LEMMA WrittenEntry ==
    ASSUME DiskTypes, NEW b \in Blocks, WriteBlock(b)
    PROVE  Entry(heightIdx', file', pos', b)
<1>0. pos \in Nat /\ 1 <= pos /\ pos' = pos + 1
  BY SMTT(30) DEF DiskTypes, WriteBlock
<1>1. file' = [i \in 1..pos |-> IF i = pos THEN b ELSE file[i]]
  BY DEF WriteBlock
<1>2. Height(b) \in Heights
  BY HeightStep
<1>3. heightIdx' = [heightIdx EXCEPT ![Height(b)] = [block |-> b, pos |-> pos]]
  BY DEF WriteBlock
<1>4. heightIdx'[Height(b)] = [block |-> b, pos |-> pos]
  BY <1>2, <1>3 DEF DiskTypes
<1>5. heightIdx'[Height(b)].block = b /\ heightIdx'[Height(b)].pos = pos
  BY <1>4, SMTT(30)
<1>6. pos \in 1..(pos' - 1) /\ pos \in 1..pos
  BY <1>0, SMTT(30)
<1>7. file'[pos] = b
  BY <1>1, <1>6
<1> QED
  BY <1>5, <1>6, <1>7 DEF Entry

\* No block below b has its height.
LEMMA OtherHeight ==
    ASSUME NEW b \in Blocks, NEW c \in Path[Parent[b]]
    PROVE  c \in Blocks /\ Height(c) # Height(b)
<1>1. c \in Path[b] /\ b \in Path[b] /\ c # b /\ b \in Nodes
  BY PathStep, NoCycle, Parents
<1> QED
  BY <1>1, PathTrans, HeightOnly

\* DiskInv, when a block is written; ...
LEMMA DiskWrite ==
    ASSUME DiskInv, NEW b \in Blocks, WriteBlock(b), Indexed = Parent[b], Indexed' \in {b, Parent[b]},
           hpc # "commit", pc # "failed", locator \in Nodes,
           UNCHANGED <<gap, left>>, fatal' => gap # {}
    PROVE  DiskInv'
<1>0. /\ DiskTypes /\ pos \in Nat /\ dbPos \in Nat /\ 1 <= dbPos /\ dbPos <= pos
      /\ pos' = pos + 1 /\ early' = early \cup ahead /\ UNCHANGED <<locator, dbPos, hashIdx, ahead>>
  BY DEF DiskInv, DiskTypes, WriteBlock
<1>1. pos' \in Nat /\ pos <= pos' /\ dbPos <= pos'
  BY <1>0, SMTT(30)
<1>2. file' \in [1..pos -> Blocks] /\ \A i \in 1..pos : file'[i] = IF i = pos THEN b ELSE file[i]
  <2>1. file' = [i \in 1..pos |-> IF i = pos THEN b ELSE file[i]]
    BY DEF WriteBlock
  <2>2. \A i \in 1..pos : i # pos => file[i] \in Blocks
    BY <1>0, SMTT(30) DEF DiskTypes
  <2> QED
    BY <2>1, <2>2
<1>3. file' \in Seq(Blocks) /\ Len(file') = pos
  BY <1>0, <1>2, SeqOf
<1>4. pos' - 1 <= Len(file')
  BY <1>0, <1>3, SMTT(30)
<1>5. Height(b) \in Heights /\ [block |-> b, pos |-> pos] \in [block : Nodes, pos : Nat]
  BY <1>0, HeightStep, Parents
<1>6. heightIdx' = [heightIdx EXCEPT ![Height(b)] = [block |-> b, pos |-> pos]]
  BY DEF WriteBlock
<1>7. heightIdx' \in [Heights -> [block : Nodes, pos : Nat]]
  BY <1>0, <1>5, <1>6 DEF DiskTypes
<1>8. DiskTypes'
  BY <1>0, <1>1, <1>3, <1>4, <1>7 DEF DiskTypes
<1>9. \A c \in Path[Parent[b]] : c \in Blocks /\ Height(c) # Height(b)
  BY OtherHeight
<1>10. Entry(heightIdx', file', pos', b)
  BY <1>0, WrittenEntry
<1>11. ASSUME NEW c \in Path[b] \ gap PROVE Entry(heightIdx', file', pos', c)
  <2>1. CASE c = b
    BY <1>10, <2>1
  <2>2. CASE c # b
    <3>1. c \in Path[Parent[b]] /\ c \in Path[Indexed] \ gap
      BY <2>2, PathStep
    <3>2. Entry(heightIdx, file, pos, c)
      BY <3>1 DEF DiskInv
    <3>3. pos <= pos
      BY <1>0, SMTT(30)
    <3>4. Entry(heightIdx', file', pos, c)
      BY <1>0, <1>9, <3>1, <3>2, <3>3, WriteEntry
    <3> QED
      BY <1>0, <1>1, <3>4, EntryLater
  <2> QED
    BY <2>1, <2>2
<1>12. ASSUME NEW c \in Path[locator] \ (gap \cup early') PROVE Entry(heightIdx', file', dbPos, c)
  <2>1. c \in Path[Parent[b]]
    BY <1>0 DEF DiskInv
  <2>2. Entry(heightIdx, file, dbPos, c)
    BY <1>0 DEF DiskInv
  <2> QED
    BY <1>0, <1>9, <2>1, <2>2, WriteEntry
<1>13. Path[Parent[b]] \subseteq Path[b]
  BY PathStep
<1>14. Path[locator] \ Path[Indexed'] \subseteq early' \cup ahead' \cup gap
  BY <1>0, <1>13 DEF DiskInv
<1>15. \A c \in Path[Indexed'] \ gap : Entry(heightIdx', file', pos', c)
  BY <1>11, <1>13
<1>16. ASSUME gap = {}, NEW c \in left
       PROVE  /\ hashIdx[c] \in 1..(pos' - 1) /\ file'[hashIdx[c]] = c
              /\ c \notin early' => hashIdx[c] \in 1..(dbPos - 1)
  <2>1. /\ hashIdx[c] \in 1..(pos - 1) /\ file[hashIdx[c]] = c
        /\ c \notin early => hashIdx[c] \in 1..(dbPos - 1)
    BY <1>16 DEF DiskInv
  <2>2. \A i \in 1..(pos - 1) : i \in 1..pos /\ i # pos /\ i \in 1..(pos' - 1)
    BY <1>0, SMTT(30)
  <2> QED
    BY <1>0, <1>2, <2>1, <2>2
<1> QED
  BY <1>0, <1>8, <1>12, <1>14, <1>15, <1>16 DEF DiskInv

\* WriteBlock finds the parent's entry.
LEMMA WriteOk ==
    ASSUME DiskInv, gap = {}, NEW b \in Blocks, Indexed = Parent[b]
    PROVE  CanWrite(b)
<1>1. CASE b = Genesis
  BY <1>1 DEF CanWrite
<1>2. CASE b # Genesis
  <2>1. Parent[b] \in Blocks
    BY <1>2, Parents DEF Nodes
  <2>2. Parent[b] \in Path[Indexed] \ gap
    BY <2>1, PathHas
  <2>3. heightIdx[Height(Parent[b])].block = Parent[b]
    BY <2>2 DEF DiskInv, Entry
  <2>4. Height(Parent[b]) = Height(b) - 1
    BY HeightStep
  <2> QED
    BY <2>3, <2>4 DEF CanWrite
<1> QED
  BY <1>1, <1>2

\* CopyHeightIndexToHashIndex meets the entries of the index's chain.
LEMMA CopiedEntries ==
    ASSUME DiskInv, gap = {}, NEW b \in Blocks, NEW f \in Path[b], Indexed = b
    PROVE  \A e \in Copied(b, f) : e.block \in Blocks /\ e.pos \in 1..(pos - 1) /\ file[e.pos] = e.block
<1> SUFFICES ASSUME NEW h \in Height(f)..Height(b)
             PROVE  /\ heightIdx[h].block \in Blocks /\ heightIdx[h].pos \in 1..(pos - 1)
                    /\ file[heightIdx[h].pos] = heightIdx[h].block
  BY DEF Copied
<1>1. f \in Blocks /\ b \in Nodes
  BY Parents, PathTrans
<1>2. Height(f) \in Nat /\ Height(b) \in Nat
  BY <1>1, HeightStep
<1>3. h \in Int /\ -1 < h /\ h <= Height(b)
  BY <1>2, SMTT(30)
<1>4. Height(NoBlock) < h
  BY <1>3, HeightNone
<1>5. \E c \in Path[b] \ Path[NoBlock] : Height(c) = h
  BY <1>1, <1>3, <1>4, AtHeight, PathNone, Parents
<1>6. PICK c \in Path[b] : Height(c) = h
  BY <1>5
<1>7. c \in Blocks
  BY <1>1, PathTrans
<1>8. Entry(heightIdx, file, pos, c)
  BY DEF DiskInv
<1> QED
  BY <1>6, <1>7, <1>8 DEF Entry

\* Rewind finds every entry it copies.
LEMMA CopyOk ==
    ASSUME DiskInv, gap = {}, NEW b \in Blocks, NEW f \in Path[b], Indexed = b
    PROVE  CanCopy(b, f)
<1>1. None.block = NoBlock
  BY SMTT(30) DEF None
<1>2. \A e \in Copied(b, f) : e.block \in Blocks
  BY CopiedEntries
<1> QED
  BY <1>1, <1>2, Parents DEF CanCopy

\* ... when blocks are copied out: each block left behind has its entry among those copied.
LEMMA DiskCopy ==
    ASSUME DiskInv, NEW b \in Blocks, NEW f \in Path[b], Indexed = b, CopyOut(b, f),
           UNCHANGED <<pos, ahead, early, gap>>, Path[Indexed'] \subseteq Path[b],
           \/ hpc' = "commit"
           \/ hpc # "commit" /\ pc # "failed" /\ Indexed' = Indexed,
           fatal' => gap # {}
    PROVE  DiskInv'
<1>0. /\ DiskTypes /\ pos \in Nat /\ dbPos \in Nat /\ 1 <= dbPos /\ dbPos <= pos
      /\ dbPos' = pos /\ UNCHANGED <<locator, file, heightIdx>>
      /\ hashIdx' = HashIdxWith(b, f) /\ left' = left \cup (Path[b] \ Path[f])
  BY DEF DiskInv, DiskTypes, CopyOut, DbPosCopied
<1>1. b \in Nodes /\ f \in Blocks /\ f \in Nodes /\ Path[b] \subseteq Blocks
  BY Parents, PathTrans, PathBlocks
<1>2. DiskTypes'
  <2>1. 1 <= pos /\ pos <= pos
    BY <1>0, SMTT(30)
  <2>2. left' \subseteq Blocks
    BY <1>0, <1>1 DEF DiskTypes
  <2> QED
    BY <1>0, <2>1, <2>2 DEF DiskTypes
<1>3. \A c \in Path[Indexed'] \ gap : Entry(heightIdx, file, pos, c)
  BY DEF DiskInv
<1>4. ASSUME NEW c \in Path[locator] \ (gap \cup early) PROVE Entry(heightIdx, file, pos, c)
  <2>1. Entry(heightIdx, file, dbPos, c)
    BY DEF DiskInv
  <2> QED
    BY <1>0, <2>1, EntryLater
<1>5. hpc' # "commit" /\ pc' # "failed" =>
          Path[locator] \ Path[Indexed'] \subseteq early \cup ahead \cup gap
  BY DEF DiskInv
<1>6. ASSUME gap = {}, NEW c \in left'
      PROVE  hashIdx'[c] \in 1..(pos - 1) /\ file[hashIdx'[c]] = c
  <2>1. \A e \in Copied(b, f) : e.pos \in 1..(pos - 1) /\ file[e.pos] = e.block
    BY <1>6, CopiedEntries
  <2>2. c \in Blocks
    BY <1>2 DEF DiskTypes
  <2>3. CASE \E e \in Copied(b, f) : e.block = c
    <3> DEFINE g == CHOOSE e \in Copied(b, f) : e.block = c
    <3>1. g \in Copied(b, f) /\ g.block = c
      BY <2>3
    <3>2. hashIdx'[c] = g.pos
      BY <1>0, <2>2, <2>3 DEF HashIdxWith
    <3> HIDE DEF g
    <3> QED
      BY <2>1, <3>1, <3>2
  <2>4. CASE ~ \E e \in Copied(b, f) : e.block = c
    <3>1. hashIdx'[c] = hashIdx[c]
      BY <1>0, <2>2, <2>4 DEF HashIdxWith
    <3>2. c \in left
      <4> SUFFICES ASSUME c \in Path[b], c \notin Path[f] PROVE FALSE
        BY <1>0
      <4>1. c \in Nodes /\ Path[c] \subseteq Path[b]
        BY <1>1, <2>2, PathTrans, Parents
      <4>2. f \in Path[c]
        BY <1>1, PathLinear
      <4>3. Path[f] \subseteq Path[c]
        BY <4>1, <4>2, PathTrans
      <4>4. Height(f) <= Height(c) /\ Height(c) <= Height(b)
        BY <1>1, <4>1, <4>3, HeightLess
      <4>5. Height(f) \in Nat /\ Height(c) \in Nat /\ Height(b) \in Nat
        BY <1>1, <2>2, HeightStep
      <4>6. Height(c) \in Height(f)..Height(b)
        BY <4>4, <4>5, SMTT(30)
      <4>7. heightIdx[Height(c)] \in Copied(b, f)
        BY <4>6 DEF Copied
      <4>8. heightIdx[Height(c)].block = c
        BY <1>6 DEF DiskInv, Entry
      <4> QED
        BY <2>4, <4>7, <4>8
    <3>3. hashIdx[c] \in 1..(pos - 1) /\ file[hashIdx[c]] = c
      BY <1>6, <3>2 DEF DiskInv
    <3> QED
      BY <3>1, <3>3
  <2> QED
    BY <2>3, <2>4
<1> QED
  BY <1>0, <1>2, <1>3, <1>4, <1>5, <1>6 DEF DiskInv

\* ... and when the node starts again, with the filter file cut or not.
LEMMA DiskStart ==
    ASSUME DiskInv, locator \in Nodes, NEW t \in Nodes, IndexInit(t),
           UNCHANGED <<locator, dbPos, heightIdx, hashIdx, left>>,
           file' = file \/ file' = SubSeq(file, 1, dbPos - 1)
    PROVE  DiskInv'
<1>0. /\ DiskTypes /\ pos \in Nat /\ dbPos \in Nat /\ 1 <= dbPos /\ dbPos <= pos
      /\ file \in Seq(Blocks) /\ pos - 1 <= Len(file)
  BY DEF DiskInv, DiskTypes
<1>1. /\ best' \in Nodes /\ pindex' = best' /\ Path[best'] = Path[locator] \cap Path[t]
      /\ pc' = (IF best' = t THEN "done" ELSE "loop")
      /\ fatal' = FALSE /\ pos' = dbPos
      /\ gap' = gap \cup early /\ early' = {} /\ ahead' = Path[locator] \ Path[t]
  BY IndexStart
<1>2. Indexed' = best'
  BY <1>1 DEF Indexed
<1>3. file' \in Seq(Blocks) /\ dbPos - 1 <= Len(file') /\ \A i \in 1..(dbPos - 1) : file'[i] = file[i]
  <2>1. CASE file' = file
    BY <1>0, <2>1, SMTT(30)
  <2>2. CASE file' = SubSeq(file, 1, dbPos - 1)
    BY <1>0, <2>2, SMTT(30)
  <2> QED
    BY <2>1, <2>2
<1>4. DiskTypes'
  <2>1. dbPos <= dbPos
    BY <1>0, SMTT(30)
  <2> QED
    BY <1>0, <1>1, <1>3, <2>1 DEF DiskTypes
<1>5. ASSUME NEW c \in Path[locator] \ (gap \cup early) PROVE Entry(heightIdx, file', dbPos, c)
  <2>1. Entry(heightIdx, file, dbPos, c)
    BY DEF DiskInv
  <2> QED
    BY <1>3, <2>1 DEF Entry
<1>6. \A c \in Path[best'] \ gap' : Entry(heightIdx, file', dbPos, c)
  BY <1>1, <1>5
<1>7. Path[locator] \ Path[best'] \subseteq early' \cup ahead' \cup gap'
  BY <1>1
<1>8. ASSUME gap' = {}, NEW c \in left PROVE hashIdx[c] \in 1..(dbPos - 1) /\ file'[hashIdx[c]] = c
  <2>1. gap = {} /\ c \notin early
    BY <1>1, <1>8
  <2>2. hashIdx[c] \in 1..(dbPos - 1) /\ file[hashIdx[c]] = c
    BY <2>1 DEF DiskInv
  <2> QED
    BY <1>3, <2>2
<1> QED
  BY <1>1, <1>2, <1>4, <1>5, <1>6, <1>7, <1>8 DEF DiskInv

\* While m_synced is set, the index is at m_best_block_index.
LEMMA IndexedSynced ==
    ASSUME ControlInv, synced
    PROVE  Indexed = best /\ pc # "failed"
BY DEF ControlInv, Indexed

\* The thread.
LEMMA DiskThread ==
    ASSUME CInv, DiskInv, WindowInv, ThreadSync
    PROVE  DiskInv'
<1>0. /\ tip \in Nodes /\ best \in Nodes /\ pindex \in Nodes /\ locator \in Nodes /\ ControlInv
      /\ (fatal => gap # {})
  BY DEF CInv, TypeInv, DiskInv
<1>1. CASE SyncInterrupted
  <2>1. /\ pc = "loop" /\ best' = pindex /\ UNCHANGED <<synced, pindex, pos, fatal, file, heightIdx, hashIdx, left>>
        /\ locator' = (IF pindex = NoBlock THEN tip ELSE pindex) /\ dbPos' = pos
        /\ gap' = (IF pindex = NoBlock THEN gap \cup Path[tip] ELSE gap) /\ pc' = "done"
    BY <1>1 DEF SyncInterrupted, Commit, GetLocator
  <2>2. ~synced
    BY <1>0, <2>1 DEF ControlInv
  <2>3. Indexed = pindex /\ Indexed' = pindex
    BY <2>1, <2>2 DEF Indexed
  <2>4. gap \subseteq gap' /\ Path[locator'] \subseteq Path[pindex] \cup early' \cup gap'
    BY <2>1
  <2>5. fatal' => gap' # {}
    BY <1>0, <2>1, <2>4
  <2> QED
    BY <2>1, <2>3, <2>4, <2>5, DiskCommit
<1>2. CASE SyncDone
  <2>1. /\ pc = "loop" /\ best' = pindex /\ synced' = TRUE /\ pc' = "final" /\ UNCHANGED <<hpc, pindex, pos, fatal>>
        /\ UNCHANGED <<locator, dbPos, file, heightIdx, hashIdx, left, early, ahead, gap>>
    BY <1>2 DEF SyncDone, disk, history
  <2>2. ~synced /\ hpc = "idle"
    BY <1>0, <2>1 DEF ControlInv
  <2>3. Indexed = pindex /\ Indexed' = pindex
    BY <2>1, <2>2 DEF Indexed
  <2> QED
    BY <1>0, <2>1, <2>2, <2>3, DiskSame
<1>3. CASE CommitPosition \/ CommitLocator
  <2>1. /\ pc \in Final /\ pc' \in Final /\ UNCHANGED <<best, synced, hpc, pindex, pos, fatal>>
        /\ UNCHANGED <<locator, dbPos, file, heightIdx, hashIdx, left, early, ahead, gap>>
    BY <1>3 DEF CommitPosition, CommitLocator, Final, disk, history
  <2>2. pc # "failed" /\ pc' # "failed"
    BY <2>1 DEF Final
  <2>3. Indexed' = Indexed
    BY <2>1 DEF Indexed, Final
  <2> QED
    BY <1>0, <2>1, <2>2, <2>3, DiskSame
<1>9. CASE CommitBatch
  <2>1. pc = "final_batch" /\ pc' = "done" /\ UNCHANGED <<best, synced>>
    BY <1>9 DEF CommitBatch
  <2>2. synced
    BY <1>0, <2>1 DEF ControlInv, Final
  <2>3. Indexed = best /\ Indexed' = best
    BY <2>1, <2>2 DEF Indexed
  <2> QED
    BY <1>9, <2>3, DiskBatch
<1>4. CASE SyncNext
  <2>1. /\ pc = "loop" /\ Parent[pindex'] = pindex /\ pc' = "locator" /\ UNCHANGED <<hpc, synced, pos, fatal>>
        /\ UNCHANGED <<locator, dbPos, file, heightIdx, hashIdx, left, early, ahead, gap>>
    BY <1>4 DEF SyncNext, disk, history
  <2>2. ~synced /\ hpc = "idle"
    BY <1>0, <2>1 DEF ControlInv
  <2>3. Indexed = pindex /\ Indexed' = pindex
    BY <2>1, <2>2 DEF Indexed
  <2> QED
    BY <1>0, <2>1, <2>2, <2>3, DiskSame
<1>5. CASE SyncRewind
  <2> DEFINE f == Parent[NextSyncBlock(pindex)]
  <2>1. /\ pc = "loop" /\ NextSyncBlock(pindex) # NoBlock /\ f # pindex
        /\ UNCHANGED <<hpc, synced, pindex, pos, ahead, early, gap>>
    BY <1>5 DEF SyncRewind
  <2>2. ~synced /\ hpc = "idle"
    BY <1>0, <2>1 DEF ControlInv
  <2>3. pindex \in Blocks /\ f \in Path[pindex]
    BY <1>0, <2>1, SyncFork
  <2>4. Indexed = pindex
    BY <2>1, <2>2 DEF Indexed
  <2>5. CASE CanCopy(pindex, f)
    <3>1. CopyOut(pindex, f) /\ pc' = "rewind" /\ UNCHANGED fatal
      BY <1>5, <2>5 DEF SyncRewind
    <3>2. Indexed' = pindex
      BY <2>1, <2>2, <3>1 DEF Indexed
    <3> HIDE DEF f
    <3> QED
      BY <1>0, <2>1, <2>2, <2>3, <2>4, <3>1, <3>2, DiskCopy
  <2>6. CASE ~CanCopy(pindex, f)
    <3>1. /\ pc' = "failed" /\ UNCHANGED <<locator, dbPos, file, heightIdx, hashIdx, left>>
      BY <1>5, <2>6 DEF SyncRewind, disk
    <3>2. gap # {}
      BY <2>3, <2>4, <2>6, CopyOk
    <3>3. Indexed' = Parent[pindex]
      BY <2>1, <3>1 DEF Indexed
    <3>4. Path[Indexed'] \subseteq Path[Indexed]
      BY <2>3, <2>4, <3>3, PathStep
    <3> HIDE DEF f
    <3> QED
      BY <2>1, <3>1, <3>2, <3>4, DiskSame
  <2> QED
    BY <2>5, <2>6
<1>6. CASE SyncRewound
  <2> DEFINE f == Parent[NextSyncBlock(pindex)]
  <2>1. /\ pc = "rewind" /\ locator' = f /\ dbPos' = pos /\ Parent[pindex'] = f /\ pc' = "locator"
        /\ UNCHANGED <<pos, fatal, file, heightIdx, hashIdx, left, gap>>
    BY <1>6 DEF SyncRewound, RewoundLocator
  <2>2. ~synced /\ NextSyncBlock(pindex) # NoBlock
    BY <1>0, <2>1 DEF ControlInv
  <2>3. Path[f] \subseteq Path[pindex]
    BY <1>0, <2>2, SyncFork
  <2> HIDE DEF f
  <2>4. Indexed = pindex /\ Indexed' = f
    BY <2>1, <2>2 DEF Indexed
  <2> QED
    BY <1>0, <2>1, <2>3, <2>4, DiskCommit
<1>7. CASE SyncLocator
  <2>1. /\ pc = "locator" /\ pc' = "write"
        /\ UNCHANGED <<hpc, synced, pindex, pos, fatal, file, heightIdx, hashIdx, left, gap>>
    BY <1>7 DEF SyncLocator
  <2>2. ~synced /\ hpc = "idle" /\ pindex # NoBlock
    BY <1>0, <2>1 DEF ControlInv
  <2>3. Indexed = Parent[pindex] /\ Indexed' = Parent[pindex]
    BY <2>1 DEF Indexed
  <2>4. CASE UNCHANGED <<locator, dbPos, early, ahead>>
    BY <1>0, <2>1, <2>2, <2>3, <2>4, DiskSame
  <2>5. CASE locator' = pindex /\ dbPos' = pos /\ early' = {pindex}
    <3>1. Path[pindex] = Path[Parent[pindex]] \cup {pindex}
      BY <1>0, <2>2, PathStep DEF Nodes
    <3>2. Path[locator'] \subseteq Path[Parent[pindex]] \cup early' \cup gap'
      BY <2>5, <3>1
    <3> QED
      BY <1>0, <2>1, <2>3, <2>5, <3>2, DiskCommit
  <2> QED
    BY <1>7, <2>4, <2>5 DEF SyncLocator
<1>8. CASE SyncWrite
  <2>1. /\ pc = "write" /\ UNCHANGED <<hpc, synced, pindex, left, gap>>
    BY <1>8 DEF SyncWrite
  <2>2. ~synced /\ hpc = "idle" /\ pindex \in Blocks
    BY <1>0, <2>1 DEF ControlInv, Nodes
  <2>3. Indexed = Parent[pindex]
    BY <2>1 DEF Indexed
  <2>4. CASE CanWrite(pindex)
    <3>1. WriteBlock(pindex) /\ pc' = "loop" /\ UNCHANGED fatal
      BY <1>8, <2>4 DEF SyncWrite
    <3>2. Indexed' = pindex
      BY <2>1, <2>2, <3>1 DEF Indexed
    <3> QED
      BY <1>0, <2>1, <2>2, <2>3, <3>1, <3>2, DiskWrite
  <2>5. CASE ~CanWrite(pindex)
    <3>1. pc' = "failed" /\ UNCHANGED <<pos, locator, dbPos, file, heightIdx, hashIdx, early, ahead>>
      BY <1>8, <2>5 DEF SyncWrite, disk
    <3>2. gap # {}
      BY <2>2, <2>3, <2>5, WriteOk
    <3>3. Indexed' = Parent[pindex]
      BY <2>1, <3>1 DEF Indexed
    <3> QED
      BY <2>1, <2>3, <3>1, <3>2, <3>3, DiskSame
  <2> QED
    BY <2>4, <2>5
<1> QED
  BY <1>1, <1>2, <1>3, <1>4, <1>5, <1>6, <1>7, <1>8, <1>9 DEF ThreadSync

\* BlockConnected.
LEMMA DiskConnected ==
    ASSUME CInv, DiskInv, BlockConnected
    PROVE  DiskInv'
<1>0. ControlInv /\ (fatal => gap # {})
  BY DEF CInv, DiskInv
<1>1. PICK b \in Blocks :
          /\ hpc = "idle" /\ event = NoBlock
          /\ queue # <<>> /\ queue[1].type = "connected" /\ queue[1].block = b
          /\ queue' = Tail(queue)
          /\ UNCHANGED <<tip, diskTip, timed, batchPos, batchBest, synced, pindex, pc, pos, ahead, early, gap>>
          /\ Ignored(b) \/ Uncopied(b) \/ Taken(b)
  BY BlockConnectedSteps
<1>2. hpc # "commit" /\ UNCHANGED <<synced, pindex, pc, pos, ahead, early, gap>>
  BY <1>1
<1>3. CASE Ignored(b)
  <2>1. UNCHANGED <<best, hpc, fatal, locator, dbPos, file, heightIdx, hashIdx, left>>
    BY <1>3 DEF Ignored, disk
  <2>2. Indexed' = Indexed
    BY <1>2, <2>1 DEF Indexed
  <2> QED
    BY <1>0, <1>2, <2>1, <2>2, DiskSame
<1>4. CASE Uncopied(b)
  <2>1. /\ synced /\ best \in Blocks /\ Parent[b] \in Path[best] /\ ~CanCopy(best, Parent[b])
        /\ UNCHANGED <<best, hpc, locator, dbPos, file, heightIdx, hashIdx, left>>
    BY <1>4 DEF Uncopied, disk
  <2>2. Indexed = best /\ pc # "failed"
    BY <1>0, <2>1, IndexedSynced
  <2>3. gap # {}
    BY <2>1, <2>2, CopyOk
  <2>4. Indexed' = Indexed
    BY <1>2, <2>1 DEF Indexed
  <2> QED
    BY <1>2, <2>1, <2>2, <2>3, <2>4, DiskSame
<1>5. CASE Taken(b)
  <2>1. synced /\ best' = Parent[b] /\ Path[Parent[b]] \subseteq Path[best] /\ fatal' = fatal
    BY <1>5 DEF Taken
  <2>2. Indexed = best /\ pc # "failed"
    BY <1>0, <2>1, IndexedSynced
  <2>3. Indexed' = Parent[b]
    <3>1. pc \notin {"locator", "write", "failed"}
      BY <1>0, <2>1 DEF ControlInv
    <3> QED
      BY <1>2, <2>1, <3>1 DEF Indexed
  <2>4. CASE best = Parent[b] /\ hpc' = "write" /\ UNCHANGED <<disk, left>>
    <3>1. UNCHANGED <<locator, dbPos, file, heightIdx, hashIdx, left>>
      BY <2>4 DEF disk
    <3> QED
      BY <1>0, <1>2, <2>1, <2>2, <2>3, <2>4, <3>1, DiskSame
  <2>5. CASE /\ best \in Blocks /\ Parent[b] \in Path[best]
             /\ hpc' = "commit" /\ CopyOut(best, Parent[b])
    BY <1>0, <1>2, <2>1, <2>2, <2>3, <2>5, DiskCopy
  <2> QED
    BY <1>5, <2>4, <2>5 DEF Taken
<1> QED
  BY <1>1, <1>3, <1>4, <1>5

\* All the callbacks.
LEMMA DiskCallbacks ==
    ASSUME CInv, DiskInv, WindowInv, Callbacks
    PROVE  DiskInv'
<1>0. /\ tip \in Nodes /\ best \in Nodes /\ event \in Nodes /\ locator \in Nodes /\ ControlInv
      /\ (fatal => gap # {})
  BY DEF CInv, TypeInv, DiskInv
<1>1. CASE RewindCommit
  <2>1. /\ hpc = "commit" /\ locator' = best /\ dbPos' = pos
        /\ UNCHANGED <<best, synced, pindex, pc, pos, fatal, file, heightIdx, hashIdx, left, gap>>
    BY <1>1 DEF RewindCommit, RewoundLocator
  <2>2. synced
    BY <1>0, <2>1 DEF ControlInv
  <2>3. Indexed = best /\ Indexed' = Indexed
    BY <1>0, <2>1, <2>2, IndexedSynced DEF Indexed
  <2> QED
    BY <1>0, <2>1, <2>3, DiskCommit
<1>2. CASE WriteConnected
  <2>1. hpc = "write" /\ hpc' # "commit" /\ UNCHANGED <<best, synced, pindex, pc, left, gap>>
    BY <1>2 DEF WriteConnected
  <2>2. synced /\ event \in Blocks /\ best = Parent[event]
    BY <1>0, <2>1 DEF ControlInv, Nodes
  <2>3. Indexed = Parent[event] /\ pc # "failed" /\ pc \notin {"locator", "write", "failed"}
    BY <1>0, <2>2, IndexedSynced DEF ControlInv
  <2>4. CASE CanWrite(event)
    <3>1. WriteBlock(event) /\ UNCHANGED fatal
      BY <1>2, <2>4 DEF WriteConnected
    <3>2. Indexed' = Parent[event]
      BY <2>1, <2>2, <2>3 DEF Indexed
    <3> QED
      BY <1>0, <2>1, <2>2, <2>3, <3>1, <3>2, DiskWrite
  <2>5. CASE ~CanWrite(event)
    <3>1. UNCHANGED <<pos, locator, dbPos, file, heightIdx, hashIdx, early, ahead>>
      BY <1>2, <2>5 DEF WriteConnected, disk
    <3>2. gap # {}
      BY <2>2, <2>3, <2>5, WriteOk
    <3>3. Indexed' = Indexed
      BY <2>1, <3>1 DEF Indexed
    <3> QED
      BY <2>1, <2>3, <3>1, <3>2, <3>3, DiskSame
  <2> QED
    BY <2>4, <2>5
<1>3. CASE ChainStateFlushed
  <2>1. /\ hpc = "idle" /\ UNCHANGED memory
        /\ UNCHANGED <<file, heightIdx, hashIdx, left, gap>>
    BY <1>3 DEF ChainStateFlushed, NextIs
  <2>2. UNCHANGED <<best, synced, pindex, pc, hpc, pos, fatal>>
    BY <2>1 DEF memory
  <2>3. Indexed' = Indexed
    BY <2>2 DEF Indexed
  <2>4. CASE synced /\ Commits(Head(queue).block)
    <3>1. best # NoBlock
      BY <2>4, PathNone DEF Commits
    <3>2. locator' = best /\ dbPos' = pos
      BY <1>3, <2>4, <3>1 DEF ChainStateFlushed, Commit, GetLocator
    <3>3. Indexed = best
      BY <1>0, <2>4, IndexedSynced
    <3> QED
      BY <1>0, <2>1, <2>2, <2>3, <3>2, <3>3, DiskCommit
  <2>5. CASE ~(synced /\ Commits(Head(queue).block))
    <3>1. UNCHANGED <<locator, dbPos, early, ahead>>
      BY <1>3, <2>5 DEF ChainStateFlushed
    <3>2. pc' = "failed" \/ pc # "failed"
      BY <2>2
    <3> QED
      BY <1>0, <2>1, <2>2, <2>3, <3>1, <3>2, DiskSame
  <2> QED
    BY <2>4, <2>5
<1>4. CASE KeepPromise
  <2>1. hpc = "idle" /\ UNCHANGED <<memory, disk, history>>
    BY <1>4 DEF KeepPromise, NextIs
  <2>2. /\ UNCHANGED <<best, synced, pindex, pc, hpc, pos, fatal>>
        /\ UNCHANGED <<locator, dbPos, file, heightIdx, hashIdx, left, early, ahead, gap>>
    BY <2>1 DEF memory, disk, history
  <2>3. Indexed' = Indexed
    BY <2>2 DEF Indexed
  <2>4. pc' = "failed" \/ pc # "failed"
    BY <2>2
  <2> QED
    BY <1>0, <2>1, <2>2, <2>3, <2>4, DiskSame
<1>5. CASE BestConnected
  <2>1. /\ hpc = "best" /\ best' = event /\ UNCHANGED <<synced, pindex, pc, pos, fatal>>
        /\ UNCHANGED <<locator, dbPos, file, heightIdx, hashIdx, left, early, ahead, gap>>
    BY <1>5 DEF BestConnected, disk, history
  <2>2. synced /\ event \in Blocks /\ best = Parent[event]
    BY <1>0, <2>1 DEF ControlInv, Nodes
  <2>3. Indexed = Parent[event] /\ pc # "failed" /\ pc \notin {"locator", "write", "failed"}
    BY <1>0, <2>2, IndexedSynced DEF ControlInv
  <2>4. Indexed' = event
    BY <2>1, <2>2, <2>3 DEF Indexed
  <2>5. Entry(heightIdx, file, pos, event)
    BY <2>1 DEF WindowInv
  <2> QED
    BY <1>0, <2>1, <2>2, <2>3, <2>4, <2>5, DiskBest
<1> QED
  BY <1>1, <1>2, <1>3, <1>4, <1>5, DiskConnected DEF Callbacks

\* Every step keeps it.
LEMMA DiskNext == CInv /\ DiskInv /\ WindowInv /\ [Next]_vars => DiskInv'
<1> SUFFICES ASSUME CInv, DiskInv, WindowInv, [Next]_vars PROVE DiskInv'
  OBVIOUS
<1>0. locator \in Nodes /\ tip \in Nodes /\ diskTip \in Nodes /\ (fatal => gap # {})
  BY DEF CInv, TypeInv, DiskInv
<1>1. CASE Crash \/ AssertFails
  <2>1. /\ IndexInit(diskTip) /\ UNCHANGED <<locator, dbPos, heightIdx, hashIdx, left>>
        /\ file' = SubSeq(file, 1, dbPos - 1)
    BY <1>1 DEF Crash, AssertFails, Die
  <2> QED
    BY <1>0, <2>1, DiskStart
<1>2. CASE Restart
  <2>1. IndexInit(tip) /\ UNCHANGED <<locator, dbPos, file, heightIdx, hashIdx, left>>
    BY <1>2 DEF Restart, disk
  <2> QED
    BY <1>0, <2>1, DiskStart
<1>3. ASSUME UNCHANGED <<best, synced, pindex, pc, hpc, pos, fatal>>,
             UNCHANGED <<locator, dbPos, file, heightIdx, hashIdx, left, early, ahead, gap>>
      PROVE  DiskInv'
  <2>1. Indexed' = Indexed
    BY <1>3 DEF Indexed
  <2>2. \/ hpc' = "commit" \/ pc' = "failed"
        \/ hpc # "commit" /\ pc # "failed" /\ Indexed' = Indexed
    BY <1>3, <2>1
  <2> QED
    BY <1>0, <1>3, <2>1, <2>2, DiskSame
<1>4. CASE (\E t \in Blocks : ActivateBestChain(t)) \/ InvalidateBlock
  <2>1. \E t \in Blocks : MoveTo(t)
    BY <1>0, <1>4, Moves
  <2>2. UNCHANGED <<memory, disk, history>>
    BY <2>1 DEF MoveTo
  <2> QED
    BY <1>3, <2>2 DEF memory, disk, history
<1>5. CASE FlushStateToDisk \/ BlockUntilSyncedToCurrentChain
  <2>1. UNCHANGED <<memory, disk, history>>
    BY <1>5 DEF FlushStateToDisk, BlockUntilSyncedToCurrentChain
  <2> QED
    BY <1>3, <2>1 DEF memory, disk, history
<1>6. CASE Interrupt \/ UNCHANGED vars
  <2>1. /\ UNCHANGED <<best, synced, pindex, pc, hpc, pos, fatal>>
        /\ UNCHANGED <<disk, history>>
    BY <1>6 DEF Interrupt, vars, memory
  <2> QED
    BY <1>3, <2>1 DEF disk, history
<1> QED
  BY <1>1, <1>2, <1>4, <1>5, <1>6, DiskThread, DiskCallbacks DEF Next

\* The window of the last Commit is closed at first, ...
LEMMA WindowInit == Init => WindowInv
BY DEF Init, WindowInv

\* ... stays as it is when nothing moves for it, ...
LEMMA WindowSame ==
    ASSUME WindowInv,
           \/ pc' \notin {"final_locator", "final_batch"}
           \/ UNCHANGED <<pc, batchPos, batchBest, pos, heightIdx, file, gap, best, hpc>>,
           hpc' # "best" \/ UNCHANGED <<hpc, pos, heightIdx, file, event>>
    PROVE  WindowInv'
BY DEF WindowInv

\* ... is opened by the thread, which names the chain of the index, ...
LEMMA WindowThread ==
    ASSUME CInv, DiskInv, WindowInv, ThreadSync
    PROVE  WindowInv'
<1>0. ControlInv
  BY DEF CInv
<1>1. CASE CommitPosition
  <2>1. /\ pc' = "final_locator" /\ batchPos' = pos /\ UNCHANGED <<hpc, pos, heightIdx, file, event>>
    BY <1>1 DEF CommitPosition, disk
  <2>2. pos \in Nat /\ 1 <= pos /\ pos <= pos
    BY SMTT(30) DEF DiskInv, DiskTypes
  <2> QED
    BY <2>1, <2>2 DEF WindowInv
<1>2. CASE CommitLocator
  <2>1. /\ pc = "final_locator" /\ pc' = "final_batch" /\ batchBest' = GetLocator(best)
        /\ UNCHANGED <<batchPos, best, hpc, pos, heightIdx, file, gap, event>>
    BY <1>2 DEF CommitLocator, disk, history
  <2>2. synced /\ best # NoBlock
    BY <1>0, <2>1 DEF ControlInv, Final
  <2>3. Indexed = best
    BY <1>0, <2>2, IndexedSynced
  <2>4. batchBest' = best
    BY <2>1, <2>2 DEF GetLocator
  <2>5. \A b \in Path[best] \ gap : Entry(heightIdx, file, pos, b)
    BY <2>3 DEF DiskInv
  <2> QED
    BY <2>1, <2>4, <2>5 DEF WindowInv
<1>3. CASE CommitBatch
  <2>1. pc' = "done" /\ UNCHANGED <<hpc, pos, heightIdx, file, event>>
    BY <1>3 DEF CommitBatch
  <2> QED
    BY <2>1, WindowSame
<1>4. CASE ~(CommitPosition \/ CommitLocator \/ CommitBatch)
  <2>1. /\ pc \in {"loop", "locator", "write", "rewind"} /\ hpc' = hpc
        /\ pc' \notin {"final_locator", "final_batch"}
    BY <1>4 DEF ThreadSync, SyncInterrupted, SyncDone, SyncNext, SyncRewind, SyncRewound, SyncLocator,
                SyncWrite
  <2>2. hpc' = "idle"
    BY <1>0, <2>1 DEF ControlInv
  <2> QED
    BY <2>1, <2>2, WindowSame
<1> QED
  BY <1>1, <1>2, <1>3, <1>4

\* ... and is kept by the callbacks: what they write is on top of that chain.
LEMMA WindowCallbacks ==
    ASSUME CInv, DiskInv, WindowInv, Callbacks
    PROVE  WindowInv'
<1>0. ControlInv /\ DiskTypes /\ event \in Nodes
  BY DEF CInv, TypeInv, DiskInv
<1>1. CASE BlockConnected
  <2>1. PICK b \in Blocks :
          /\ hpc = "idle" /\ event = NoBlock
          /\ queue # <<>> /\ queue[1].type = "connected" /\ queue[1].block = b
          /\ queue' = Tail(queue)
          /\ UNCHANGED <<tip, diskTip, timed, batchPos, batchBest, synced, pindex, pc, pos, ahead, early, gap>>
          /\ Ignored(b) \/ Uncopied(b) \/ Taken(b)
    BY <1>1, BlockConnectedSteps
  <2>2. UNCHANGED <<heightIdx, file>> /\ hpc' # "best" /\ (best' = best \/ hpc' = "commit")
    BY <2>1 DEF Ignored, Uncopied, Taken, CopyOut, disk
  <2> QED
    BY <2>1, <2>2 DEF WindowInv
<1>2. CASE RewindCommit
  <2>1. pc' \notin {"final_locator", "final_batch"} /\ hpc' # "best"
    BY <1>2 DEF RewindCommit, MainFree, Final
  <2> QED
    BY <2>1, WindowSame
<1>3. CASE WriteConnected /\ CanWrite(event)
  <2>1. /\ hpc = "write" /\ WriteBlock(event) /\ hpc' = "best"
        /\ UNCHANGED <<event, best, pc, batchPos, batchBest, gap>>
    BY <1>3 DEF WriteConnected, batch
  <2>2. event \in Blocks /\ best = Parent[event]
    BY <1>0, <2>1 DEF ControlInv, Nodes
  <2>3. Entry(heightIdx', file', pos', event)
    BY <1>0, <2>1, <2>2, WrittenEntry
  <2>4. pos \in Nat /\ pos' \in Nat /\ pos <= pos' /\ pos <= pos
    BY <1>0, <2>1, SMTT(30) DEF DiskTypes, WriteBlock
  <2>5. ASSUME pc = "final_batch", NEW c \in Path[batchBest] \ gap PROVE Entry(heightIdx', file', pos', c)
    <3>1. Entry(heightIdx, file, pos, c) /\ c \in Path[Parent[event]]
      BY <2>1, <2>2, <2>5 DEF WindowInv
    <3>2. c \in Blocks /\ Height(c) # Height(event)
      BY <2>2, <3>1, OtherHeight
    <3>3. Entry(heightIdx', file', pos, c)
      BY <1>0, <2>1, <2>2, <2>4, <3>1, <3>2, WriteEntry
    <3> QED
      BY <2>4, <3>3, EntryLater
  <2>6. pc \in {"final_locator", "final_batch"} => batchPos \in Nat /\ 1 <= batchPos /\ batchPos <= pos'
    <3>1. pc \in {"final_locator", "final_batch"} => batchPos \in Nat /\ 1 <= batchPos /\ batchPos <= pos
      BY DEF WindowInv
    <3> QED
      BY <2>4, <3>1, SMTT(30)
  <2>7. pc = "final_batch" => Path[batchBest] \subseteq Path[best]
    BY <2>1 DEF WindowInv
  <2> QED
    BY <2>1, <2>3, <2>5, <2>6, <2>7 DEF WindowInv
<1>4. CASE WriteConnected /\ ~CanWrite(event)
  <2>1. /\ hpc = "write" /\ hpc' = "idle"
        /\ UNCHANGED <<best, pc, batchPos, batchBest, gap, pos, heightIdx, file>>
    BY <1>4 DEF WriteConnected, batch, disk
  <2> QED
    BY <2>1 DEF WindowInv
<1>5. CASE BestConnected
  <2>1. /\ hpc = "best" /\ hpc' = "idle" /\ best' = event
        /\ UNCHANGED <<pc, batchPos, batchBest, gap, pos, heightIdx, file>>
    BY <1>5 DEF BestConnected, batch, disk, history
  <2>2. event \in Blocks /\ best = Parent[event]
    BY <1>0, <2>1 DEF ControlInv, Nodes
  <2>3. Path[best] \subseteq Path[best']
    BY <2>1, <2>2, PathStep
  <2> QED
    BY <2>1, <2>3 DEF WindowInv
<1>6. CASE ChainStateFlushed \/ KeepPromise
  <2>1. UNCHANGED <<memory, file, heightIdx, gap>>
    BY <1>6 DEF ChainStateFlushed, KeepPromise, disk, history
  <2> QED
    BY <2>1, WindowSame DEF memory, batch
<1> QED
  BY <1>1, <1>2, <1>3, <1>4, <1>5, <1>6 DEF Callbacks

\* Every step keeps it.
LEMMA WindowNext == CInv /\ DiskInv /\ WindowInv /\ [Next]_vars => WindowInv'
<1> SUFFICES ASSUME CInv, DiskInv, WindowInv, [Next]_vars PROVE WindowInv'
  OBVIOUS
<1>1. CASE Crash \/ AssertFails \/ Restart
  <2>1. pc' \in {"done", "loop"} /\ hpc' = "idle"
    BY <1>1 DEF Crash, AssertFails, Die, Restart, IndexInit
  <2> QED
    BY <2>1, WindowSame
<1>2. CASE (\E t \in Blocks : ActivateBestChain(t)) \/ InvalidateBlock
  <2>1. UNCHANGED <<memory, disk, history>>
    BY <1>2 DEF ActivateBestChain, InvalidateBlock, MoveTo
  <2> QED
    BY <2>1, WindowSame DEF memory, batch, disk, history
<1>3. CASE FlushStateToDisk \/ BlockUntilSyncedToCurrentChain
  <2>1. UNCHANGED <<memory, disk, history>>
    BY <1>3 DEF FlushStateToDisk, BlockUntilSyncedToCurrentChain
  <2> QED
    BY <2>1, WindowSame DEF memory, batch, disk, history
<1>4. CASE Interrupt \/ UNCHANGED vars
  <2>1. UNCHANGED <<pc, batch, pos, best, hpc, event, disk, history>>
    BY <1>4 DEF Interrupt, vars, memory
  <2> QED
    BY <2>1, WindowSame DEF batch, disk, history
<1> QED
  BY <1>1, <1>2, <1>3, <1>4, WindowThread, WindowCallbacks DEF Next

-----------------------------------------------------------------------------
\* LookupFilter finds the filter of every block of the chain the index is at, after any
\* order of reorganisations, callbacks, crashes and restarts, except for blocks that the
\* database named at a crash though its position left their filters out: the locator was
\* written before them, or callbacks wrote them while the thread committed.
THEOREM IndexSafe == Spec => []IndexExact
BY CInit, CNext, DiskInit, DiskNext, WindowInit, WindowNext, DiskSafe, PTL DEF Spec

\* The filters of blocks that Rewind has left behind stay readable through the hash index:
\* the position is committed with the copies, and the last Commit of the thread, which may
\* take it back, does no harm unless the process dies before the next one.
THEOREM StaleSafe == Spec => []StaleFiltersKept
BY CInit, CNext, DiskInit, DiskNext, WindowInit, WindowNext, DiskSafe, PTL DEF Spec

\* WriteBlock always finds the entry of the parent, and Rewind every entry it copies: the
\* index stops the node only after a crash at a time when the database named a block that
\* its position left out.
THEOREM FatalSafe == Spec => []NeverFatal
BY CInit, CNext, DiskInit, DiskNext, WindowInit, WindowNext, DiskSafe, PTL DEF Spec
=============================================================================
