------------------------ MODULE BlockDownloadProofs ------------------------
(***************************************************************************)
(* Proofs about headers-first download, for any peers, any block tree and  *)
(* any bounds: the in-flight tables and the global counters agree, nobody  *)
(* is timed out for a block that has arrived or for nothing, and the       *)
(* download window starts at downloaded blocks.  Lemmas about the          *)
(* operators of BlockDownload come first.                                  *)
(***************************************************************************)
EXTENDS BlockDownload, FiniteSetTheorems, WellFoundedInduction, TLAPS

\* The prover of a step that names no other.
USE ZenonT(120)

-----------------------------------------------------------------------------
(* Counting, the in-flight tables, and the search for blocks.              *)

\* One peer more or less in a set that a global counter counts.
LEMMA CountOne ==
    ASSUME NEW A, IsFiniteSet(A), NEW B, NEW p, A \ {p} = B \ {p}
    PROVE  /\ IsFiniteSet(B)
           /\ Cardinality(A) \in Nat /\ Cardinality(B) \in Nat
           /\ Cardinality(B) = Cardinality(A) + One(p \in B) - One(p \in A)
<1>1. Cardinality(A) \in Nat BY FS_CardinalityType
<1>2. CASE p \in A /\ p \in B
  <2>1. A = B BY <1>2, SMTT(30)
  <2> QED BY <1>1, <1>2, <2>1, SMTT(30) DEF One
<1>3. CASE p \notin A /\ p \notin B
  <2>1. A = B BY <1>3, SMTT(30)
  <2> QED BY <1>1, <1>3, <2>1, SMTT(30) DEF One
<1>4. CASE p \in A /\ p \notin B
  <2>1. B = A \ {p} BY <1>4
  <2>2. IsFiniteSet(B) /\ Cardinality(B) = Cardinality(A) - 1 BY <1>4, <2>1, FS_RemoveElement
  <2>3. Cardinality(B) \in Nat BY <2>2, FS_CardinalityType
  <2> QED BY <1>1, <1>4, <2>2, <2>3, SMTT(30) DEF One
<1>5. CASE p \notin A /\ p \in B
  <2>1. B = A \cup {p} BY <1>5
  <2>2. IsFiniteSet(B) /\ Cardinality(B) = Cardinality(A) + 1 BY <1>5, <2>1, FS_AddElement
  <2> QED BY <1>1, <1>5, <2>2, SMTT(30) DEF One
<1> QED BY <1>2, <1>3, <1>4, <1>5

\* A nonempty set of heights has a least one.
LEMMA LeastNat ==
    ASSUME NEW T \in SUBSET Nat, T # {}
    PROVE  \E t \in T : \A u \in T : t <= u
<1>1. \E t \in T : \A u \in T : ~(<<u, t>> \in OpToRel(<, Nat))
  BY WFMin, NatLessThanWellFounded
<1>2. \A u, t \in Nat : u < t => <<u, t>> \in OpToRel(<, Nat)
  BY DEF OpToRel
<1>3. \A u, t \in Nat : ~(u < t) => t <= u
  BY SMTT(30)
<1> QED BY <1>1, <1>2, <1>3

\* A nonempty set of blocks has a lowest block, which First chooses.
LEMMA LowestExists ==
    ASSUME NEW S \in SUBSET Blocks, S # {}
    PROVE  \E x \in S : \A y \in S : Height(x) <= Height(y)
<1> DEFINE T == {Height(x) : x \in S}
<1>1. T \subseteq Nat /\ T # {}
  <2>1. Cardinality(Blocks) \in Nat BY TreeAssumption, FS_CardinalityType
  <2>2. \A x \in S : Height(x) \in Nat BY <2>1, PathAssumption, SMTT(30) DEF Height
  <2> QED BY <2>2
<1>2. PICK t \in T : \A u \in T : t <= u
  <2> HIDE DEF T
  <2> QED BY <1>1, LeastNat
<1> QED BY <1>2

\* The highest block of such a set, which LastCommonAncestor and the walk choose.
LEMMA HighestExists ==
    ASSUME NEW S \in SUBSET Blocks, S # {}
    PROVE  \E x \in S : \A y \in S : Height(y) <= Height(x)
<1> DEFINE N == Cardinality(Blocks)
           T == {N - Height(x) : x \in S}
<1>0. N \in Nat BY TreeAssumption, FS_CardinalityType
<1>h. \A x \in S : Height(x) \in 0 .. N BY PathAssumption DEF Height
<1> HIDE DEF N
<1>1. T \subseteq Nat /\ T # {} BY <1>0, <1>h, SMTT(30)
<1>2. PICK t \in T : \A u \in T : t <= u
  <2> HIDE DEF T
  <2> QED BY <1>1, LeastNat
<1>5. PICK x \in S : t = N - Height(x) BY <1>2
<1>6. \A y \in S : N - Height(x) <= N - Height(y) BY <1>2, <1>5
<1> QED BY <1>0, <1>h, <1>6, SMTT(30)

-----------------------------------------------------------------------------
(* The in-flight tables.                                                    *)

Flights ==
    [from : [Blocks -> Peers \cup {NoPeer}], queue : [Peers -> SUBSET Blocks],
     count : [Peers -> Int], peers : Int, stalling : SUBSET Peers, partial : SUBSET Blocks]

\* The tables agree, and a stalling peer holds a block.
FlightOK(f) ==
    /\ f \in Flights
    /\ \A p \in Peers : f.queue[p] = {b \in Blocks : f.from[b] = p}
    /\ \A p \in Peers : f.count[p] = Cardinality(f.queue[p])
    /\ f.peers = Cardinality({p \in Peers : f.count[p] > 0})
    /\ \A b \in f.partial : f.from[b] # NoPeer
    /\ \A p \in f.stalling : f.queue[p] # {}

\* The queue of a peer is finite, so it is empty exactly when its counter is zero.
LEMMA CountFacts ==
    ASSUME NEW f, FlightOK(f), NEW p \in Peers
    PROVE  /\ IsFiniteSet(f.queue[p]) /\ f.count[p] \in Nat
           /\ f.count[p] = 0 <=> f.queue[p] = {}
           /\ IsFiniteSet({q \in Peers : f.count[q] > 0})
<1>1. f.queue[p] \subseteq Blocks BY DEF FlightOK, Flights
<1>2. IsFiniteSet(f.queue[p]) BY <1>1, TreeAssumption, FS_Subset
<1>3. f.count[p] = Cardinality(f.queue[p]) BY DEF FlightOK
<1>4. f.count[p] \in Nat BY <1>2, <1>3, FS_CardinalityType
<1>5. f.count[p] = 0 <=> f.queue[p] = {} BY <1>2, <1>3, FS_EmptySet
<1>6. {q \in Peers : f.count[q] > 0} \subseteq Peers OBVIOUS
<1>7. IsFiniteSet({q \in Peers : f.count[q] > 0}) BY <1>6, PeerAssumption, FS_Subset
<1> QED BY <1>2, <1>4, <1>5, <1>7

\* nPeersWithValidatedDownloads after a change of the counter of one peer.
LEMMA PeersChange ==
    ASSUME NEW f, FlightOK(f), NEW p \in Peers, NEW g,
           \A q \in Peers \ {p} : g.count[q] = f.count[q],
           \/ (g.count[p] > 0 <=> f.count[p] > 0) /\ g.peers = f.peers
           \/ g.count[p] > 0 /\ ~(f.count[p] > 0) /\ g.peers = f.peers + 1
           \/ ~(g.count[p] > 0) /\ f.count[p] > 0 /\ g.peers = f.peers - 1
    PROVE  g.peers = Cardinality({q \in Peers : g.count[q] > 0})
<1> DEFINE A == {q \in Peers : f.count[q] > 0}
           B == {q \in Peers : g.count[q] > 0}
<1>1. IsFiniteSet(A) BY CountFacts
<1>2. A \ {p} = B \ {p} OBVIOUS
<1>3. f.peers = Cardinality(A) BY DEF FlightOK
<1>4. (p \in A <=> f.count[p] > 0) /\ (p \in B <=> g.count[p] > 0) OBVIOUS
<1>5. Cardinality(B) = Cardinality(A) + One(p \in B) - One(p \in A)
  <2> HIDE DEF A, B
  <2> QED BY <1>1, <1>2, CountOne
<1>6. Cardinality(A) \in Nat BY <1>1, FS_CardinalityType
<1>7. g.peers = Cardinality(B)
  <2> HIDE DEF A, B
  <2> QED BY <1>3, <1>4, <1>5, <1>6, SMTT(30) DEF One
<1> QED BY <1>7

\* MarkBlockAsReceived keeps the tables in agreement.
LEMMA ReceivedOK ==
    ASSUME NEW f, FlightOK(f), NEW b \in Blocks
    PROVE  /\ FlightOK(MarkBlockAsReceived(f, b))
           /\ MarkBlockAsReceived(f, b).from[b] = NoPeer
           /\ \A x \in Blocks \ {b} : MarkBlockAsReceived(f, b).from[x] = f.from[x]
           /\ \A q \in Peers : MarkBlockAsReceived(f, b).queue[q] = f.queue[q] \ {b}
<1> DEFINE p == f.from[b]
           g == MarkBlockAsReceived(f, b)
<1>1. CASE p = NoPeer
  <2>1. g = f BY <1>1 DEF MarkBlockAsReceived
  <2>2. \A q \in Peers : b \notin f.queue[q] BY <1>1, PeerAssumption DEF FlightOK
  <2> QED BY <1>1, <2>1, <2>2
<1>2. CASE p # NoPeer
  <2>0. f \in Flights BY DEF FlightOK
  <2>1. p \in Peers BY <1>2, <2>0 DEF Flights
  <2>2. g = [from |-> [f.from EXCEPT ![b] = NoPeer],
             queue |-> [f.queue EXCEPT ![p] = @ \ {b}],
             count |-> [f.count EXCEPT ![p] = @ - 1],
             peers |-> IF f.count[p] = 1 THEN f.peers - 1 ELSE f.peers,
             stalling |-> f.stalling \ {p},
             partial |-> f.partial \ {b}]
    BY <1>2, <2>0, <2>1 DEF MarkBlockAsReceived, Flights
  <2> HIDE DEF g
  <2>3. g \in Flights BY <2>0, <2>1, <2>2, SMTT(30) DEF Flights
  <2>4. /\ g.count[p] = f.count[p] - 1
        /\ g.peers = IF f.count[p] = 1 THEN f.peers - 1 ELSE f.peers
        /\ g.queue[p] = f.queue[p] \ {b}
        /\ g.stalling = f.stalling \ {p}
        /\ g.from[b] = NoPeer
        /\ g.partial = f.partial \ {b}
        /\ \A q \in Peers \ {p} : g.queue[q] = f.queue[q] /\ g.count[q] = f.count[q]
        /\ \A x \in Blocks \ {b} : g.from[x] = f.from[x]
    BY <2>0, <2>1, <2>2 DEF Flights
  <2>5. b \in f.queue[p] /\ \A q \in Peers \ {p} : b \notin f.queue[q]
    BY <2>1 DEF FlightOK
  <2>6. \A q \in Peers : g.queue[q] = f.queue[q] \ {b} BY <2>4, <2>5, SMTT(30)
  <2>7. \A q \in Peers : g.queue[q] = {x \in Blocks : g.from[x] = q}
    BY <2>4, <2>6, PeerAssumption, SMTT(30) DEF FlightOK
  <2>8. g.count[p] = Cardinality(g.queue[p])
    <3>1. IsFiniteSet(f.queue[p]) BY <2>1, CountFacts
    <3>2. f.count[p] = Cardinality(f.queue[p]) BY <2>1 DEF FlightOK
    <3>3. Cardinality(f.queue[p] \ {b}) = Cardinality(f.queue[p]) - 1
      BY <2>5, <3>1, FS_RemoveElement
    <3> QED BY <2>4, <3>2, <3>3
  <2>9. \/ (g.count[p] > 0 <=> f.count[p] > 0) /\ g.peers = f.peers
        \/ g.count[p] > 0 /\ ~(f.count[p] > 0) /\ g.peers = f.peers + 1
        \/ ~(g.count[p] > 0) /\ f.count[p] > 0 /\ g.peers = f.peers - 1
    <3>1. f.count[p] \in Nat /\ f.count[p] # 0 BY <2>1, <2>5, CountFacts
    <3>2. f.peers \in Int BY <2>0 DEF Flights
    <3>3. g.count[p] = f.count[p] - 1 BY <2>4
    <3>4. g.peers = IF f.count[p] = 1 THEN f.peers - 1 ELSE f.peers BY <2>4
    <3> HIDE DEF p
    <3> QED BY <3>1, <3>2, <3>3, <3>4, SMTT(30)
  <2>10. \A x \in g.partial : g.from[x] # NoPeer
    <3>1. f.partial \subseteq Blocks BY <2>0 DEF Flights
    <3> QED BY <2>4, <3>1, SMTT(30) DEF FlightOK
  <2>11. \A q \in g.stalling : g.queue[q] # {}
    <3>1. f.stalling \subseteq Peers BY <2>0 DEF Flights
    <3> QED BY <2>4, <3>1 DEF FlightOK
  <2>12. g.peers = Cardinality({q \in Peers : g.count[q] > 0})
    <3> HIDE DEF p
    <3> QED BY <2>1, <2>4, <2>9, PeersChange, SMTT(30)
  <2>13. \A q \in Peers : g.count[q] = Cardinality(g.queue[q]) BY <2>4, <2>8 DEF FlightOK
  <2>14. FlightOK(g) BY <2>3, <2>7, <2>10, <2>11, <2>12, <2>13 DEF FlightOK
  <2> QED BY <2>4, <2>6, <2>14 DEF g
<1> QED BY <1>1, <1>2

\* MarkBlockAsInFlight of blocks that are not in flight keeps the tables in agreement.
LEMMA MarkAllOK ==
    ASSUME NEW f, FlightOK(f), NEW p \in Peers, NEW S \in SUBSET Blocks,
           \A b \in S : f.from[b] = NoPeer,
           NEW m, m = MarkAllInFlight(f, p, S)
    PROVE  /\ FlightOK(m)
           /\ \A q \in Peers \ {p} : m.queue[q] = f.queue[q]
           /\ m.queue[p] = f.queue[p] \cup S
           /\ \A b \in Blocks : m.from[b] = IF b \in S THEN p ELSE f.from[b]
           /\ m.stalling = f.stalling
           /\ m.partial = f.partial
<1> DEFINE g == MarkAllInFlight(f, p, S)
           n == Cardinality(S)
<1>0. f \in Flights BY DEF FlightOK
<1>n. IsFiniteSet(S) BY TreeAssumption, FS_Subset
<1>c. n \in Nat /\ (n = 0 <=> S = {}) BY <1>n, FS_CardinalityType, FS_EmptySet
<1>1. g = [f EXCEPT !.count[p] = f.count[p] + n,
                    !.peers = IF f.count[p] = 0 /\ S # {} THEN f.peers + 1 ELSE f.peers,
                    !.queue[p] = f.queue[p] \cup S,
                    !.from = [b \in Blocks |-> IF b \in S THEN p ELSE f.from[b]]]
  BY <1>0 DEF MarkAllInFlight, Flights
<1> HIDE DEF g, n
<1>2. g = [from |-> [b \in Blocks |-> IF b \in S THEN p ELSE f.from[b]],
           queue |-> [f.queue EXCEPT ![p] = @ \cup S],
           count |-> [f.count EXCEPT ![p] = @ + n],
           peers |-> IF f.count[p] = 0 /\ S # {} THEN f.peers + 1 ELSE f.peers,
           stalling |-> f.stalling,
           partial |-> f.partial]
  BY <1>0, <1>1 DEF Flights
<1>3. g \in Flights BY <1>0, <1>2, <1>c, SMTT(30) DEF Flights
<1>4. /\ g.count[p] = f.count[p] + n
      /\ g.peers = IF f.count[p] = 0 /\ S # {} THEN f.peers + 1 ELSE f.peers
      /\ g.queue[p] = f.queue[p] \cup S
      /\ g.stalling = f.stalling
      /\ g.partial = f.partial
      /\ \A q \in Peers \ {p} : g.queue[q] = f.queue[q] /\ g.count[q] = f.count[q]
      /\ \A b \in Blocks : g.from[b] = IF b \in S THEN p ELSE f.from[b]
  BY <1>0, <1>2 DEF Flights
<1>5. \A q \in Peers : g.queue[q] = {x \in Blocks : g.from[x] = q}
  <2>1. ASSUME NEW q \in Peers \ {p} PROVE g.queue[q] = {x \in Blocks : g.from[x] = q}
    BY <1>4, <2>1, PeerAssumption, SMTT(30) DEF FlightOK
  <2>2. g.queue[p] = {x \in Blocks : g.from[x] = p}
    BY <1>4 DEF FlightOK
  <2> QED BY <2>1, <2>2
<1>6. g.count[p] = Cardinality(g.queue[p])
  <2>1. IsFiniteSet(f.queue[p]) BY CountFacts
  <2>2. f.count[p] = Cardinality(f.queue[p]) BY DEF FlightOK
  <2>3. f.queue[p] \cap S = {} BY PeerAssumption, SMTT(30) DEF FlightOK
  <2>4. Cardinality(f.queue[p] \cup S) = Cardinality(f.queue[p]) + Cardinality(S)
                                          - Cardinality(f.queue[p] \cap S)
    BY <2>1, <1>n, FS_Union
  <2>5. Cardinality(f.queue[p] \cap S) = 0 BY <2>3, FS_EmptySet
  <2>6. f.count[p] \in Nat BY CountFacts
  <2> QED BY <1>4, <1>c, <2>2, <2>4, <2>5, <2>6, SMTT(30) DEF n
<1>7. \/ (g.count[p] > 0 <=> f.count[p] > 0) /\ g.peers = f.peers
      \/ g.count[p] > 0 /\ ~(f.count[p] > 0) /\ g.peers = f.peers + 1
      \/ ~(g.count[p] > 0) /\ f.count[p] > 0 /\ g.peers = f.peers - 1
  <2>1. f.count[p] \in Nat BY CountFacts
  <2>2. f.peers \in Int BY <1>0 DEF Flights
  <2> QED BY <1>4, <1>c, <2>1, <2>2, SMTT(30) DEF One
<1>8. \A x \in g.partial : g.from[x] # NoPeer
  <2>1. f.partial \subseteq Blocks BY <1>0 DEF Flights
  <2> QED BY <1>4, <2>1, PeerAssumption DEF FlightOK
<1>9. \A q \in g.stalling : g.queue[q] # {}
  <2>1. f.stalling \subseteq Peers BY <1>0 DEF Flights
  <2> QED BY <1>4, <2>1 DEF FlightOK
<1>10. g.peers = Cardinality({q \in Peers : g.count[q] > 0}) BY <1>4, <1>7, PeersChange, SMTT(30)
<1>11. \A q \in Peers : g.count[q] = Cardinality(g.queue[q]) BY <1>4, <1>6 DEF FlightOK
<1>12. FlightOK(g) BY <1>3, <1>5, <1>8, <1>9, <1>10, <1>11 DEF FlightOK
<1>13. m = g BY DEF g
<1> QED BY <1>4, <1>12, <1>13

\* The tables f with the peers of W marked as stalling.
Stalled(f, W) == [f EXCEPT !.stalling = @ \cup W]

\* The requests of one SendMessages, and the stallers W it finds, keep the tables in agreement.
LEMMA RequestOK ==
    ASSUME NEW f, FlightOK(f), NEW p \in Peers, NEW S \in SUBSET Blocks,
           \A b \in S : f.from[b] = NoPeer,
           NEW W \in SUBSET Peers, \A q \in W : f.queue[q] # {},
           NEW m, m = MarkAllInFlight(f, p, S),
           NEW g, g = Stalled(m, W)
    PROVE  /\ FlightOK(g)
           /\ \A q \in Peers \ {p} : g.queue[q] = f.queue[q]
           /\ \A b \in Blocks : g.from[b] = IF b \in S THEN p ELSE f.from[b]
<1>1. g = [m EXCEPT !.stalling = @ \cup W] BY DEF Stalled
<1>2. /\ FlightOK(m)
      /\ \A q \in Peers \ {p} : m.queue[q] = f.queue[q]
      /\ m.queue[p] = f.queue[p] \cup S
      /\ \A b \in Blocks : m.from[b] = IF b \in S THEN p ELSE f.from[b]
  BY MarkAllOK, SMTT(30)
<1>3. m \in Flights BY <1>2 DEF FlightOK
<1>4. /\ g \in Flights /\ g.stalling = m.stalling \cup W
      /\ g.from = m.from /\ g.queue = m.queue /\ g.count = m.count
      /\ g.peers = m.peers /\ g.partial = m.partial
  BY <1>1, <1>3 DEF Flights
<1>5. \A q \in W : m.queue[q] # {} BY <1>2
<1>6. \A q \in g.stalling : g.queue[q] # {} BY <1>2, <1>4, <1>5 DEF FlightOK
<1>7. FlightOK(g)
  <2>1. \A q \in Peers : g.queue[q] = {b \in Blocks : g.from[b] = q}
    BY <1>2, <1>4, SMTT(30) DEF FlightOK
  <2>2. \A q \in Peers : g.count[q] = Cardinality(g.queue[q])
    BY <1>2, <1>4, SMTT(30) DEF FlightOK
  <2>3. g.peers = Cardinality({q \in Peers : g.count[q] > 0})
    BY <1>2, <1>4 DEF FlightOK
  <2>4. \A b \in g.partial : g.from[b] # NoPeer BY <1>2, <1>4, SMTT(30) DEF FlightOK
  <2> QED BY <1>4, <1>6, <2>1, <2>2, <2>3, <2>4 DEF FlightOK
<1> QED BY <1>2, <1>4, <1>7

\* The in-flight part of FinalizeNode keeps the tables in agreement.
LEMMA DropOK ==
    ASSUME NEW f, FlightOK(f), NEW p \in Peers
    PROVE  /\ FlightOK(DropPeer(f, p))
           /\ DropPeer(f, p).queue[p] = {}
           /\ \A q \in Peers \ {p} : DropPeer(f, p).queue[q] = f.queue[q]
           /\ \A b \in Blocks : DropPeer(f, p).from[b] # NoPeer => f.from[b] # NoPeer
<1> DEFINE g == DropPeer(f, p)
<1>0. f \in Flights BY DEF FlightOK
<1>1. g = [f EXCEPT !.from = [b \in Blocks |-> IF b \in f.queue[p] THEN NoPeer ELSE f.from[b]],
                    !.queue[p] = {},
                    !.count[p] = 0,
                    !.peers = f.peers - One(f.count[p] # 0),
                    !.stalling = f.stalling \ {p},
                    !.partial = f.partial \ f.queue[p]]
  BY <1>0 DEF DropPeer, Flights
<1> HIDE DEF g
<1>2. g = [from |-> [b \in Blocks |-> IF b \in f.queue[p] THEN NoPeer ELSE f.from[b]],
           queue |-> [f.queue EXCEPT ![p] = {}],
           count |-> [f.count EXCEPT ![p] = 0],
           peers |-> f.peers - One(f.count[p] # 0),
           stalling |-> f.stalling \ {p},
           partial |-> f.partial \ f.queue[p]]
  BY <1>0, <1>1 DEF Flights
<1>3. g \in Flights BY <1>0, <1>2, SMTT(30) DEF Flights, One
<1>4. /\ g.count[p] = 0 /\ g.queue[p] = {}
      /\ g.peers = f.peers - One(f.count[p] # 0)
      /\ g.stalling = f.stalling \ {p}
      /\ g.partial = f.partial \ f.queue[p]
      /\ \A q \in Peers \ {p} : g.queue[q] = f.queue[q] /\ g.count[q] = f.count[q]
      /\ \A b \in Blocks : g.from[b] = IF b \in f.queue[p] THEN NoPeer ELSE f.from[b]
  BY <1>0, <1>2 DEF Flights
<1>5. \A q \in Peers : g.queue[q] = {x \in Blocks : g.from[x] = q}
  <2>1. ASSUME NEW q \in Peers \ {p} PROVE g.queue[q] = {x \in Blocks : g.from[x] = q}
    BY <1>4, <2>1, PeerAssumption, SMTT(30) DEF FlightOK
  <2>2. g.queue[p] = {x \in Blocks : g.from[x] = p}
    BY <1>4, PeerAssumption, SMTT(30) DEF FlightOK
  <2> QED BY <2>1, <2>2
<1>6. g.count[p] = Cardinality(g.queue[p]) BY <1>4, FS_EmptySet
<1>7. \/ (g.count[p] > 0 <=> f.count[p] > 0) /\ g.peers = f.peers
      \/ g.count[p] > 0 /\ ~(f.count[p] > 0) /\ g.peers = f.peers + 1
      \/ ~(g.count[p] > 0) /\ f.count[p] > 0 /\ g.peers = f.peers - 1
  <2>1. f.count[p] \in Nat BY CountFacts
  <2>2. f.peers \in Int BY <1>0 DEF Flights
  <2> QED BY <1>4, <2>1, <2>2, SMTT(30) DEF One
<1>8. \A x \in g.partial : g.from[x] # NoPeer
  <2>1. f.partial \subseteq Blocks BY <1>0 DEF Flights
  <2> QED BY <1>4, <2>1 DEF FlightOK
<1>9. \A q \in g.stalling : g.queue[q] # {}
  <2>1. f.stalling \subseteq Peers BY <1>0 DEF Flights
  <2> QED BY <1>4, <2>1 DEF FlightOK
<1>10. g.peers = Cardinality({q \in Peers : g.count[q] > 0}) BY <1>4, <1>7, PeersChange, SMTT(30)
<1>11. \A q \in Peers : g.count[q] = Cardinality(g.queue[q]) BY <1>4, <1>6 DEF FlightOK
<1>12. FlightOK(g) BY <1>3, <1>5, <1>8, <1>9, <1>10, <1>11 DEF FlightOK
<1> QED BY <1>4, <1>12 DEF g

-----------------------------------------------------------------------------
(* What is asked for.                                                       *)

\* The blocks that Lowest selects are among the ones it is given.
LEMMA LowestSubset == \A S, n : Lowest(S, n) \subseteq S
BY DEF Lowest

\* Direct fetch asks for missing blocks below the announced one.
LEMMA DirectFetchOK ==
    ASSUME NEW f, FlightOK(f), NEW p \in Peers, NEW b \in Blocks
    PROVE  /\ FlightOK(DirectFetch(f, p, b))
           /\ \A q \in Peers \ {p} : DirectFetch(f, p, b).queue[q] = f.queue[q]
           /\ \A x \in Blocks : DirectFetch(f, p, b).from[x] # NoPeer =>
                  f.from[x] # NoPeer \/ x \in Path[b] \ have
<1> DEFINE missing == {x \in Path[b] \ Path[tip] : x \notin have /\ f.from[x] = NoPeer}
           S == Lowest(missing, MaxInTransit - f.count[p])
<1>1. DirectFetch(f, p, b) = f \/ DirectFetch(f, p, b) = MarkAllInFlight(f, p, S)
  BY DEF DirectFetch
<1>2. S \subseteq missing BY LowestSubset
<1>3. S \in SUBSET Blocks /\ \A x \in S : f.from[x] = NoPeer BY <1>2, PathAssumption
<1> HIDE DEF S
<1>4. CASE DirectFetch(f, p, b) = f BY <1>4
<1>5. CASE DirectFetch(f, p, b) = MarkAllInFlight(f, p, S)
  BY <1>2, <1>3, <1>5, MarkAllOK, SMTT(30)
<1> QED BY <1>1, <1>4, <1>5

\* A block on the path to a downloaded block is downloaded.
LEMMA DownloadedBelow ==
    ASSUME NEW b \in Blocks, HaveTxsDownloaded(b), NEW x \in Path[b]
    PROVE  x \in Blocks /\ HaveTxsDownloaded(x)
BY PathAssumption DEF HaveTxsDownloaded

\* The walk asks for missing blocks on the peer's chain, names a peer that holds a block, and
\* leaves pindexLastCommonBlock at a downloaded block.
LEMMA WalkOK ==
    ASSUME NEW f, FlightOK(f), NEW p \in Peers, NEW s, s.best \in Blocks,
           NEW common \in Blocks, HaveTxsDownloaded(common), NEW count
    PROVE  /\ Walk(f, p, s, common, count).vBlocks \subseteq Path[s.best] \ have
           /\ \A b \in Walk(f, p, s, common, count).vBlocks : f.from[b] = NoPeer
           /\ LET q == Walk(f, p, s, common, count).staller IN
              q # NoPeer => q \in Peers /\ f.queue[q] # {}
           /\ Walk(f, p, s, common, count).common \in Blocks
           /\ HaveTxsDownloaded(Walk(f, p, s, common, count).common)
<1> DEFINE windowEnd == Height(common) + Window
           ahead == {b \in Path[s.best] : Height(b) > Height(common) /\ Height(b) <= windowEnd + 1}
           wanted == {b \in ahead : ~Here(b) /\ f.from[b] = NoPeer}
           vBlocks == Lowest({b \in wanted : Height(b) <= windowEnd}, count)
           visited == IF Cardinality(vBlocks) < count THEN ahead
                      ELSE {b \in ahead : \E x \in vBlocks : Height(b) < Height(x)}
           linked == {common} \cup {b \in visited : MovesCommon(b)}
           inFlight == {b \in ahead : ~Here(b) /\ f.from[b] # NoPeer}
           waitingfor == IF inFlight = {} THEN NoPeer ELSE f.from[First(inFlight)]
           top == CHOOSE b \in linked : \A x \in linked : Height(x) <= Height(b)
           w == Walk(f, p, s, common, count)
<1>1. /\ w.common = top
      /\ w.vBlocks = vBlocks
      /\ w.staller = IF vBlocks = {} /\ wanted # {} /\ waitingfor # p THEN waitingfor ELSE NoPeer
  BY DEF Walk
<1> HIDE DEF w
<1>2. ahead \subseteq Blocks BY PathAssumption
<1>3. vBlocks \subseteq wanted
  <2>1. vBlocks \subseteq {b \in wanted : Height(b) <= windowEnd} BY LowestSubset
  <2> QED BY <2>1
<1>4. vBlocks \subseteq Path[s.best] \ have /\ \A b \in vBlocks : f.from[b] = NoPeer
  <2>1. wanted \subseteq Path[s.best] \ have /\ \A b \in wanted : f.from[b] = NoPeer
    BY DEF Here
  <2> HIDE DEF wanted, vBlocks
  <2> QED BY <1>3, <2>1
<1>5. ASSUME waitingfor # NoPeer PROVE waitingfor \in Peers /\ f.queue[waitingfor] # {}
  <2>1. inFlight # {} /\ waitingfor = f.from[First(inFlight)] BY <1>5
  <2>2. inFlight \in SUBSET Blocks BY <1>2
  <2>3. First(inFlight) \in inFlight
    <3> HIDE DEF inFlight
    <3> QED BY <2>1, <2>2, LowestExists DEF First
  <2>4. First(inFlight) \in Blocks /\ f.from[First(inFlight)] # NoPeer
    BY <2>3, <1>2
  <2> HIDE DEF inFlight, waitingfor
  <2> QED BY <2>1, <2>4 DEF FlightOK, Flights
<1>6. top \in Blocks /\ HaveTxsDownloaded(top)
  <2>1. visited \subseteq ahead BY DEF visited
  <2>2. linked \in SUBSET Blocks /\ linked # {}
    <3> HIDE DEF visited, ahead
    <3> QED BY <1>2, <2>1
  <2>3. top \in linked
    <3> HIDE DEF linked
    <3> QED BY <2>2, HighestExists
  <2> HIDE DEF visited, ahead, top
  <2> QED BY <2>2, <2>3 DEF MovesCommon
<1> HIDE DEF vBlocks, waitingfor, top
<1> QED BY <1>1, <1>4, <1>5, <1>6 DEF w

-----------------------------------------------------------------------------
(* The state of a peer.                                                     *)

NodeStates ==
    [best : Blocks \cup {NoBlock}, unknown : Blocks \cup {NoBlock}, common : Blocks \cup {NoBlock},
     preferred : BOOLEAN, sync : BOOLEAN, armed : BOOLEAN, protect : BOOLEAN,
     behind : Blocks \cup {NoBlock}, asked : BOOLEAN]

\* Everything below pindexLastCommonBlock is downloaded, and pindexBestKnownBlock is known.
StateOK(s, known) ==
    /\ s \in NodeStates
    /\ s.best \in known \cup {NoBlock}
    /\ s.common # NoBlock => HaveTxsDownloaded(s.common)

SameFlags(s, t) == t.preferred = s.preferred /\ t.sync = s.sync /\ t.protect = s.protect

\* What a peer announces changes only what it is known to have.
LEMMA AvailabilityOK ==
    ASSUME NEW known \in SUBSET Blocks, NEW s, StateOK(s, known)
    PROVE  /\ StateOK(ProcessBlockAvailability(s, known), known)
           /\ SameFlags(s, ProcessBlockAvailability(s, known))
BY DEF ProcessBlockAvailability, StateOK, NodeStates, SameFlags

\* UpdateBlockAvailability, after it has resolved hashLastUnknownBlock.
LEMMA UpdateAvailabilityOK ==
    ASSUME NEW known \in SUBSET Blocks, NEW s, StateOK(s, known), NEW b \in Blocks
    PROVE  /\ StateOK(UpdateBlockAvailability(s, b, known), known)
           /\ SameFlags(s, UpdateBlockAvailability(s, b, known))
<1> DEFINE t == ProcessBlockAvailability(s, known)
<1>1. StateOK(t, known) /\ SameFlags(s, t) BY AvailabilityOK
<1>2. UpdateBlockAvailability(s, b, known) =
          IF b \in known THEN [t EXCEPT !.best = IF Work(b) >= Work(t.best) THEN b ELSE t.best]
          ELSE [t EXCEPT !.unknown = b]
  BY <1>1 DEF UpdateBlockAvailability, StateOK, NodeStates
<1> HIDE DEF t
<1> QED BY <1>1, <1>2 DEF StateOK, NodeStates, SameFlags

\* The walk down from the peer's best block to a block of the active chain.
LEMMA FindNextOK ==
    ASSUME NEW f, FlightOK(f), NEW p \in Peers, NEW s, StateOK(s, headers), headers \subseteq Blocks,
           tip \in Blocks, Path[tip] \subseteq have, NEW count
    PROVE  LET r == FindNextBlocksToDownload(f, p, s, count) IN
           /\ r.vBlocks = {} \/ (s.best \in headers /\ r.vBlocks \subseteq Path[s.best] \ have)
           /\ \A b \in r.vBlocks : f.from[b] = NoPeer
           /\ r.staller # NoPeer => r.staller \in Peers /\ f.queue[r.staller] # {}
           /\ r.common # NoBlock => r.common \in Blocks /\ HaveTxsDownloaded(r.common)
<1> DEFINE r == FindNextBlocksToDownload(f, p, s, count)
           guess == IF s.common # NoBlock THEN s.common
                    ELSE Ancestor(tip, Min({Height(s.best), Height(tip)}))
           common == LastCommonAncestor(guess, s.best)
<1>1. r = IF Work(s.best) < Work(tip) THEN [common |-> s.common, vBlocks |-> {}, staller |-> NoPeer]
          ELSE IF common = s.best THEN [common |-> common, vBlocks |-> {}, staller |-> NoPeer]
          ELSE Walk(f, p, s, common, count)
  BY DEF FindNextBlocksToDownload
<1> HIDE DEF r
<1>2. CASE Work(s.best) < Work(tip)
  BY <1>1, <1>2, SMTT(30) DEF StateOK, NodeStates, r
<1>3. CASE ~(Work(s.best) < Work(tip))
  <2>h. \A b \in Blocks : Height(b) \in Nat
    <3>1. Cardinality(Blocks) \in Nat BY TreeAssumption, FS_CardinalityType
    <3> QED BY <3>1, PathAssumption, SMTT(30) DEF Height
  <2>1. s.best \in Blocks /\ s.best \in headers
    <3>1. s.best \in headers \cup {NoBlock} BY DEF StateOK
    <3>2. tip # NoBlock BY TreeAssumption
    <3> QED BY <1>3, <2>h, <3>1, <3>2, SMTT(30) DEF Work
  <2>2. guess \in Blocks /\ HaveTxsDownloaded(guess)
    <3>1. CASE s.common # NoBlock BY <3>1 DEF StateOK, NodeStates
    <3>2. CASE s.common = NoBlock
      <4> DEFINE h == Min({Height(s.best), Height(tip)})
      <4>1. h \in 0 .. nHeight[tip]
        <5>1. Height(s.best) \in Nat /\ Height(tip) \in Nat BY <2>1, <2>h
        <5>2. h \in {Height(s.best), Height(tip)} /\ h <= Height(tip)
          BY <5>1, SMTT(30) DEF Min
        <5> QED BY <5>1, <5>2, SMTT(30) DEF Height
      <4>2. \E x \in Path[tip] : Height(x) = h BY <4>1, PathAssumption DEF Height
      <4>3. guess \in Path[tip] BY <3>2, <4>2 DEF Ancestor
      <4>4. HaveTxsDownloaded(tip) BY DEF HaveTxsDownloaded
      <4> HIDE DEF guess
      <4> QED BY <4>3, <4>4, DownloadedBelow
    <3> QED BY <3>1, <3>2
  <2> HIDE DEF guess
  <2>3. common \in Path[guess] \cap Path[s.best]
    <3> DEFINE S == Path[guess] \cap Path[s.best]
    <3>1. S \in SUBSET Blocks /\ S # {} BY <2>1, <2>2, PathAssumption
    <3>2. common = CHOOSE x \in S : \A y \in S : Height(y) <= Height(x)
      BY <2>1, <2>2 DEF LastCommonAncestor, fork
    <3> HIDE DEF S
    <3>3. common \in S BY <3>1, <3>2, HighestExists
    <3> QED BY <3>3 DEF S
  <2>4. common \in Blocks /\ HaveTxsDownloaded(common) BY <2>2, <2>3, DownloadedBelow
  <2> HIDE DEF common
  <2>5. CASE common = s.best BY <1>1, <1>3, <2>4, <2>5, SMTT(30) DEF r
  <2>6. CASE common # s.best
    <3>1. r = Walk(f, p, s, common, count) BY <1>1, <1>3, <2>6
    <3> QED BY <2>1, <2>4, <3>1, WalkOK, SMTT(30) DEF r
  <2> QED BY <2>5, <2>6
<1> QED BY <1>2, <1>3
-----------------------------------------------------------------------------
(* The inductive invariant.                                                 *)

Counters ==
    /\ nSyncStarted = Cardinality({p \in connected : nodes[p].sync})
    /\ nPreferredDownload = Cardinality({p \in connected : nodes[p].preferred})
    /\ nProtected = Cardinality({p \in connected : nodes[p].protect})

ChainInv ==
    /\ headers \subseteq Blocks /\ \A b \in headers : Path[b] \subseteq headers
    /\ tip \in Blocks /\ Path[tip] \subseteq have

NodesInv ==
    /\ nodes \in [Peers -> NodeStates] /\ connected \subseteq Peers
    /\ \A p \in Peers : StateOK(nodes[p], headers)
    /\ \A p \in Peers \ connected : nodes[p] = NewState(p)

FlightInv ==
    /\ FlightOK(flight)
    /\ \A p \in Peers \ connected : flight.queue[p] = {}
    /\ \A b \in Blocks : flight.from[b] # NoPeer => b \in headers \ have

DownloadInv == ChainInv /\ NodesInv /\ FlightInv /\ Counters

\* It gives the four properties.
LEMMA InvImplies ==
    ASSUME DownloadInv
    PROVE  InFlightExact /\ StallersHold /\ RequestsUseful /\ CommonDownloaded
<1>1. InFlightExact
  <2>1. flight.partial \subseteq {b \in Blocks : flight.from[b] # NoPeer}
    BY DEF DownloadInv, FlightInv, FlightOK, Flights
  <2>2. \A p \in Peers : p \notin connected => flight.queue[p] = {} BY DEF DownloadInv, FlightInv
  <2> QED BY <2>1, <2>2 DEF DownloadInv, FlightInv, FlightOK, Counters, InFlightExact
<1>2. StallersHold BY DEF DownloadInv, FlightInv, FlightOK, StallersHold
<1>3. RequestsUseful BY DEF DownloadInv, FlightInv, RequestsUseful
<1>4. CommonDownloaded BY DEF DownloadInv, NodesInv, StateOK, CommonDownloaded
<1> QED BY <1>1, <1>2, <1>3, <1>4

\* A new connection has nothing in flight and counts for nothing but its preference.
LEMMA NewStateOK ==
    ASSUME NEW p
    PROVE  StateOK(NewState(p), headers) /\ ~NewState(p).sync /\ ~NewState(p).protect
BY SMTT(30) DEF NewState, StateOK, NodeStates

\* An empty node table and no block in flight satisfy it.
LEMMA DownloadInit == Init => DownloadInv
<1> SUFFICES ASSUME Init PROVE DownloadInv OBVIOUS
<1>1. ChainInv BY TreeAssumption DEF Init, ChainInv
<1>2. NodesInv
  <2>1. nodes = [p \in Peers |-> NewState(p)] /\ connected = {} BY DEF Init
  <2>2. \A p \in Peers : NewState(p) \in NodeStates BY NewStateOK DEF StateOK
  <2> QED BY <2>1, <2>2, NewStateOK DEF NodesInv
<1>3. FlightInv
  <2>1. flight = NoFlight BY DEF Init
  <2>2. NoFlight \in Flights BY SMTT(30) DEF NoFlight, Flights
  <2>3. \A p \in Peers : NoFlight.queue[p] = {b \in Blocks : NoFlight.from[b] = p}
    BY PeerAssumption DEF NoFlight
  <2>4. \A p \in Peers : NoFlight.count[p] = Cardinality(NoFlight.queue[p])
    BY FS_EmptySet DEF NoFlight
  <2>5. NoFlight.peers = Cardinality({p \in Peers : NoFlight.count[p] > 0})
    <3>1. {p \in Peers : NoFlight.count[p] > 0} = {} BY SMTT(30) DEF NoFlight
    <3> QED BY <3>1, FS_EmptySet DEF NoFlight
  <2>6. NoFlight.partial = {} /\ NoFlight.stalling = {} BY DEF NoFlight
  <2>7. FlightOK(NoFlight) BY <2>2, <2>3, <2>4, <2>5, <2>6 DEF FlightOK
  <2>8. \A p \in Peers : NoFlight.queue[p] = {} BY DEF NoFlight
  <2>9. \A b \in Blocks : NoFlight.from[b] = NoPeer BY DEF NoFlight
  <2> QED BY <2>1, <2>7, <2>8, <2>9 DEF FlightInv
<1>4. Counters
  <2>1. connected = {} BY DEF Init
  <2>2. /\ {p \in connected : nodes[p].sync} = {}
        /\ {p \in connected : nodes[p].preferred} = {}
        /\ {p \in connected : nodes[p].protect} = {}
    BY <2>1
  <2> QED BY <2>2, FS_EmptySet DEF Init, Counters
<1> QED BY <1>1, <1>2, <1>3, <1>4 DEF DownloadInv

\* The global counters after a step that changes one peer.
LEMMA CountersStep ==
    ASSUME Counters, connected \in SUBSET Peers, NEW p \in Peers,
           \A q \in Peers \ {p} : nodes'[q] = nodes[q] /\ (q \in connected' <=> q \in connected),
           connected' \in SUBSET Peers,
           NEW a \in BOOLEAN, NEW b \in BOOLEAN, a <=> p \in connected, b <=> p \in connected',
           nSyncStarted' = nSyncStarted + One(b /\ nodes'[p].sync) - One(a /\ nodes[p].sync),
           nPreferredDownload' = nPreferredDownload + One(b /\ nodes'[p].preferred)
                                                    - One(a /\ nodes[p].preferred),
           nProtected' = nProtected + One(b /\ nodes'[p].protect) - One(a /\ nodes[p].protect)
    PROVE  Counters'
<1>f. \A S \in SUBSET Peers : IsFiniteSet(S) BY PeerAssumption, FS_Subset
<1>1. nSyncStarted' = Cardinality({q \in connected' : nodes'[q].sync})
  <2> DEFINE A == {q \in connected : nodes[q].sync}
             B == {q \in connected' : nodes'[q].sync}
  <2>1. A \in SUBSET Peers /\ A \ {p} = B \ {p} OBVIOUS
  <2>2. (p \in A <=> a /\ nodes[p].sync) /\ (p \in B <=> b /\ nodes'[p].sync) OBVIOUS
  <2>3. nSyncStarted = Cardinality(A) BY DEF Counters
  <2> HIDE DEF A, B
  <2>4. IsFiniteSet(A) BY <2>1, <1>f
  <2>5. Cardinality(B) = Cardinality(A) + One(p \in B) - One(p \in A) BY <2>1, <2>4, CountOne
  <2>6. nSyncStarted' = Cardinality(B) BY <2>2, <2>3, <2>5 DEF One
  <2> QED BY <2>6 DEF B
<1>2. nPreferredDownload' = Cardinality({q \in connected' : nodes'[q].preferred})
  <2> DEFINE A == {q \in connected : nodes[q].preferred}
             B == {q \in connected' : nodes'[q].preferred}
  <2>1. A \in SUBSET Peers /\ A \ {p} = B \ {p} OBVIOUS
  <2>2. (p \in A <=> a /\ nodes[p].preferred) /\ (p \in B <=> b /\ nodes'[p].preferred) OBVIOUS
  <2>3. nPreferredDownload = Cardinality(A) BY DEF Counters
  <2> HIDE DEF A, B
  <2>4. IsFiniteSet(A) BY <2>1, <1>f
  <2>5. Cardinality(B) = Cardinality(A) + One(p \in B) - One(p \in A) BY <2>1, <2>4, CountOne
  <2>6. nPreferredDownload' = Cardinality(B) BY <2>2, <2>3, <2>5 DEF One
  <2> QED BY <2>6 DEF B
<1>3. nProtected' = Cardinality({q \in connected' : nodes'[q].protect})
  <2> DEFINE A == {q \in connected : nodes[q].protect}
             B == {q \in connected' : nodes'[q].protect}
  <2>1. A \in SUBSET Peers /\ A \ {p} = B \ {p} OBVIOUS
  <2>2. (p \in A <=> a /\ nodes[p].protect) /\ (p \in B <=> b /\ nodes'[p].protect) OBVIOUS
  <2>3. nProtected = Cardinality(A) BY DEF Counters
  <2> HIDE DEF A, B
  <2>4. IsFiniteSet(A) BY <2>1, <1>f
  <2>5. Cardinality(B) = Cardinality(A) + One(p \in B) - One(p \in A) BY <2>1, <2>4, CountOne
  <2>6. nProtected' = Cardinality(B) BY <2>2, <2>3, <2>5 DEF One
  <2> QED BY <2>6 DEF B
<1> QED BY <1>1, <1>2, <1>3 DEF Counters

\* The node table after a step that gives one connected peer the state t.
LEMMA NodesStep ==
    ASSUME NodesInv, NEW p \in connected, NEW t, StateOK(t, headers'),
           nodes' = [nodes EXCEPT ![p] = t], connected' = connected,
           headers \subseteq headers', have \subseteq have'
    PROVE  NodesInv'
<1>1. nodes' \in [Peers -> NodeStates] /\ connected' \subseteq Peers
  BY DEF NodesInv, StateOK
<1>2. ASSUME NEW q \in Peers PROVE StateOK(nodes[q], headers)'
  <2>1. StateOK(nodes'[q], headers')
    BY DEF NodesInv, StateOK
  <2> QED BY <2>1 DEF StateOK, HaveTxsDownloaded
<1>3. \A q \in Peers \ connected : nodes'[q] = NewState(q) BY DEF NodesInv
<1> QED BY <1>1, <1>2, <1>3 DEF NodesInv, NewState

\* The counters after such a step.
LEMMA CountersPeer ==
    ASSUME NodesInv, Counters, NEW p \in connected, NEW t,
           nodes' = [nodes EXCEPT ![p] = t], connected' = connected,
           nSyncStarted' = nSyncStarted + One(t.sync) - One(nodes[p].sync),
           nPreferredDownload' = nPreferredDownload + One(t.preferred) - One(nodes[p].preferred),
           nProtected' = nProtected + One(t.protect) - One(nodes[p].protect)
    PROVE  Counters'
<1>1. p \in Peers /\ connected \in SUBSET Peers /\ connected' \in SUBSET Peers BY DEF NodesInv
<1>2. nodes'[p] = t /\ \A q \in Peers \ {p} : nodes'[q] = nodes[q] BY <1>1 DEF NodesInv
<1>3. /\ nSyncStarted' = nSyncStarted + One(TRUE /\ nodes'[p].sync) - One(TRUE /\ nodes[p].sync)
      /\ nPreferredDownload' = nPreferredDownload + One(TRUE /\ nodes'[p].preferred)
                                                  - One(TRUE /\ nodes[p].preferred)
      /\ nProtected' = nProtected + One(TRUE /\ nodes'[p].protect) - One(TRUE /\ nodes[p].protect)
  BY <1>2 DEF One
<1> QED BY <1>1, <1>2, <1>3, CountersStep

\* The counters are integers.
LEMMA CountersInt ==
    ASSUME NodesInv, Counters
    PROVE  nSyncStarted \in Int /\ nPreferredDownload \in Int /\ nProtected \in Int
<1>1. connected \subseteq Peers BY DEF NodesInv
<1>2. \A S \in SUBSET connected : Cardinality(S) \in Nat
  BY <1>1, PeerAssumption, FS_Subset, FS_CardinalityType
<1>3. /\ {p \in connected : nodes[p].sync} \in SUBSET connected
      /\ {p \in connected : nodes[p].preferred} \in SUBSET connected
      /\ {p \in connected : nodes[p].protect} \in SUBSET connected
  OBVIOUS
<1> QED BY <1>2, <1>3, SMTT(30) DEF Counters

\* A state with the same flags leaves the counters alone.
LEMMA CountersFlags ==
    ASSUME NodesInv, Counters, NEW p \in connected, NEW t, SameFlags(nodes[p], t),
           nodes' = [nodes EXCEPT ![p] = t],
           UNCHANGED <<connected, nSyncStarted, nPreferredDownload, nProtected>>
    PROVE  Counters'
<1>1. nSyncStarted \in Int /\ nPreferredDownload \in Int /\ nProtected \in Int BY CountersInt
<1>2. /\ nSyncStarted' = nSyncStarted + One(t.sync) - One(nodes[p].sync)
      /\ nPreferredDownload' = nPreferredDownload + One(t.preferred) - One(nodes[p].preferred)
      /\ nProtected' = nProtected + One(t.protect) - One(nodes[p].protect)
  BY <1>1, SMTT(30) DEF SameFlags, One
<1>3. connected' = connected OBVIOUS
<1> QED BY <1>2, <1>3, CountersPeer

\* ProcessNewBlock stores at most the block it is given and keeps the active chain downloaded.
LEMMA ProcessNewBlockOK ==
    ASSUME ChainInv, NEW b \in Blocks, NEW fRequested, ProcessNewBlock(b, fRequested)
    PROVE  /\ ChainInv'
           /\ headers \subseteq headers' /\ have \subseteq have' /\ have' \subseteq have \cup {b}
           /\ b \in have' \ have => b \in headers'
<1>1. headers \subseteq headers' /\ headers' \subseteq headers \cup {b} BY DEF ProcessNewBlock
<1>2. have \subseteq have' /\ have' \subseteq have \cup {b} /\ (b \in have' \ have => b \in headers')
  BY DEF ProcessNewBlock
<1>3. \A x \in headers' : Path[x] \subseteq headers'
  <2>1. CASE headers' = headers BY <2>1 DEF ChainInv
  <2>2. CASE headers' # headers
    <3>1. Parent[b] \in headers /\ headers' = headers \cup {b} BY <2>2 DEF ProcessNewBlock
    <3>2. Path[b] \subseteq headers'
      <4>1. CASE b = Genesis BY <3>1, <4>1, TreeAssumption
      <4>2. CASE b # Genesis BY <3>1, <4>2, TreeAssumption DEF ChainInv
      <4> QED BY <4>1, <4>2
    <3> QED BY <3>1, <3>2 DEF ChainInv
  <2> QED BY <2>1, <2>2
<1>4. tip' \in Blocks /\ Path[tip'] \subseteq have'
  <2>1. CASE UNCHANGED <<have, tip>> BY <2>1 DEF ChainInv
  <2>2. CASE ~UNCHANGED <<have, tip>>
    <3> DEFINE full == {x \in Blocks : Path[x] \subseteq have'}
               best == {x \in full : \A y \in full : Height(y) <= Height(x)}
    <3>1. tip' \in IF tip \in best THEN {tip} ELSE best BY <2>2 DEF ProcessNewBlock
    <3>2. tip' \in best BY <3>1
    <3> QED BY <3>2
  <2> QED BY <2>1, <2>2
<1> QED BY <1>1, <1>2, <1>3, <1>4 DEF ChainInv

\* A compact block that is not in flight from another peer is marked with its partial block.
LEMMA MarkedOK ==
    ASSUME NEW f, FlightOK(f), NEW p \in Peers, NEW b \in Blocks, f.from[b] = NoPeer \/ f.from[b] = p
    PROVE  LET g == [MarkBlockAsInFlight(f, p, b) EXCEPT !.partial = @ \cup {b}] IN
           /\ FlightOK(g)
           /\ \A q \in Peers \ {p} : g.queue[q] = f.queue[q]
           /\ \A x \in Blocks \ {b} : g.from[x] = f.from[x]
<1> DEFINE m == MarkBlockAsInFlight(f, p, b)
           g == [m EXCEPT !.partial = @ \cup {b}]
<1>1. /\ FlightOK(m) /\ m.from[b] = p
      /\ \A q \in Peers \ {p} : m.queue[q] = f.queue[q]
      /\ \A x \in Blocks \ {b} : m.from[x] = f.from[x]
  <2>1. CASE f.from[b] = p BY <2>1 DEF MarkBlockAsInFlight
  <2>2. CASE f.from[b] # p
    <3>1. MarkBlockAsReceived(f, b) = f BY <2>2 DEF MarkBlockAsReceived
    <3>2. m = MarkAllInFlight(f, p, {b}) BY <2>2, <3>1 DEF MarkBlockAsInFlight
    <3> HIDE DEF m
    <3> QED BY <2>2, <3>2, MarkAllOK, SMTT(30)
  <2> QED BY <2>1, <2>2
<1> HIDE DEF m
<1>2. m \in Flights BY <1>1 DEF FlightOK
<1>3. g \in Flights /\ g.partial = m.partial \cup {b}
  BY <1>2 DEF Flights
<1>4. /\ g.from = m.from /\ g.queue = m.queue /\ g.count = m.count
      /\ g.peers = m.peers /\ g.stalling = m.stalling
  BY <1>2 DEF Flights
<1> HIDE DEF g
<1>5. FlightOK(g) BY <1>1, <1>3, <1>4, PeerAssumption, SMTT(30) DEF FlightOK
<1> QED BY <1>1, <1>4, <1>5 DEF g, m

-----------------------------------------------------------------------------
(* The actions.                                                             *)

\* A new connection.
LEMMA InitializeStep ==
    ASSUME DownloadInv, NEW p \in Peers, InitializeNode(p)
    PROVE  DownloadInv'
<1>1. /\ p \notin connected /\ connected' = connected \cup {p} /\ nodes' = nodes
      /\ flight' = flight /\ headers' = headers /\ have' = have /\ tip' = tip
      /\ nPreferredDownload' = nPreferredDownload + One(NewState(p).preferred)
      /\ nSyncStarted' = nSyncStarted /\ nProtected' = nProtected
  BY DEF InitializeNode
<1>2. nodes[p] = NewState(p) BY <1>1 DEF DownloadInv, NodesInv
<1>3. ChainInv' BY <1>1 DEF DownloadInv, ChainInv
<1>4. NodesInv'
  <2>1. \A q \in Peers : StateOK(nodes[q], headers)'
    BY <1>1 DEF DownloadInv, NodesInv, StateOK, HaveTxsDownloaded
  <2>2. \A q \in Peers \ connected : nodes[q] = NewState(q) BY DEF DownloadInv, NodesInv
  <2>3. nodes' \in [Peers -> NodeStates] /\ connected' \subseteq Peers
    BY <1>1 DEF DownloadInv, NodesInv
  <2> QED BY <1>1, <2>1, <2>2, <2>3 DEF NodesInv, NewState
<1>5. FlightInv' BY <1>1 DEF DownloadInv, FlightInv
<1>6. Counters'
  <2>1. nSyncStarted \in Int /\ nPreferredDownload \in Int /\ nProtected \in Int
    BY CountersInt DEF DownloadInv
  <2>2. ~nodes[p].sync /\ ~nodes[p].protect BY <1>2, NewStateOK
  <2>3. /\ nSyncStarted' = nSyncStarted + One(TRUE /\ nodes'[p].sync) - One(FALSE /\ nodes[p].sync)
        /\ nPreferredDownload' = nPreferredDownload + One(TRUE /\ nodes'[p].preferred)
                                                    - One(FALSE /\ nodes[p].preferred)
        /\ nProtected' = nProtected + One(TRUE /\ nodes'[p].protect) - One(FALSE /\ nodes[p].protect)
    BY <1>1, <1>2, <2>1, <2>2, SMTT(30) DEF One
  <2>4. connected \in SUBSET Peers /\ Counters BY DEF DownloadInv, NodesInv
  <2> QED BY <1>1, <2>3, <2>4, CountersStep
<1> QED BY <1>3, <1>4, <1>5, <1>6 DEF DownloadInv

\* FinalizeNode: what the peer had in flight and what it counted for is gone.
LEMMA FinalizeStep ==
    ASSUME DownloadInv, NEW p \in Peers, FinalizeNode(p)
    PROVE  DownloadInv'
<1>1. /\ p \in connected /\ connected' = connected \ {p}
      /\ nodes' = [nodes EXCEPT ![p] = NewState(p)]
      /\ flight' = DropPeer(flight, p) /\ headers' = headers /\ have' = have /\ tip' = tip
      /\ nSyncStarted' = nSyncStarted - One(nodes[p].sync)
      /\ nPreferredDownload' = nPreferredDownload - One(nodes[p].preferred)
      /\ nProtected' = nProtected - One(nodes[p].protect)
  BY DEF FinalizeNode
<1>2. ChainInv' BY <1>1 DEF DownloadInv, ChainInv
<1>3. NodesInv'
  <2>1. NewState(p) \in NodeStates BY NewStateOK DEF StateOK
  <2>2. nodes' \in [Peers -> NodeStates] /\ connected' \subseteq Peers
    BY <1>1, <2>1 DEF DownloadInv, NodesInv
  <2>3. \A q \in Peers : nodes'[q] = IF q = p THEN NewState(p) ELSE nodes[q]
    BY <1>1 DEF DownloadInv, NodesInv
  <2>4. \A q \in Peers : StateOK(nodes'[q], headers)
    BY <2>3, NewStateOK DEF DownloadInv, NodesInv
  <2>5. \A q \in Peers : StateOK(nodes[q], headers)'
    BY <1>1, <2>4 DEF StateOK, HaveTxsDownloaded
  <2>6. \A q \in Peers \ connected : nodes[q] = NewState(q) BY DEF DownloadInv, NodesInv
  <2> QED BY <1>1, <2>2, <2>3, <2>5, <2>6 DEF NodesInv, NewState
<1>4. FlightInv'
  <2>1. FlightOK(flight) BY DEF DownloadInv, FlightInv
  <2> QED BY <1>1, <2>1, DropOK, SMTT(30) DEF DownloadInv, FlightInv
<1>5. Counters'
  <2>1. nSyncStarted \in Int /\ nPreferredDownload \in Int /\ nProtected \in Int
    BY CountersInt DEF DownloadInv
  <2>3. /\ nSyncStarted' = nSyncStarted + One(FALSE /\ nodes'[p].sync) - One(TRUE /\ nodes[p].sync)
        /\ nPreferredDownload' = nPreferredDownload + One(FALSE /\ nodes'[p].preferred)
                                                    - One(TRUE /\ nodes[p].preferred)
        /\ nProtected' = nProtected + One(FALSE /\ nodes'[p].protect) - One(TRUE /\ nodes[p].protect)
    BY <1>1, <2>1, SMTT(30) DEF One
  <2>4. connected \in SUBSET Peers /\ Counters BY DEF DownloadInv, NodesInv
  <2>5. \A q \in Peers \ {p} : nodes'[q] = nodes[q] BY <1>1 DEF DownloadInv, NodesInv
  <2> QED BY <1>1, <2>3, <2>4, <2>5, CountersStep
<1> QED BY <1>2, <1>3, <1>4, <1>5 DEF DownloadInv

\* A step that leaves the node table and the counters alone and stores at most b.
LEMMA StoreStep ==
    ASSUME DownloadInv, NEW b \in Blocks, NEW g, FlightOK(g), flight' = g,
           \A q \in Peers \ connected : g.queue[q] = {},
           \A x \in Blocks : g.from[x] # NoPeer => x \in headers' \ have /\ x # b,
           ChainInv', headers \subseteq headers', have \subseteq have', have' \subseteq have \cup {b},
           connected' = connected
    PROVE  FlightInv'
BY DEF FlightInv

\* A block message, whoever it was requested from.
LEMMA BlockStep ==
    ASSUME DownloadInv, NEW p \in Peers, NEW b \in Blocks, NEW bad, Block(p, b, bad)
    PROVE  DownloadInv'
<1> DEFINE g == MarkBlockAsReceived(flight, b)
<1>1. /\ p \in connected /\ flight' = g
      /\ UNCHANGED <<nodes, connected, nSyncStarted, nPreferredDownload, nProtected>>
  BY DEF Block, Live
<1>2. /\ ChainInv' /\ headers \subseteq headers' /\ have \subseteq have'
      /\ have' \subseteq have \cup {b}
  <2>1. CASE bad BY <2>1 DEF Block, DownloadInv, ChainInv
  <2>2. CASE ~bad
    <3>1. ProcessNewBlock(b, flight.from[b] # NoPeer) BY <2>2 DEF Block
    <3> QED BY <3>1, ProcessNewBlockOK DEF DownloadInv
  <2> QED BY <2>1, <2>2
<1>3. /\ FlightOK(g) /\ g.from[b] = NoPeer
      /\ \A x \in Blocks \ {b} : g.from[x] = flight.from[x]
      /\ \A q \in Peers : g.queue[q] = flight.queue[q] \ {b}
  BY ReceivedOK DEF DownloadInv, FlightInv
<1> HIDE DEF g
<1>4. FlightInv'
  <2>1. \A q \in Peers \ connected : g.queue[q] = {} BY <1>3 DEF DownloadInv, FlightInv
  <2>2. \A x \in Blocks : g.from[x] # NoPeer => x \in headers' \ have /\ x # b
    BY <1>2, <1>3, SMTT(30) DEF DownloadInv, FlightInv
  <2> QED BY <1>1, <1>2, <1>3, <2>1, <2>2, StoreStep
<1>5. NodesInv'
  <2>1. nodes' \in [Peers -> NodeStates] /\ connected' \subseteq Peers
    BY <1>1 DEF DownloadInv, NodesInv
  <2>2. \A q \in Peers : StateOK(nodes[q], headers)'
    BY <1>1, <1>2 DEF DownloadInv, NodesInv, StateOK, HaveTxsDownloaded
  <2> QED BY <1>1, <2>1, <2>2 DEF DownloadInv, NodesInv, NewState
<1>6. Counters' BY <1>1 DEF DownloadInv, Counters
<1> QED BY <1>2, <1>4, <1>5, <1>6 DEF DownloadInv

\* An announcement.
LEMMA AnnounceStep ==
    ASSUME DownloadInv, NEW p \in Peers, NEW b \in Blocks, Announce(p, b)
    PROVE  DownloadInv'
<1> DEFINE t == UpdateBlockAvailability(nodes[p], b, headers)
<1>1. /\ p \in connected /\ nodes' = [nodes EXCEPT ![p] = t]
      /\ UNCHANGED <<headers, have, tip, connected, flight, nSyncStarted, nPreferredDownload,
                     nProtected>>
  BY DEF Announce, Live
<1>2. StateOK(t, headers) /\ SameFlags(nodes[p], t)
  BY UpdateAvailabilityOK DEF DownloadInv, ChainInv, NodesInv
<1> HIDE DEF t
<1>3. ChainInv' BY <1>1 DEF DownloadInv, ChainInv
<1>4. NodesInv' BY <1>1, <1>2, NodesStep DEF DownloadInv
<1>5. FlightInv' BY <1>1 DEF DownloadInv, FlightInv
<1>6. Counters' BY <1>1, <1>2, CountersFlags DEF DownloadInv
<1> QED BY <1>3, <1>4, <1>5, <1>6 DEF DownloadInv

\* ProcessHeadersMessage: the availability, the protection slot and direct fetch.
LEMMA ProcessHeadersStep ==
    ASSUME DownloadInv, NEW p \in connected, NEW b \in Blocks, NEW known \in SUBSET Blocks,
           headers \subseteq known, Path[b] \subseteq known, \A x \in known : Path[x] \subseteq known,
           ProcessHeaders(p, b, known),
           UNCHANGED <<have, tip, connected, nSyncStarted, nPreferredDownload>>
    PROVE  DownloadInv'
<1> DEFINE s == UpdateBlockAvailability(nodes[p], b, known)
           protects == /\ p \in Outbound /\ ~s.protect
                       /\ nProtected < MaxProtect
                       /\ Work(s.best) >= Work(tip)
           t == [s EXCEPT !.protect = @ \/ protects]
           g == DirectFetch(flight, p, b)
<1>1. /\ headers' = known /\ nodes' = [nodes EXCEPT ![p] = t]
      /\ nProtected' = nProtected + One(protects) /\ flight' = g
  BY DEF ProcessHeaders
<1>p. p \in Peers BY DEF DownloadInv, NodesInv
<1>2. StateOK(s, known) /\ SameFlags(nodes[p], s)
  <2>1. StateOK(nodes[p], headers) BY <1>p DEF DownloadInv, NodesInv
  <2>2. StateOK(nodes[p], known) BY <2>1 DEF StateOK
  <2> QED BY <2>2, UpdateAvailabilityOK
<1>b. protects \in BOOLEAN /\ (protects => ~s.protect) OBVIOUS
<1> HIDE DEF s, protects
<1>3. /\ StateOK(t, known) /\ t.sync = s.sync /\ t.preferred = s.preferred
      /\ t.protect = (s.protect \/ protects)
  BY <1>2, <1>b DEF StateOK, NodeStates
<1> HIDE DEF t
<1>4. ChainInv' BY <1>1 DEF DownloadInv, ChainInv
<1>5. NodesInv' BY <1>1, <1>3, NodesStep DEF DownloadInv
<1>6. FlightInv'
  <2>1. FlightOK(flight) BY DEF DownloadInv, FlightInv
  <2>2. /\ FlightOK(g)
        /\ \A q \in Peers \ {p} : g.queue[q] = flight.queue[q]
        /\ \A x \in Blocks : g.from[x] # NoPeer => flight.from[x] # NoPeer \/ x \in Path[b] \ have
    BY <1>p, <2>1, DirectFetchOK
  <2> HIDE DEF g
  <2> QED BY <1>1, <2>2 DEF DownloadInv, FlightInv
<1>7. Counters'
  <2>1. nSyncStarted \in Int /\ nPreferredDownload \in Int /\ nProtected \in Int
    BY CountersInt DEF DownloadInv
  <2>2. t.sync = nodes[p].sync /\ t.preferred = nodes[p].preferred /\ s.protect = nodes[p].protect
    BY <1>2, <1>3 DEF SameFlags
  <2>3. One(protects) = One(t.protect) - One(nodes[p].protect)
    <3>1. nodes[p].protect <=> s.protect BY <2>2
    <3>2. t.protect <=> (s.protect \/ protects) BY <1>3
    <3>3. CASE protects
      <4>1. t.protect /\ ~nodes[p].protect BY <1>b, <3>1, <3>2, <3>3
      <4> QED BY <3>3, <4>1, SMTT(30) DEF One
    <3>4. CASE ~protects
      <4>1. t.protect <=> nodes[p].protect BY <3>1, <3>2, <3>4
      <4> QED BY <3>4, <4>1, SMTT(30) DEF One
    <3> QED BY <3>3, <3>4
  <2>4. /\ nSyncStarted' = nSyncStarted + One(t.sync) - One(nodes[p].sync)
        /\ nPreferredDownload' = nPreferredDownload + One(t.preferred) - One(nodes[p].preferred)
    BY <2>1, <2>2, SMTT(30) DEF One
  <2>5. nProtected' = nProtected + One(t.protect) - One(nodes[p].protect)
    BY <1>1, <2>1, <2>3 DEF One
  <2>6. connected' = connected OBVIOUS
  <2> QED BY <1>1, <2>4, <2>5, <2>6, CountersPeer DEF DownloadInv
<1> QED BY <1>4, <1>5, <1>6, <1>7 DEF DownloadInv

\* A block whose parent is known may be added to the block index.
LEMMA KnownPath ==
    ASSUME ChainInv, NEW b \in Blocks, Parent[b] \in headers
    PROVE  \A x \in headers \cup {b} : Path[x] \subseteq headers \cup {b}
<1>1. Path[b] \subseteq headers \cup {b}
  <2>1. CASE b = Genesis BY <2>1, TreeAssumption
  <2>2. CASE b # Genesis BY <2>2, TreeAssumption DEF ChainInv
  <2> QED BY <2>1, <2>2
<1> QED BY <1>1 DEF ChainInv

\* Headers that connect.
LEMMA HeadersStep ==
    ASSUME DownloadInv, NEW p \in Peers, NEW b \in Blocks, Headers(p, b)
    PROVE  DownloadInv'
<1> DEFINE known == headers \cup Path[b]
<1>1. /\ p \in connected /\ ProcessHeaders(p, b, known)
      /\ UNCHANGED <<have, tip, connected, nSyncStarted, nPreferredDownload>>
  BY DEF Headers, Live
<1>2. known \in SUBSET Blocks /\ headers \subseteq known /\ Path[b] \subseteq known
  BY PathAssumption DEF DownloadInv, ChainInv
<1>3. \A x \in known : Path[x] \subseteq known
  BY PathAssumption DEF DownloadInv, ChainInv
<1> HIDE DEF known
<1> QED BY <1>1, <1>2, <1>3, ProcessHeadersStep

\* A message step of a connected peer that gives it a state with the same flags and stores at
\* most b.
LEMMA MessageStep ==
    ASSUME DownloadInv, NEW p \in connected, NEW b \in Blocks, NEW t, StateOK(t, headers'),
           SameFlags(nodes[p], t), nodes' = [nodes EXCEPT ![p] = t],
           UNCHANGED <<connected, nSyncStarted, nPreferredDownload, nProtected>>,
           ChainInv', headers \subseteq headers', have \subseteq have', have' \subseteq have \cup {b},
           FlightOK(flight'), \A q \in Peers \ {p} : flight'.queue[q] \subseteq flight.queue[q],
           \A x \in Blocks \ {b} : flight'.from[x] = flight.from[x],
           flight'.from[b] # NoPeer => b \in headers' \ have'
    PROVE  DownloadInv'
<1>1. connected' = connected OBVIOUS
<1>2. NodesInv' BY <1>1, NodesStep DEF DownloadInv
<1>3. Counters' BY CountersFlags DEF DownloadInv
<1>4. FlightInv'
  <2>1. \A q \in Peers \ connected : flight'.queue[q] = {}
    BY DEF DownloadInv, FlightInv
  <2>2. \A x \in Blocks : flight'.from[x] # NoPeer => x \in headers' \ have'
    BY DEF DownloadInv, FlightInv
  <2> QED BY <1>1, <2>1, <2>2 DEF FlightInv
<1> QED BY <1>2, <1>3, <1>4 DEF DownloadInv

\* A compact block, in each of its outcomes.
LEMMA CmpctBlockStep ==
    ASSUME DownloadInv, NEW p \in Peers, NEW b \in Blocks, NEW outcome, CmpctBlock(p, b, outcome)
    PROVE  DownloadInv'
<1> DEFINE known == headers \cup {b}
           s == UpdateBlockAvailability(nodes[p], b, known)
           from == flight.from[b]
           useless == \/ b \in have
                      \/ Height(b) <= Height(tip)
                      \/ from = NoPeer /\ ~CanDirectFetch
           near == Height(b) <= Height(tip) + CompactDepth
           mine == (from = NoPeer /\ flight.count[p] < MaxInTransit) \/ from = p
           marked == [MarkBlockAsInFlight(flight, p, b) EXCEPT !.partial = @ \cup {b}]
           Ignored == /\ headers' = known /\ nodes' = [nodes EXCEPT ![p] = s]
                      /\ UNCHANGED <<have, tip, closing, flight, nProtected>>
           Taken == /\ ~useless /\ mine
                    /\ nodes' = [nodes EXCEPT ![p] = s]
                    /\ UNCHANGED nProtected
                    /\ flight' = IF outcome = "pending" THEN marked
                                 ELSE MarkBlockAsReceived(marked, b)
                    /\ IF outcome = "complete" THEN ProcessNewBlock(b, TRUE)
                       ELSE headers' = known /\ UNCHANGED <<have, tip>>
           Stored == /\ nodes' = [nodes EXCEPT ![p] = s]
                     /\ ProcessNewBlock(b, TRUE)
                     /\ flight' = MarkBlockAsReceived(flight, b)
                     /\ UNCHANGED nProtected
           AsHeader == ProcessHeaders(p, b, known) /\ UNCHANGED <<have, tip>>
<1>1. /\ p \in connected /\ Parent[b] \in headers
      /\ UNCHANGED <<connected, nSyncStarted, nPreferredDownload>>
      /\ Ignored \/ Taken \/ Stored \/ AsHeader
  BY DEF CmpctBlock, Live
<1>2. known \in SUBSET Blocks /\ headers \subseteq known /\ \A x \in known : Path[x] \subseteq known
  BY <1>1, KnownPath DEF DownloadInv, ChainInv
<1>3. StateOK(s, known) /\ SameFlags(nodes[p], s)
  <2>1. StateOK(nodes[p], headers) BY DEF DownloadInv, NodesInv
  <2>2. StateOK(nodes[p], known) BY <2>1 DEF StateOK
  <2> HIDE DEF known
  <2> QED BY <1>2, <2>2, UpdateAvailabilityOK
<1>4. FlightOK(flight) /\ ChainInv BY DEF DownloadInv, FlightInv
<1>5. ASSUME ProcessNewBlock(b, TRUE) PROVE headers' = known
  BY <1>1, <1>5 DEF ProcessNewBlock
<1>6. ASSUME headers' = known, have' = have, tip' = tip PROVE ChainInv'
  BY <1>2, <1>6 DEF DownloadInv, ChainInv
<1>7. b \in known OBVIOUS
<1> HIDE DEF s, known
<1>8. CASE Ignored
  <2>1. /\ headers' = known /\ have' = have /\ tip' = tip /\ flight' = flight
        /\ nodes' = [nodes EXCEPT ![p] = s] /\ UNCHANGED nProtected
    BY <1>8
  <2>2. ChainInv' BY <1>6, <2>1
  <2>3. flight'.from[b] # NoPeer => b \in headers' \ have'
    BY <1>2, <2>1 DEF DownloadInv, FlightInv
  <2> QED BY <1>1, <1>2, <1>3, <1>4, <2>1, <2>2, <2>3, MessageStep
<1>9. CASE Taken
  <2>1. /\ FlightOK(marked)
        /\ \A q \in Peers \ {p} : marked.queue[q] = flight.queue[q]
        /\ \A x \in Blocks \ {b} : marked.from[x] = flight.from[x]
    BY <1>4, <1>9, MarkedOK
  <2>2. b \notin have BY <1>9
  <2> HIDE DEF marked
  <2>3. /\ ChainInv' /\ headers' = known /\ have \subseteq have' /\ have' \subseteq have \cup {b}
    BY <1>4, <1>5, <1>6, <1>9, ProcessNewBlockOK
  <2>4. CASE outcome = "pending"
    <3>1. flight' = marked /\ have' = have BY <1>9, <2>4
    <3>2. flight'.from[b] # NoPeer => b \in headers' \ have' BY <1>7, <2>2, <2>3, <3>1
    <3> QED BY <1>1, <1>2, <1>3, <1>9, <2>1, <2>3, <3>1, <3>2, MessageStep
  <2>5. CASE outcome # "pending"
    <3>1. flight' = MarkBlockAsReceived(marked, b) BY <1>9, <2>5
    <3>2. /\ FlightOK(flight') /\ flight'.from[b] = NoPeer
          /\ \A x \in Blocks \ {b} : flight'.from[x] = flight.from[x]
          /\ \A q \in Peers \ {p} : flight'.queue[q] \subseteq flight.queue[q]
      BY <2>1, <3>1, ReceivedOK, SMTT(30)
    <3> QED BY <1>1, <1>2, <1>3, <1>9, <2>3, <3>2, MessageStep
  <2> QED BY <2>4, <2>5
<1>10. CASE Stored
  <2>1. /\ ChainInv' /\ headers' = known /\ have \subseteq have' /\ have' \subseteq have \cup {b}
    BY <1>4, <1>5, <1>10, ProcessNewBlockOK
  <2>2. /\ FlightOK(flight') /\ flight'.from[b] = NoPeer
        /\ \A x \in Blocks \ {b} : flight'.from[x] = flight.from[x]
        /\ \A q \in Peers \ {p} : flight'.queue[q] \subseteq flight.queue[q]
    BY <1>4, <1>10, ReceivedOK, SMTT(30)
  <2> QED BY <1>1, <1>2, <1>3, <1>10, <2>1, <2>2, MessageStep
<1>11. CASE AsHeader
  <2>1. Path[b] \subseteq known BY <1>2, <1>7
  <2> QED BY <1>1, <1>2, <1>11, <2>1, ProcessHeadersStep
<1> QED BY <1>1, <1>8, <1>9, <1>10, <1>11

\* The transactions of a compact block in flight.
LEMMA BlockTxnStep ==
    ASSUME DownloadInv, NEW p \in Peers, NEW b \in Blocks, NEW outcome, BlockTxn(p, b, outcome)
    PROVE  DownloadInv'
<1>1. /\ p \in connected /\ flight.from[b] = p
      /\ UNCHANGED <<nodes, connected, nSyncStarted, nPreferredDownload, nProtected>>
  BY DEF BlockTxn, Live
<1>2. FlightOK(flight) /\ ChainInv /\ StateOK(nodes[p], headers)
  BY DEF DownloadInv, FlightInv, NodesInv
<1>3. nodes' = [nodes EXCEPT ![p] = nodes[p]] /\ SameFlags(nodes[p], nodes[p])
  BY <1>1 DEF DownloadInv, NodesInv, SameFlags
<1>4. /\ ChainInv' /\ headers \subseteq headers' /\ have \subseteq have'
      /\ have' \subseteq have \cup {b}
  <2>1. CASE outcome = "complete"
    <3>1. ProcessNewBlock(b, TRUE) BY <2>1 DEF BlockTxn
    <3> QED BY <1>2, <3>1, ProcessNewBlockOK
  <2>2. CASE outcome # "complete" BY <1>2, <2>2 DEF BlockTxn, ChainInv
  <2> QED BY <2>1, <2>2
<1>5. StateOK(nodes[p], headers') BY <1>2, <1>4 DEF StateOK
<1>6. CASE outcome = "pending"
  <2>1. flight' = flight /\ have' = have BY <1>6 DEF BlockTxn
  <2>2. flight'.from[b] # NoPeer => b \in headers' \ have'
    BY <1>4, <2>1 DEF DownloadInv, FlightInv
  <2> QED BY <1>1, <1>2, <1>3, <1>4, <1>5, <2>1, <2>2, MessageStep
<1>7. CASE outcome # "pending"
  <2>1. flight' = MarkBlockAsReceived(flight, b) BY <1>7 DEF BlockTxn
  <2>2. /\ FlightOK(flight') /\ flight'.from[b] = NoPeer
        /\ \A x \in Blocks \ {b} : flight'.from[x] = flight.from[x]
        /\ \A q \in Peers \ {p} : flight'.queue[q] \subseteq flight.queue[q]
    BY <1>2, <2>1, ReceivedOK, SMTT(30)
  <2> QED BY <1>1, <1>3, <1>4, <1>5, <2>2, MessageStep
<1> QED BY <1>6, <1>7

\* The start of the headers sync and its timer change only fSyncStarted.
LEMMA SyncTimers ==
    ASSUME NEW p, NEW expired, StateOK(nodes[p], headers)
    PROVE  LET s == Started(p)
               t == HeadersTimer(p, expired, Started(p)) IN
           /\ StateOK(s, headers) /\ StateOK(t, headers)
           /\ s.preferred = nodes[p].preferred /\ t.preferred = nodes[p].preferred
           /\ s.protect = nodes[p].protect /\ t.protect = nodes[p].protect
           /\ s.sync <=> nodes[p].sync \/ StartsSync(p)
           /\ StartsSync(p) => ~nodes[p].sync
           /\ t.sync <=> s.sync /\ ~HeadersLate(p, expired)
           /\ HeadersLate(p, expired) => s.sync
<1> DEFINE s == Started(p)
           t == HeadersTimer(p, expired, s)
<1>1. StartsSync(p) => ~nodes[p].sync BY DEF StartsSync
<1>2. /\ StateOK(s, headers) /\ s.preferred = nodes[p].preferred /\ s.protect = nodes[p].protect
      /\ s.sync <=> nodes[p].sync \/ StartsSync(p)
  BY DEF Started, StateOK, NodeStates
<1>3. HeadersLate(p, expired) => s.sync BY DEF HeadersLate
<1> HIDE DEF s
<1>4. /\ StateOK(t, headers) /\ t.preferred = s.preferred /\ t.protect = s.protect
      /\ t.sync <=> s.sync /\ ~HeadersLate(p, expired)
  <2>1. CASE HeadersLate(p, expired)
    <3>1. t = [s EXCEPT !.sync = FALSE, !.armed = FALSE] BY <2>1 DEF HeadersTimer
    <3> HIDE DEF t
    <3> QED BY <1>2, <2>1, <3>1 DEF StateOK, NodeStates
  <2>2. CASE ~HeadersLate(p, expired)
    <3>1. t = [s EXCEPT !.armed = FALSE] \/ t = s BY <2>2 DEF HeadersTimer
    <3> HIDE DEF t
    <3> QED BY <1>2, <2>2, <3>1 DEF StateOK, NodeStates
  <2> QED BY <2>1, <2>2
<1> HIDE DEF t
<1> QED BY <1>1, <1>2, <1>3, <1>4 DEF s, t

\* ConsiderEviction changes only its own fields.
LEMMA EvictionOK ==
    ASSUME NEW p, NEW expired, NEW s, StateOK(s, headers), tip \in Blocks
    PROVE  /\ StateOK(ConsiderEviction(p, expired, s), headers)
           /\ SameFlags(s, ConsiderEviction(p, expired, s))
<1>1. (s.asked \/ Overdue(p, expired, s)) \in BOOLEAN OBVIOUS
<1> QED BY <1>1 DEF ConsiderEviction, StateOK, NodeStates, SameFlags

\* The getdata part of SendMessages: new requests are for missing blocks, and a peer marked as
\* stalling holds one.
LEMMA FetchOK ==
    ASSUME DownloadInv, NEW p \in connected, NEW s, StateOK(s, headers), Fetch(p, s)
    PROVE  /\ \E t : nodes' = [nodes EXCEPT ![p] = t] /\ StateOK(t, headers) /\ SameFlags(s, t)
           /\ FlightOK(flight')
           /\ \A q \in Peers \ {p} : flight'.queue[q] = flight.queue[q]
           /\ \A b \in Blocks : flight'.from[b] # NoPeer => b \in headers \ have
<1>p. p \in Peers BY DEF DownloadInv, NodesInv
<1>f. FlightOK(flight) BY DEF DownloadInv, FlightInv
<1>1. CASE nodes' = [nodes EXCEPT ![p] = s] /\ UNCHANGED flight
  <2>1. \A b \in Blocks : flight'.from[b] # NoPeer => b \in headers \ have
    BY <1>1 DEF DownloadInv, FlightInv
  <2>2. SameFlags(s, s) BY DEF SameFlags
  <2> QED BY <1>1, <1>f, <2>1, <2>2
<1>2. CASE ~(nodes' = [nodes EXCEPT ![p] = s] /\ UNCHANGED flight)
  <2> DEFINE t == ProcessBlockAvailability(s, headers)
             found == FindNextBlocksToDownload(flight, p, t, MaxInTransit - flight.count[p])
             stallers == IF flight.count[p] = 0 /\ found.vBlocks = {} THEN {found.staller} \ {NoPeer}
                         ELSE {}
             u == [t EXCEPT !.common = found.common]
  <2>1. /\ nodes' = [nodes EXCEPT ![p] = u]
        /\ flight' = [MarkAllInFlight(flight, p, found.vBlocks) EXCEPT !.stalling = @ \cup stallers]
    BY <1>2 DEF Fetch
  <2>2. StateOK(t, headers) /\ SameFlags(s, t) BY AvailabilityOK DEF DownloadInv, ChainInv
  <2> HIDE DEF t
  <2>3. /\ found.vBlocks = {} \/ (t.best \in headers /\ found.vBlocks \subseteq Path[t.best] \ have)
        /\ \A b \in found.vBlocks : flight.from[b] = NoPeer
        /\ found.staller # NoPeer => found.staller \in Peers /\ flight.queue[found.staller] # {}
        /\ found.common # NoBlock => found.common \in Blocks /\ HaveTxsDownloaded(found.common)
    BY <1>p, <1>f, <2>2, FindNextOK DEF DownloadInv, ChainInv
  <2> HIDE DEF found
  <2>4. StateOK(u, headers) /\ SameFlags(s, u)
    BY <2>2, <2>3 DEF StateOK, NodeStates, SameFlags
  <2>5. found.vBlocks \subseteq headers \ have /\ found.vBlocks \in SUBSET Blocks
    BY <2>3 DEF DownloadInv, ChainInv
  <2>6. stallers \in SUBSET Peers /\ \A q \in stallers : flight.queue[q] # {} BY <2>3
  <2> HIDE DEF u, stallers
  <2>7. /\ FlightOK(flight')
        /\ \A q \in Peers \ {p} : flight'.queue[q] = flight.queue[q]
        /\ \A b \in Blocks : flight'.from[b] = IF b \in found.vBlocks THEN p ELSE flight.from[b]
    <3> DEFINE V == found.vBlocks
               m == MarkAllInFlight(flight, p, V)
    <3>1. V \in SUBSET Blocks /\ \A b \in V : flight.from[b] = NoPeer BY <2>3, <2>5
    <3>2. /\ m = MarkAllInFlight(flight, p, V)
          /\ flight' = Stalled(m, stallers)
      BY <2>1 DEF Stalled
    <3> HIDE DEF V, m
    <3>3. /\ FlightOK(flight')
          /\ \A q \in Peers \ {p} : flight'.queue[q] = flight.queue[q]
          /\ \A b \in Blocks : flight'.from[b] = IF b \in V THEN p ELSE flight.from[b]
      BY <1>p, <1>f, <2>6, <3>1, <3>2, RequestOK, SMTT(30)
    <3> QED BY <3>3 DEF V
  <2>8. \A b \in Blocks : flight.from[b] # NoPeer => b \in headers \ have
    BY DEF DownloadInv, FlightInv
  <2>9. \A b \in Blocks : flight'.from[b] # NoPeer => b \in headers \ have
    BY <2>5, <2>7, <2>8
  <2> QED BY <2>1, <2>4, <2>7, <2>9
<1> QED BY <1>1, <1>2

\* SendMessages, whatever timer expires.
LEMMA SendMessagesStep ==
    ASSUME DownloadInv, NEW p \in Peers, NEW expired, SendMessages(p, expired)
    PROVE  DownloadInv'
<1>1. /\ p \in connected
      /\ UNCHANGED <<headers, have, tip, connected, nPreferredDownload, nProtected>>
  BY DEF SendMessages, Live
<1>2. StateOK(nodes[p], headers) /\ tip \in Blocks BY DEF DownloadInv, NodesInv, ChainInv
<1>3. ChainInv' BY <1>1 DEF DownloadInv, ChainInv
<1>f. FlightInv BY DEF DownloadInv
<1>4. nSyncStarted \in Int /\ nPreferredDownload \in Int /\ nProtected \in Int
  BY CountersInt DEF DownloadInv
<1>5. ASSUME NEW t, nodes' = [nodes EXCEPT ![p] = t], StateOK(t, headers),
             t.preferred = nodes[p].preferred, t.protect = nodes[p].protect,
             nSyncStarted' = nSyncStarted + One(t.sync) - One(nodes[p].sync), FlightInv'
      PROVE  DownloadInv'
  <2>1. NodesInv'
    <3>1. StateOK(t, headers') BY <1>1, <1>5
    <3> QED BY <1>1, <1>5, <3>1, NodesStep DEF DownloadInv
  <2>2. /\ nPreferredDownload' = nPreferredDownload + One(t.preferred) - One(nodes[p].preferred)
        /\ nProtected' = nProtected + One(t.protect) - One(nodes[p].protect)
    BY <1>1, <1>4, <1>5, SMTT(30) DEF One
  <2>3. Counters' BY <1>1, <1>5, <2>2, CountersPeer DEF DownloadInv
  <2> QED BY <1>3, <1>5, <2>1, <2>3 DEF DownloadInv
<1> DEFINE s == Started(p)
           h == HeadersTimer(p, expired, s)
           e == ConsiderEviction(p, expired, h)
<1>6. /\ StateOK(s, headers) /\ StateOK(h, headers)
      /\ s.preferred = nodes[p].preferred /\ h.preferred = nodes[p].preferred
      /\ s.protect = nodes[p].protect /\ h.protect = nodes[p].protect
      /\ s.sync <=> nodes[p].sync \/ StartsSync(p)
      /\ StartsSync(p) => ~nodes[p].sync
      /\ h.sync <=> s.sync /\ ~HeadersLate(p, expired)
      /\ HeadersLate(p, expired) => s.sync
  BY <1>2, SyncTimers
<1>7. CASE TimedOut(p, expired)
  <2>1. /\ nodes' = [nodes EXCEPT ![p] = s] /\ flight' = flight
        /\ nSyncStarted' = nSyncStarted + One(StartsSync(p))
    BY <1>7 DEF SendMessages
  <2> HIDE DEF s
  <2>2. nSyncStarted' = nSyncStarted + One(s.sync) - One(nodes[p].sync)
    BY <1>4, <1>6, <2>1, SMTT(30) DEF One
  <2>3. FlightInv' BY <1>1, <1>f, <2>1 DEF FlightInv
  <2> QED BY <1>5, <1>6, <2>1, <2>2, <2>3
<1>8. CASE ~TimedOut(p, expired)
  <2>1. /\ Fetch(p, e)
        /\ nSyncStarted' = nSyncStarted + One(StartsSync(p)) - One(HeadersLate(p, expired))
    BY <1>8 DEF SendMessages
  <2> HIDE DEF s, h
  <2>2. StateOK(e, headers) /\ SameFlags(h, e) BY <1>2, <1>6, EvictionOK
  <2> HIDE DEF e
  <2>3. /\ \E t : nodes' = [nodes EXCEPT ![p] = t] /\ StateOK(t, headers) /\ SameFlags(e, t)
        /\ FlightOK(flight')
        /\ \A q \in Peers \ {p} : flight'.queue[q] = flight.queue[q]
        /\ \A b \in Blocks : flight'.from[b] # NoPeer => b \in headers \ have
    BY <1>1, <2>1, <2>2, FetchOK
  <2>4. PICK t : nodes' = [nodes EXCEPT ![p] = t] /\ StateOK(t, headers) /\ SameFlags(e, t)
    BY <2>3
  <2>5. /\ t.preferred = nodes[p].preferred /\ t.protect = nodes[p].protect
        /\ t.sync = h.sync
    BY <1>6, <2>2, <2>4 DEF SameFlags
  <2>6. nSyncStarted' = nSyncStarted + One(t.sync) - One(nodes[p].sync)
    BY <1>4, <1>6, <2>1, <2>5, SMTT(30) DEF One
  <2>7. FlightInv' BY <1>1, <2>3 DEF DownloadInv, FlightInv
  <2> QED BY <1>5, <2>4, <2>5, <2>6, <2>7
<1> QED BY <1>7, <1>8

\* Every step preserves the invariant.
LEMMA DownloadNext == DownloadInv /\ [Next]_vars => DownloadInv'
<1> SUFFICES ASSUME DownloadInv, [Next]_vars PROVE DownloadInv' OBVIOUS
<1>1. ASSUME NEW p \in Peers, InitializeNode(p) PROVE DownloadInv' BY <1>1, InitializeStep
<1>2. ASSUME NEW p \in Peers, FinalizeNode(p) PROVE DownloadInv' BY <1>2, FinalizeStep
<1>3. ASSUME NEW p \in Peers, Message(p) PROVE DownloadInv'
  <2> PICK b \in Blocks :
        \/ Announce(p, b)
        \/ Headers(p, b)
        \/ \E bad \in BOOLEAN : Block(p, b, bad)
        \/ \E outcome \in {"invalid", "pending", "complete"} :
               CmpctBlock(p, b, outcome) \/ BlockTxn(p, b, outcome)
    BY <1>3 DEF Message
  <2>1. CASE Announce(p, b) BY <2>1, AnnounceStep
  <2>2. CASE Headers(p, b) BY <2>2, HeadersStep
  <2>3. CASE \E bad \in BOOLEAN : Block(p, b, bad) BY <2>3, BlockStep
  <2>4. CASE \E outcome \in {"invalid", "pending", "complete"} : CmpctBlock(p, b, outcome)
    BY <2>4, CmpctBlockStep
  <2>5. CASE \E outcome \in {"invalid", "pending", "complete"} : BlockTxn(p, b, outcome)
    BY <2>5, BlockTxnStep
  <2> QED BY <2>1, <2>2, <2>3, <2>4, <2>5
<1>4. ASSUME NEW p \in Peers, NEW expired \in Timers, SendMessages(p, expired) PROVE DownloadInv'
  BY <1>4, SendMessagesStep
<1>5. CASE UNCHANGED vars
  BY <1>5 DEF vars, DownloadInv, ChainInv, NodesInv, FlightInv, Counters, StateOK,
              HaveTxsDownloaded, NewState
<1> QED BY <1>1, <1>2, <1>3, <1>4, <1>5 DEF Next

\* The invariant holds in every state.
LEMMA DownloadAlways == Spec => []DownloadInv
BY DownloadInit, DownloadNext, PTL DEF Spec

\* For any peers, block tree and bounds: mapBlocksInFlight, the peers' queues and every global
\* counter agree at every point, so the assertions of MarkBlockAsReceived and FinalizeNode
\* hold.
THEOREM DownloadExact == Spec => []InFlightExact
BY DownloadAlways, InvImplies, PTL

\* For any peers, block tree and bounds: only blocks with a header and without data are in
\* flight.
THEOREM OnlyMissingRequested == Spec => []RequestsUseful
BY DownloadAlways, InvImplies, PTL

\* For any peers, block tree and bounds: a peer marked as stalling owes a block.
THEOREM StallersOwe == Spec => []StallersHold
BY DownloadAlways, InvImplies, PTL

\* For any peers, block tree and bounds: everything below pindexLastCommonBlock of a connected
\* peer is downloaded, so the download window skips no block.
THEOREM WindowStartsDownloaded == Spec => []CommonDownloaded
BY DownloadAlways, InvImplies, PTL
=============================================================================
