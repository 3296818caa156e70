-------------------------- MODULE CheckQueueProofs --------------------------
(***************************************************************************)
(* Proof that CheckQueue's Wait returns the right result, for any number   *)
(* of workers and checks and any batch size.  The idea: the checks of the  *)
(* queue and of the batches form disjoint sets, and nTodo is the size of   *)
(* their union, so that nTodo = 0 means that no worker holds a check.      *)
(***************************************************************************)
EXTENDS CheckQueue, FiniteSetTheorems, TLAPS

\* The prover of a step that names no other.
USE ZenonT(120)

-----------------------------------------------------------------------------
(* Sequences of distinct checks.                                           *)

\* A sequence of distinct elements has as many elements as positions.
LEMMA DistinctLen ==
    ASSUME NEW S, NEW s \in Seq(S), IsInjective(s)
    PROVE  /\ ToSet(s) \in SUBSET S
           /\ IsFiniteSet(ToSet(s))
           /\ Cardinality(ToSet(s)) = Len(s)
<1>1. Len(s) \in Nat /\ DOMAIN s = 1..Len(s) /\ ToSet(s) \in SUBSET S BY SMTT(30) DEF ToSet
<1>2. s \in [1..Len(s) -> ToSet(s)] BY <1>1, SMTT(30) DEF ToSet
<1>3. s \in Bijection(1..Len(s), ToSet(s))
  <2>1. \A x \in ToSet(s) : \E i \in 1..Len(s) : s[i] = x BY <1>1 DEF ToSet
  <2> QED BY <1>1, <1>2, <2>1 DEF Bijection, Injection, Surjection, IsInjective
<1>4. IsFiniteSet(1..Len(s)) /\ Cardinality(1..Len(s)) = Len(s)
  <2>1. 1 \in Int /\ Len(s) \in Int BY <1>1, SMTT(30)
  <2>2. /\ IsFiniteSet(1..Len(s))
        /\ Cardinality(1..Len(s)) = IF 1 > Len(s) THEN 0 ELSE Len(s) - 1 + 1
    BY <2>1, FS_Interval
  <2> QED BY <1>1, <2>2, SMTT(30)
<1> QED BY <1>1, <1>3, <1>4, FS_Bijection DEF ExistsBijection

\* An empty sequence, and only that, has no elements.
LEMMA NoElements ==
    ASSUME NEW S, NEW s \in Seq(S)
    PROVE  s = <<>> <=> ToSet(s) = {}
<1>1. s # <<>> => ToSet(s) # {}
  <2>1. s # <<>> => 1 \in DOMAIN s BY SMTT(30)
  <2> QED BY <2>1 DEF ToSet
<1>2. s = <<>> => ToSet(s) = {}
  <2>1. s = <<>> => DOMAIN s = {} BY SMTT(30)
  <2> QED BY <2>1 DEF ToSet
<1> QED BY <1>1, <1>2

\* What is left of the queue q, and the batch, when n elements are taken at the back.
LEMMA Slices ==
    ASSUME NEW S, NEW q \in Seq(S), NEW n \in 1..Len(q)
    PROVE  LET r == SubSeq(q, 1, Len(q) - n)
               b == Reverse(SubSeq(q, Len(q) - n + 1, Len(q)))
           IN  /\ r \in Seq(S) /\ Len(r) = Len(q) - n
               /\ b \in Seq(S) /\ Len(b) = n
               /\ \A i \in 1..(Len(q) - n) : r[i] = q[i]
               /\ \A i \in 1..n : b[i] = q[(Len(q) - i) + 1]
<1> DEFINE r == SubSeq(q, 1, Len(q) - n)
           e == SubSeq(q, Len(q) - n + 1, Len(q))
           b == Reverse(e)
<1>1. Len(q) \in Nat /\ n \in Nat /\ Len(q) - n \in Nat BY SMTT(30)
<1>2. r \in Seq(S) /\ Len(r) = Len(q) - n BY <1>1, SMTT(30)
<1>3. \A i \in 1..(Len(q) - n) : r[i] = q[i] BY <1>1, SMTT(30)
<1>4. e \in Seq(S) /\ Len(e) = n BY <1>1, SMTT(30)
<1>5. \A i \in 1..n : e[i] = q[(Len(q) - n) + i] BY <1>1, SMTT(30)
<1> HIDE DEF e, r
<1>6. b = [i \in 1..n |-> e[(n - i) + 1]] BY <1>4 DEF Reverse
<1> HIDE DEF b
<1>7. \A i \in 1..n : (n - i) + 1 \in 1..n BY <1>1, SMTT(30)
<1>8. \A i \in 1..n : e[(n - i) + 1] \in S BY <1>4, <1>7, SMTT(30)
<1>9. b \in Seq(S) /\ Len(b) = n BY <1>1, <1>6, <1>8, SMTT(30)
<1>10. ASSUME NEW i \in 1..n PROVE b[i] = q[(Len(q) - i) + 1]
  <2>1. (Len(q) - n) + ((n - i) + 1) = (Len(q) - i) + 1 BY <1>1, SMTT(30)
  <2> QED BY <1>5, <1>6, <1>7, <2>1
<1> QED BY <1>2, <1>3, <1>9, <1>10 DEF b, e, r

\* They share the elements of q between them.
LEMMA SplitQueue ==
    ASSUME NEW S, NEW q \in Seq(S), IsInjective(q), NEW n \in 1..Len(q)
    PROVE  LET r == SubSeq(q, 1, Len(q) - n)
               b == Reverse(SubSeq(q, Len(q) - n + 1, Len(q)))
           IN  /\ r \in Seq(S) /\ b \in Seq(S) /\ b # <<>>
               /\ IsInjective(r) /\ IsInjective(b)
               /\ ToSet(r) \cap ToSet(b) = {}
               /\ ToSet(r) \cup ToSet(b) = ToSet(q)
<1> DEFINE r == SubSeq(q, 1, Len(q) - n)
           b == Reverse(SubSeq(q, Len(q) - n + 1, Len(q)))
           k == Len(q) - n
           back(i) == (Len(q) - i) + 1
<1>1. /\ r \in Seq(S) /\ Len(r) = k /\ b \in Seq(S) /\ Len(b) = n
      /\ \A i \in 1..k : r[i] = q[i]
      /\ \A i \in 1..n : b[i] = q[back(i)]
  BY Slices
<1>2. k \in Nat /\ n \in Nat \ {0} /\ Len(q) = k + n BY SMTT(30)
<1> HIDE DEF r, b, k
<1>3. \A i \in 1..n : back(i) \in 1..(k + n) BY <1>2, SMTT(30)
<1>4. \A i \in 1..k : i \in 1..(k + n) BY <1>2, SMTT(30)
<1>5. \A i \in 1..k, j \in 1..n : i # back(j) BY <1>2, SMTT(30)
<1>6. \A i, j \in 1..n : back(i) = back(j) => i = j BY <1>2, SMTT(30)
<1>7. \A i \in 1..(k + n) : i \in 1..k \/ (back(i) \in 1..n /\ back(back(i)) = i) BY <1>2, SMTT(30)
<1>8. DOMAIN q = 1..(k + n) /\ DOMAIN r = 1..k /\ DOMAIN b = 1..n BY <1>1, <1>2, SMTT(30)
<1>9. \A i, j \in 1..(k + n) : q[i] = q[j] => i = j BY <1>8 DEF IsInjective
<1>10. b # <<>> BY <1>1, <1>2
<1> HIDE DEF back
<1>11. IsInjective(r) BY <1>1, <1>4, <1>8, <1>9, SMTT(30) DEF IsInjective
<1>12. IsInjective(b) BY <1>1, <1>3, <1>6, <1>8, <1>9, SMTT(30) DEF IsInjective
<1>13. \A i \in 1..k, j \in 1..n : r[i] # b[j] BY <1>1, <1>3, <1>4, <1>5, <1>9, SMTT(30)
<1>14. ToSet(r) \cap ToSet(b) = {} BY <1>8, <1>13 DEF ToSet
<1>15. \A i \in 1..k : r[i] \in ToSet(q) BY <1>1, <1>4, <1>8 DEF ToSet
<1>16. \A i \in 1..n : b[i] \in ToSet(q) BY <1>1, <1>3, <1>8 DEF ToSet
<1>17. ASSUME NEW i \in 1..(k + n) PROVE q[i] \in ToSet(r) \cup ToSet(b)
  <2>1. CASE i \in 1..k
    <3>1. r[i] \in ToSet(r) BY <1>8, <2>1 DEF ToSet
    <3> QED BY <1>1, <2>1, <3>1
  <2>2. CASE back(i) \in 1..n /\ back(back(i)) = i
    <3>1. b[back(i)] \in ToSet(b) BY <1>8, <2>2 DEF ToSet
    <3> QED BY <1>1, <2>2, <3>1
  <2> QED BY <1>7, <2>1, <2>2
<1>18. ToSet(r) \cup ToSet(b) = ToSet(q) BY <1>8, <1>15, <1>16, <1>17 DEF ToSet
<1> QED BY <1>1, <1>10, <1>11, <1>12, <1>14, <1>18 DEF r, b

\* Adding a list of new distinct elements at the back.
LEMMA AppendDistinct ==
    ASSUME NEW S, NEW q \in Seq(S), IsInjective(q), NEW s \in Seq(S), IsInjective(s),
           ToSet(q) \cap ToSet(s) = {}
    PROVE  /\ q \o s \in Seq(S) /\ IsInjective(q \o s)
           /\ ToSet(q \o s) = ToSet(q) \cup ToSet(s)
<1> DEFINE r == q \o s
           m == Len(q)
           n == Len(s)
<1>1. /\ r \in Seq(S) /\ Len(r) = m + n /\ m \in Nat /\ n \in Nat
      /\ \A i \in 1..m : r[i] = q[i]
      /\ \A i \in 1..(m + n) : i > m => r[i] = s[i - m]
  BY SMTT(30)
<1>2. DOMAIN r = 1..(m + n) /\ DOMAIN q = 1..m /\ DOMAIN s = 1..n BY <1>1, SMTT(30)
<1> HIDE DEF r, m, n
<1>3. \A i \in 1..(m + n) : i \in 1..m \/ (i > m /\ i - m \in 1..n) BY <1>1, SMTT(30)
<1>4. \A i \in 1..m : q[i] \in ToSet(q) BY <1>2 DEF ToSet
<1>5. \A i \in 1..n : s[i] \in ToSet(s) BY <1>2 DEF ToSet
<1>6. \A i, j \in 1..m : q[i] = q[j] => i = j BY <1>2 DEF IsInjective
<1>7. \A i, j \in 1..n : s[i] = s[j] => i = j BY <1>2 DEF IsInjective
<1>8. ASSUME NEW i \in 1..(m + n), NEW j \in 1..(m + n), r[i] = r[j] PROVE i = j
  <2>1. CASE i \in 1..m /\ j \in 1..m BY <1>1, <1>6, <1>8, <2>1
  <2>2. CASE i > m /\ i - m \in 1..n /\ j > m /\ j - m \in 1..n
    <3>1. s[i - m] = s[j - m] BY <1>1, <1>8, <2>2
    <3>2. i - m = j - m BY <1>7, <2>2, <3>1
    <3> QED BY <1>1, <3>2, SMTT(30)
  <2>3. CASE i \in 1..m /\ j > m /\ j - m \in 1..n
    <3>1. q[i] = s[j - m] BY <1>1, <1>8, <2>3
    <3> QED BY <1>4, <1>5, <2>3, <3>1
  <2>4. CASE j \in 1..m /\ i > m /\ i - m \in 1..n
    <3>1. q[j] = s[i - m] BY <1>1, <1>8, <2>4
    <3> QED BY <1>4, <1>5, <2>4, <3>1
  <2> QED BY <1>3, <2>1, <2>2, <2>3, <2>4
<1>9. IsInjective(r) BY <1>2, <1>8 DEF IsInjective
<1>10. ASSUME NEW i \in 1..(m + n) PROVE r[i] \in ToSet(q) \cup ToSet(s)
  BY <1>1, <1>3, <1>4, <1>5
<1>11. ASSUME NEW i \in 1..m PROVE q[i] \in ToSet(r)
  <2>1. i \in 1..(m + n) BY <1>1, SMTT(30)
  <2>2. r[i] \in ToSet(r) BY <1>2, <2>1 DEF ToSet
  <2> QED BY <1>1, <2>2
<1>12. ASSUME NEW i \in 1..n PROVE s[i] \in ToSet(r)
  <2>1. i + m \in 1..(m + n) /\ i + m > m /\ (i + m) - m = i BY <1>1, SMTT(30)
  <2>2. r[i + m] \in ToSet(r) BY <1>2, <2>1 DEF ToSet
  <2>3. r[i + m] = s[(i + m) - m] BY <1>1, <2>1
  <2> QED BY <2>1, <2>2, <2>3
<1>13. ToSet(r) = ToSet(q) \cup ToSet(s)
  <2>1. ToSet(r) \in SUBSET (ToSet(q) \cup ToSet(s)) BY <1>2, <1>10 DEF ToSet
  <2>2. ToSet(q) \in SUBSET ToSet(r) BY <1>2, <1>11 DEF ToSet
  <2>3. ToSet(s) \in SUBSET ToSet(r) BY <1>2, <1>12 DEF ToSet
  <2> QED BY <2>1, <2>2, <2>3
<1> QED BY <1>1, <1>9, <1>13 DEF r

\* A batch has at least one element, and no more than there are.
LEMMA BatchSize ==
    ASSUME NEW t, queue \in Seq(Checks), queue # <<>>, TotalNow(t) \in Nat, IdleNow(t) \in Nat
    PROVE  nNow(t) \in 1..Len(queue)
<1> DEFINE L == Len(queue)
           d == TotalNow(t) + IdleNow(t) + 1
           share == L \div d
<1>1. L \in Nat /\ L >= 1 /\ d \in Nat /\ d >= 1 BY SMTT(30)
<1>2. share \in Int /\ share <= L
  <2> HIDE DEF L, d
  <2> QED BY <1>1, SMTT(30)
<1>3. nBatchSize \in Nat /\ nBatchSize >= 1 BY CheckQueueAssumption, SMTT(30)
<1> HIDE DEF L, d, share
<1> QED BY <1>1, <1>2, <1>3, SMTT(30) DEF nNow, share, d, L

-----------------------------------------------------------------------------
(* The inductive invariant.                                                *)

\* The checks thread t holds; those that are not accounted for in nTodo yet.
Held(t) == ToSet(vChecks[t])
Unfinished == ToSet(queue) \cup UNION {Held(t) : t \in Threads}

\* The threads nIdle and nTotal count.
Idle == {t \in Threads : pc[t] \in {"waiting", "woken"}}
Inside == {t \in Threads : pc[t] \notin {"out", "enter"}}

\* Shapes; a thread holds a batch from the moment it takes it until it has reported.
ShapeInv ==
    /\ fAllOk \in BOOLEAN /\ fOk \in [Threads -> BOOLEAN]
    /\ pc \in [Threads -> {"out", "enter", "waiting", "woken", "working", "done"}]
    /\ control \in {"none", "adding", "waiting", "valid", "invalid"}
    /\ pc[Master] = "out" <=> control # "waiting"
    /\ added \in SUBSET Checks /\ executed \in SUBSET added
    /\ queue \in Seq(Checks) /\ IsInjective(queue)
    /\ vChecks \in [Threads -> Seq(Checks)]
    /\ \A t \in Threads : IsInjective(vChecks[t])
    /\ \A t \in Threads : vChecks[t] # <<>> <=> pc[t] \in {"working", "done"}

\* The counters.
CountInv ==
    /\ IsFiniteSet(Idle) /\ nIdle = Cardinality(Idle)
    /\ IsFiniteSet(Inside) /\ nTotal = Cardinality(Inside)
    /\ IsFiniteSet(Unfinished) /\ nTodo = Cardinality(Unfinished)

\* No check is in two places.
ApartInv ==
    /\ \A t \in Threads : ToSet(queue) \cap Held(t) = {}
    /\ \A t, u \in Threads : t # u => Held(t) \cap Held(u) = {}
    /\ Unfinished \in SUBSET added

\* What the flags say of the checks: fAllOk of those that are accounted for, a
\* thread's fOk of its batch; nothing is left of an earlier control.
FlagInv ==
    /\ control \in {"none", "valid", "invalid"} => Unfinished = {} /\ fAllOk
    /\ control = "none" => added = {}
    /\ control \in {"adding", "waiting"} =>
           IF fAllOk THEN \A c \in added \ Unfinished : c \notin Bad /\ c \in executed
           ELSE added \cap Bad # {}
    /\ \A t \in Threads :
           /\ pc[t] = "done" /\ fOk[t] => Held(t) \cap Bad = {} /\ Held(t) \subseteq executed
           /\ pc[t] \in {"working", "done"} /\ ~fOk[t] => added \cap Bad # {}
    /\ control = "valid" => added \cap Bad = {} /\ executed = added
    /\ control = "invalid" => added \cap Bad # {}

QueueInv == ShapeInv /\ CountInv /\ ApartInv /\ FlagInv
-----------------------------------------------------------------------------
(* The counters and flags after a thread has locked the mutex in Loop: a   *)
(* batch it has finished is accounted for.                                 *)

\* What is unfinished once t has reported.
Rest(t) == ToSet(queue) \cup UNION {Held(u) : u \in Threads \ {t}}

\* Taking t's batch out of Unfinished leaves Rest(t).
LEMMA RestIs ==
    ASSUME QueueInv, NEW t \in Threads
    PROVE  Rest(t) = Unfinished \ Held(t) /\ Held(t) \in SUBSET Unfinished
BY DEF QueueInv, ApartInv, Rest, Unfinished

\* A thread without a batch holds nothing.
LEMMA HeldIff ==
    ASSUME ShapeInv, NEW t \in Threads
    PROVE  Held(t) = {} <=> pc[t] \notin {"working", "done"}
<1>1. vChecks[t] \in Seq(Checks) BY DEF ShapeInv
<1>2. vChecks[t] = <<>> <=> Held(t) = {} BY <1>1, NoElements DEF Held
<1> QED BY <1>2 DEF ShapeInv

\* nTodo, nTotal and nIdle count the right sets.
LEMMA CountNow ==
    ASSUME QueueInv, NEW t \in Threads, LocksMutex(t)
    PROVE  /\ IsFiniteSet(Rest(t)) /\ TodoNow(t) = Cardinality(Rest(t))
           /\ IsFiniteSet(Inside \cup {t}) /\ TotalNow(t) = Cardinality(Inside \cup {t})
           /\ IsFiniteSet(Idle \ {t}) /\ IdleNow(t) = Cardinality(Idle \ {t})
           /\ TotalNow(t) \in Nat /\ IdleNow(t) \in Nat
<1>1. IsFiniteSet(Rest(t)) /\ TodoNow(t) = Cardinality(Rest(t))
  <2>1. vChecks[t] \in Seq(Checks) /\ IsInjective(vChecks[t]) BY DEF QueueInv, ShapeInv
  <2>2. IsFiniteSet(Held(t)) /\ Cardinality(Held(t)) = Len(vChecks[t])
    BY <2>1, DistinctLen DEF Held
  <2>3. IsFiniteSet(Unfinished) /\ nTodo = Cardinality(Unfinished) BY DEF QueueInv, CountInv
  <2>4. IsFiniteSet(Rest(t)) BY <2>3, RestIs, FS_Subset
  <2>5. Rest(t) \cup Held(t) = Unfinished /\ Rest(t) \cap Held(t) = {} BY RestIs
  <2>6. Cardinality(Unfinished) = Cardinality(Rest(t)) + Cardinality(Held(t)) - Cardinality({})
    BY <2>2, <2>4, <2>5, FS_Union, SMTT(30)
  <2>7. /\ Cardinality({}) = 0 /\ Cardinality(Rest(t)) \in Nat /\ Cardinality(Held(t)) \in Nat
    BY <2>2, <2>4, FS_EmptySet, FS_CardinalityType
  <2>8. CASE pc[t] = "done" BY <2>2, <2>3, <2>4, <2>6, <2>7, <2>8, SMTT(30) DEF TodoNow
  <2>9. CASE pc[t] # "done"
    <3>1. Held(t) = {} BY <2>9, HeldIff DEF LocksMutex, QueueInv
    <3> QED BY <2>3, <2>5, <2>9, <3>1 DEF TodoNow
  <2> QED BY <2>8, <2>9
<1>2. IsFiniteSet(Inside \cup {t}) /\ TotalNow(t) = Cardinality(Inside \cup {t})
  <2>1. IsFiniteSet(Inside) /\ nTotal = Cardinality(Inside) BY DEF QueueInv, CountInv
  <2>2. t \in Inside <=> pc[t] # "enter" BY DEF Inside, LocksMutex
  <2>3. /\ IsFiniteSet(Inside \cup {t})
        /\ Cardinality(Inside \cup {t}) = IF t \in Inside THEN nTotal ELSE nTotal + 1
    BY <2>1, FS_AddElement
  <2> QED BY <2>2, <2>3 DEF TotalNow
<1>3. IsFiniteSet(Idle \ {t}) /\ IdleNow(t) = Cardinality(Idle \ {t})
  <2>1. IsFiniteSet(Idle) /\ nIdle = Cardinality(Idle) BY DEF QueueInv, CountInv
  <2>2. t \in Idle <=> pc[t] = "woken" BY DEF Idle, LocksMutex
  <2>3. /\ IsFiniteSet(Idle \ {t})
        /\ Cardinality(Idle \ {t}) = IF t \in Idle THEN nIdle - 1 ELSE nIdle
    BY <2>1, FS_RemoveElement
  <2> QED BY <2>2, <2>3 DEF IdleNow
<1> QED BY <1>1, <1>2, <1>3, FS_CardinalityType

\* fAllOk, updated, speaks of all checks but those of Rest(t).
LEMMA FlagNow ==
    ASSUME QueueInv, NEW t \in Threads, LocksMutex(t)
    PROVE  /\ AllOkNow(t) \in BOOLEAN
           /\ control \notin {"adding", "waiting"} => AllOkNow(t) /\ Rest(t) = {}
           /\ control \in {"adding", "waiting"} =>
                 IF AllOkNow(t) THEN \A c \in added \ Rest(t) : c \notin Bad /\ c \in executed
                 ELSE added \cap Bad # {}
<1>1. fAllOk \in BOOLEAN /\ fOk[t] \in BOOLEAN BY DEF QueueInv, ShapeInv
<1>2. Rest(t) = Unfinished \ Held(t) /\ Held(t) \subseteq Unfinished BY RestIs
<1>3. Held(t) = {} <=> pc[t] # "done" BY HeldIff DEF LocksMutex, QueueInv
<1>4. CASE control \notin {"adding", "waiting"}
  <2>1. Unfinished = {} /\ fAllOk BY <1>4 DEF QueueInv, FlagInv, ShapeInv
  <2> QED BY <1>2, <1>3, <1>4, <2>1 DEF AllOkNow
<1>5. CASE control \in {"adding", "waiting"}
  <2>1. IF fAllOk THEN \A c \in added \ Unfinished : c \notin Bad /\ c \in executed
        ELSE added \cap Bad # {}
    BY <1>5 DEF QueueInv, FlagInv
  <2>2. CASE pc[t] # "done" BY <1>1, <1>2, <1>3, <1>5, <2>1, <2>2 DEF AllOkNow
  <2>3. CASE pc[t] = "done"
    <3>1. fOk[t] => Held(t) \cap Bad = {} /\ Held(t) \subseteq executed
      BY <2>3 DEF QueueInv, FlagInv
    <3>2. ~fOk[t] => added \cap Bad # {} BY <2>3 DEF QueueInv, FlagInv
    <3>3. AllOkNow(t) <=> fAllOk /\ fOk[t] BY <2>3 DEF AllOkNow
    <3>4. AllOkNow(t) \in BOOLEAN BY <1>1, <2>3 DEF AllOkNow
    <3> QED BY <1>2, <1>5, <2>1, <3>1, <3>2, <3>3, <3>4
  <2> QED BY <2>2, <2>3
<1> QED BY <1>4, <1>5

\* pc after t has gone on to x, with the master perhaps notified.
LEMMA PcStep ==
    ASSUME ShapeInv, NEW t \in Threads, NEW x \in {"waiting", "working"},
           pc' = Notified(t, [pc EXCEPT ![t] = x])
    PROVE  /\ pc' \in [Threads -> {"out", "enter", "waiting", "woken", "working", "done"}]
           /\ pc'[t] = x
           /\ \A u \in Threads \ {t} : pc'[u] = pc[u] \/ (pc[u] = "waiting" /\ pc'[u] = "woken")
BY DEF ShapeInv, Notified, Threads

\* Idle and Inside after such a step.
LEMMA SetsStep ==
    ASSUME NEW t \in Threads,
           \A u \in Threads \ {t} : pc'[u] = pc[u] \/ (pc[u] = "waiting" /\ pc'[u] = "woken")
    PROVE  /\ Idle' = IF pc'[t] \in {"waiting", "woken"} THEN Idle \cup {t} ELSE Idle \ {t}
           /\ Inside' = IF pc'[t] \notin {"out", "enter"} THEN Inside \cup {t} ELSE Inside \ {t}
<1>1. Idle' = IF pc'[t] \in {"waiting", "woken"} THEN Idle \cup {t} ELSE Idle \ {t}
  BY DEF Idle
<1>2. Inside' = IF pc'[t] \notin {"out", "enter"} THEN Inside \cup {t} ELSE Inside \ {t}
  BY DEF Inside
<1> QED BY <1>1, <1>2
-----------------------------------------------------------------------------
(* Every step preserves the invariant.                                     *)

\* A new queue satisfies QueueInv.
LEMMA QueueInit == Init => QueueInv
<1> SUFFICES ASSUME Init PROVE QueueInv OBVIOUS
<1> USE DEF Init
<1>1. ToSet(<<>>) = {} BY SMTT(30) DEF ToSet
<1>2. Unfinished = {} BY <1>1 DEF Unfinished, Held
<1>3. Idle = {} BY DEF Idle
<1>4. Inside = {} BY DEF Inside
<1>5. ShapeInv
  <2>1. <<>> \in Seq(Checks) /\ IsInjective(<<>>) BY SMTT(30) DEF IsInjective
  <2> QED BY <2>1, CheckQueueAssumption DEF ShapeInv, Threads
<1>6. CountInv BY <1>2, <1>3, <1>4, FS_EmptySet DEF CountInv
<1>7. ApartInv BY <1>1, <1>2 DEF ApartInv, Held
<1>8. FlagInv BY <1>2 DEF FlagInv
<1> QED BY <1>5, <1>6, <1>7, <1>8 DEF QueueInv

\* Take keeps QueueInv.
LEMMA TakeStep ==
    ASSUME QueueInv, NEW t \in Threads, Take(t)
    PROVE  QueueInv'
<1> DEFINE n == nNow(t)
           b == Reverse(SubSeq(queue, Len(queue) - n + 1, Len(queue)))
<1>s. ShapeInv BY DEF QueueInv
<1>1. LocksMutex(t) /\ queue # <<>> BY DEF Take
<1>2. /\ vChecks' = [vChecks EXCEPT ![t] = b]
      /\ queue' = SubSeq(queue, 1, Len(queue) - n)
  BY DEF Take
<1>3. /\ nTotal' = TotalNow(t) /\ nIdle' = IdleNow(t) /\ nTodo' = TodoNow(t)
      /\ fAllOk' = AllOkNow(t) /\ fOk' = [fOk EXCEPT ![t] = AllOkNow(t)]
      /\ pc' = Notified(t, [pc EXCEPT ![t] = "working"])
      /\ UNCHANGED <<control, added, executed>>
  BY DEF Take
<1>4. /\ IsFiniteSet(Rest(t)) /\ TodoNow(t) = Cardinality(Rest(t))
      /\ IsFiniteSet(Inside \cup {t}) /\ TotalNow(t) = Cardinality(Inside \cup {t})
      /\ IsFiniteSet(Idle \ {t}) /\ IdleNow(t) = Cardinality(Idle \ {t})
      /\ TotalNow(t) \in Nat /\ IdleNow(t) \in Nat
  BY <1>1, CountNow
<1>5. queue \in Seq(Checks) /\ IsInjective(queue) BY <1>s DEF ShapeInv
<1>6. n \in 1..Len(queue) BY <1>1, <1>4, <1>5, BatchSize
<1> HIDE DEF n
<1>7. /\ queue' \in Seq(Checks) /\ IsInjective(queue')
      /\ b \in Seq(Checks) /\ IsInjective(b) /\ b # <<>>
      /\ ToSet(queue') \cap ToSet(b) = {} /\ ToSet(queue') \cup ToSet(b) = ToSet(queue)
  BY <1>2, <1>5, <1>6, SplitQueue
<1> HIDE DEF b
<1>8. /\ pc' \in [Threads -> {"out", "enter", "waiting", "woken", "working", "done"}]
      /\ pc'[t] = "working"
      /\ \A u \in Threads \ {t} : pc'[u] = pc[u] \/ (pc[u] = "waiting" /\ pc'[u] = "woken")
  BY <1>s, <1>3, PcStep
<1>9. /\ vChecks' \in [Threads -> Seq(Checks)] /\ vChecks'[t] = b
      /\ \A u \in Threads \ {t} : vChecks'[u] = vChecks[u]
  BY <1>2, <1>7, <1>s DEF ShapeInv
<1>10. Held(t)' = ToSet(b) /\ \A u \in Threads \ {t} : Held(u)' = Held(u) BY <1>9 DEF Held
<1>11. Unfinished' = Rest(t) BY <1>7, <1>10 DEF Unfinished, Rest
<1>12. Idle' = Idle \ {t} /\ Inside' = Inside \cup {t} BY <1>8, SetsStep
<1>13. AllOkNow(t) \in BOOLEAN BY <1>1, FlagNow
<1>14. ShapeInv'
  <2>1. pc'[Master] = "out" <=> pc[Master] = "out"
    BY <1>1, <1>8 DEF Threads, LocksMutex
  <2>2. ASSUME NEW u \in Threads
        PROVE  /\ IsInjective(vChecks'[u])
               /\ vChecks'[u] # <<>> <=> pc'[u] \in {"working", "done"}
    BY <1>s, <1>7, <1>8, <1>9 DEF ShapeInv
  <2> QED BY <1>s, <1>3, <1>7, <1>8, <1>9, <1>13, <2>1, <2>2 DEF ShapeInv
<1>15. CountInv' BY <1>3, <1>4, <1>11, <1>12 DEF CountInv
<1>16. ApartInv'
  <2>1. ToSet(queue') \subseteq ToSet(queue) /\ ToSet(b) \subseteq ToSet(queue) BY <1>7
  <2>2. /\ \A u \in Threads : ToSet(queue) \cap Held(u) = {}
        /\ \A u, v \in Threads : u # v => Held(u) \cap Held(v) = {}
        /\ Unfinished \subseteq added
    BY DEF QueueInv, ApartInv
  <2>3. \A u \in Threads : ToSet(queue') \cap Held(u)' = {} BY <1>7, <1>10, <2>1, <2>2, SMTT(30)
  <2>4. \A u, v \in Threads : u # v => Held(u)' \cap Held(v)' = {} BY <1>10, <2>1, <2>2, SMTT(30)
  <2>5. Unfinished' \in SUBSET added' BY <1>3, <1>11, <2>2, RestIs
  <2> QED BY <2>3, <2>4, <2>5 DEF ApartInv
<1>17. FlagInv'
  <2>1. control \in {"adding", "waiting"}
    <3>1. Rest(t) # {} BY <1>1, <1>5, NoElements DEF Rest
    <3> QED BY <1>1, <3>1, FlagNow
  <2>2. IF AllOkNow(t) THEN \A c \in added \ Rest(t) : c \notin Bad /\ c \in executed
        ELSE added \cap Bad # {}
    BY <1>1, <2>1, FlagNow
  <2>3. IF fAllOk' THEN \A c \in added' \ Unfinished' : c \notin Bad /\ c \in executed'
        ELSE added' \cap Bad # {}
    BY <1>3, <1>11, <2>2
  <2>4. ASSUME NEW u \in Threads
        PROVE  /\ pc'[u] = "done" /\ fOk'[u] => Held(u)' \cap Bad = {} /\ Held(u)' \subseteq executed'
               /\ pc'[u] \in {"working", "done"} /\ ~fOk'[u] => added' \cap Bad # {}
    <3>1. CASE u = t
      <4>1. fOk'[t] = AllOkNow(t) BY <1>s, <1>3 DEF ShapeInv
      <4> QED BY <1>3, <1>8, <2>2, <3>1, <4>1
    <3>2. CASE u # t
      <4>1. fOk'[u] = fOk[u] BY <1>s, <1>3, <3>2 DEF ShapeInv
      <4> QED BY <1>3, <1>8, <1>10, <3>2, <4>1 DEF QueueInv, FlagInv
    <3> QED BY <3>1, <3>2
  <2> QED BY <1>3, <2>1, <2>3, <2>4 DEF FlagInv
<1> QED BY <1>14, <1>15, <1>16, <1>17 DEF QueueInv
\* Sleep keeps QueueInv.
LEMMA SleepStep ==
    ASSUME QueueInv, NEW t \in Threads, Sleep(t)
    PROVE  QueueInv'
<1>s. ShapeInv BY DEF QueueInv
<1>1. LocksMutex(t) /\ queue = <<>> BY DEF Sleep
<1>3. /\ nTotal' = TotalNow(t) /\ nIdle' = IdleNow(t) + 1 /\ nTodo' = TodoNow(t)
      /\ fAllOk' = AllOkNow(t)
      /\ vChecks' = [vChecks EXCEPT ![t] = <<>>]
      /\ pc' = Notified(t, [pc EXCEPT ![t] = "waiting"])
      /\ UNCHANGED <<queue, fOk, control, added, executed>>
  BY DEF Sleep
<1>4. /\ IsFiniteSet(Rest(t)) /\ TodoNow(t) = Cardinality(Rest(t))
      /\ IsFiniteSet(Inside \cup {t}) /\ TotalNow(t) = Cardinality(Inside \cup {t})
      /\ IsFiniteSet(Idle \ {t}) /\ IdleNow(t) = Cardinality(Idle \ {t})
  BY <1>1, CountNow
<1>8. /\ pc' \in [Threads -> {"out", "enter", "waiting", "woken", "working", "done"}]
      /\ pc'[t] = "waiting"
      /\ \A u \in Threads \ {t} : pc'[u] = pc[u] \/ (pc[u] = "waiting" /\ pc'[u] = "woken")
  BY <1>s, <1>3, PcStep
<1>9. /\ vChecks' \in [Threads -> Seq(Checks)] /\ vChecks'[t] = <<>>
      /\ \A u \in Threads \ {t} : vChecks'[u] = vChecks[u]
  BY <1>3, <1>s, SMTT(30) DEF ShapeInv
<1>10. Held(t)' = {} /\ \A u \in Threads \ {t} : Held(u)' = Held(u)
  BY <1>9, SMTT(30) DEF Held, ToSet
<1>11. Unfinished' = Rest(t) BY <1>3, <1>10 DEF Unfinished, Rest
<1>12. Idle' = Idle \cup {t} /\ Inside' = Inside \cup {t} BY <1>8, SetsStep
<1>13. AllOkNow(t) \in BOOLEAN BY <1>1, FlagNow
<1>14. ShapeInv'
  <2>1. pc'[Master] = "out" <=> pc[Master] = "out"
    BY <1>1, <1>8 DEF Threads, LocksMutex
  <2>2. ASSUME NEW u \in Threads
        PROVE  /\ IsInjective(vChecks'[u])
               /\ vChecks'[u] # <<>> <=> pc'[u] \in {"working", "done"}
    <3>1. IsInjective(<<>>) BY SMTT(30) DEF IsInjective
    <3> QED BY <1>s, <1>8, <1>9, <3>1 DEF ShapeInv
  <2> QED BY <1>s, <1>3, <1>8, <1>9, <1>13, <2>1, <2>2 DEF ShapeInv
<1>15. CountInv'
  <2>1. Idle \cup {t} = (Idle \ {t}) \cup {t} OBVIOUS
  <2>2. IsFiniteSet(Idle') /\ Cardinality(Idle') = Cardinality(Idle \ {t}) + 1
    BY <1>4, <1>12, <2>1, FS_AddElement
  <2> QED BY <1>3, <1>4, <1>11, <1>12, <2>2 DEF CountInv
<1>16. ApartInv'
  <2>5. Unfinished' \in SUBSET added'
    BY <1>3, <1>11, RestIs DEF QueueInv, ApartInv
  <2> QED BY <1>3, <1>10, <2>5 DEF QueueInv, ApartInv
<1>17. FlagInv'
  <2>1. control \in {"none", "valid", "invalid"} => Unfinished' = {} /\ fAllOk'
    BY <1>1, <1>3, <1>11, FlagNow
  <2>3. control \in {"adding", "waiting"} =>
           IF fAllOk' THEN \A c \in added' \ Unfinished' : c \notin Bad /\ c \in executed'
           ELSE added' \cap Bad # {}
    BY <1>1, <1>3, <1>11, FlagNow
  <2>4. ASSUME NEW u \in Threads
        PROVE  /\ pc'[u] = "done" /\ fOk'[u] => Held(u)' \cap Bad = {} /\ Held(u)' \subseteq executed'
               /\ pc'[u] \in {"working", "done"} /\ ~fOk'[u] => added' \cap Bad # {}
    <3>1. CASE u = t BY <1>8, <3>1
    <3>2. CASE u # t BY <1>3, <1>8, <1>10, <3>2 DEF QueueInv, FlagInv
    <3> QED BY <3>1, <3>2
  <2> QED BY <1>3, <2>1, <2>3, <2>4 DEF QueueInv, FlagInv
<1> QED BY <1>14, <1>15, <1>16, <1>17 DEF QueueInv

\* nTodo = 0 says that no thread holds a check: what fAllOk says is said of all checks.
LEMMA MasterReturnsStep ==
    ASSUME QueueInv, MasterReturns
    PROVE  QueueInv'
<1> DEFINE t == Master
<1>t. t \in Threads BY DEF Threads
<1>s. ShapeInv BY DEF QueueInv
<1>1. LocksMutex(t) /\ queue = <<>> /\ TodoNow(t) = 0 BY DEF MasterReturns
<1>3. /\ control' = (IF AllOkNow(t) THEN "valid" ELSE "invalid")
      /\ nTotal' = TotalNow(t) - 1 /\ nIdle' = IdleNow(t) /\ nTodo' = 0
      /\ fAllOk' = TRUE
      /\ vChecks' = [vChecks EXCEPT ![t] = <<>>]
      /\ pc' = [pc EXCEPT ![t] = "out"]
      /\ UNCHANGED <<queue, fOk, added, executed>>
  BY DEF MasterReturns
<1> HIDE DEF t
<1>4. /\ IsFiniteSet(Rest(t)) /\ TodoNow(t) = Cardinality(Rest(t))
      /\ IsFiniteSet(Inside \cup {t}) /\ TotalNow(t) = Cardinality(Inside \cup {t})
      /\ IsFiniteSet(Idle \ {t}) /\ IdleNow(t) = Cardinality(Idle \ {t})
      /\ TotalNow(t) \in Nat
  BY <1>t, <1>1, CountNow
<1>5. Rest(t) = {} BY <1>1, <1>4, FS_EmptySet
<1>8. /\ pc' \in [Threads -> {"out", "enter", "waiting", "woken", "working", "done"}]
      /\ pc'[t] = "out"
      /\ \A u \in Threads \ {t} : pc'[u] = pc[u]
  BY <1>t, <1>s, <1>3 DEF ShapeInv
<1>9. /\ vChecks' \in [Threads -> Seq(Checks)] /\ vChecks'[t] = <<>>
      /\ \A u \in Threads \ {t} : vChecks'[u] = vChecks[u]
  BY <1>t, <1>3, <1>s, SMTT(30) DEF ShapeInv
<1>10. Held(t)' = {} /\ \A u \in Threads \ {t} : Held(u)' = Held(u)
  BY <1>t, <1>9, SMTT(30) DEF Held, ToSet, t
<1>11. Unfinished' = {}
  <2>1. Unfinished' = Rest(t) BY <1>t, <1>3, <1>10 DEF Unfinished, Rest
  <2> QED BY <1>5, <2>1
<1>12. Idle' = Idle \ {t} /\ Inside' = Inside \ {t} BY <1>t, <1>8, SetsStep
<1>13. control = "waiting" BY <1>s, <1>1 DEF ShapeInv, LocksMutex, t
<1>14. ShapeInv'
  <2>2. ASSUME NEW u \in Threads
        PROVE  /\ IsInjective(vChecks'[u])
               /\ vChecks'[u] # <<>> <=> pc'[u] \in {"working", "done"}
    <3>1. IsInjective(<<>>) BY SMTT(30) DEF IsInjective
    <3> QED BY <1>s, <1>8, <1>9, <3>1 DEF ShapeInv
  <2>3. control' \in {"none", "adding", "waiting", "valid", "invalid"} /\ control' # "waiting"
    BY <1>3
  <2> QED BY <1>s, <1>3, <1>8, <1>9, <2>2, <2>3 DEF ShapeInv, t
<1>15. CountInv'
  <2>1. Inside \ {t} = (Inside \cup {t}) \ {t} OBVIOUS
  <2>2. IsFiniteSet(Inside') /\ Cardinality(Inside') = Cardinality(Inside \cup {t}) - 1
    BY <1>4, <1>12, <2>1, FS_RemoveElement
  <2> QED BY <1>3, <1>4, <1>11, <1>12, <2>2, FS_EmptySet DEF CountInv
<1>16. ApartInv' BY <1>11 DEF ApartInv, Unfinished
<1>17. FlagInv'
  <2>1. IF AllOkNow(t) THEN \A c \in added : c \notin Bad /\ c \in executed
        ELSE added \cap Bad # {}
    BY <1>t, <1>1, <1>5, <1>13, FlagNow
  <2>2. executed \in SUBSET added BY <1>s DEF ShapeInv
  <2>3. /\ control' = "valid" => added \cap Bad = {} /\ executed = added
        /\ control' = "invalid" => added \cap Bad # {}
    BY <1>3, <2>1, <2>2
  <2>4. ASSUME NEW u \in Threads
        PROVE  /\ pc'[u] = "done" /\ fOk'[u] => Held(u)' \cap Bad = {} /\ Held(u)' \subseteq executed'
               /\ pc'[u] \in {"working", "done"} /\ ~fOk'[u] => added' \cap Bad # {}
    <3>1. CASE u = t BY <1>8, <3>1
    <3>2. CASE u # t BY <1>3, <1>8, <1>10, <3>2, SMTT(30) DEF QueueInv, FlagInv
    <3> QED BY <3>1, <3>2
  <2> QED BY <1>3, <1>11, <2>3, <2>4 DEF FlagInv
<1> QED BY <1>14, <1>15, <1>16, <1>17 DEF QueueInv
\* Execute keeps QueueInv.
LEMMA ExecuteStep ==
    ASSUME QueueInv, NEW t \in Threads, Execute(t)
    PROVE  QueueInv'
<1> DEFINE ran == {vChecks[t][i] : i \in {j \in DOMAIN vChecks[t] :
                        fOk[t] /\ \A k \in 1..(j - 1) : vChecks[t][k] \notin Bad}}
<1>s. ShapeInv BY DEF QueueInv
<1>1. pc[t] = "working" BY DEF Execute
<1>2. /\ executed' = executed \cup ran
      /\ fOk' = [fOk EXCEPT ![t] = @ /\ Held(t) \cap Bad = {}]
      /\ pc' = [pc EXCEPT ![t] = "done"]
      /\ UNCHANGED <<queue, nIdle, nTotal, fAllOk, nTodo, vChecks, control, added>>
  BY DEF Execute, Held
<1>3. ran \in SUBSET Held(t) BY DEF Held, ToSet
<1>4. fOk[t] /\ Held(t) \cap Bad = {} => ran = Held(t)
  <2> SUFFICES ASSUME fOk[t], Held(t) \cap Bad = {} PROVE Held(t) \in SUBSET ran BY <1>3
  <2>1. vChecks[t] \in Seq(Checks) BY <1>s DEF ShapeInv
  <2>2. \A j \in DOMAIN vChecks[t] : \A k \in 1..(j - 1) : k \in DOMAIN vChecks[t] BY <2>1, SMTT(30)
  <2>3. \A k \in DOMAIN vChecks[t] : vChecks[t][k] \notin Bad BY DEF Held, ToSet
  <2> QED BY <2>2, <2>3 DEF Held, ToSet
<1> HIDE DEF ran
<1>5. \A u \in Threads : Held(u)' = Held(u) BY <1>2 DEF Held
<1>6. Unfinished' = Unfinished BY <1>2, <1>5 DEF Unfinished
<1>7. /\ pc' \in [Threads -> {"out", "enter", "waiting", "woken", "working", "done"}]
      /\ pc'[t] = "done" /\ \A u \in Threads \ {t} : pc'[u] = pc[u]
  BY <1>2, <1>s DEF ShapeInv
<1>8. Idle' = Idle /\ Inside' = Inside BY <1>1, <1>7 DEF Idle, Inside
<1>9. Held(t) \in SUBSET added BY DEF QueueInv, ApartInv, Unfinished
<1>10. /\ fOk' \in [Threads -> BOOLEAN] /\ (fOk'[t] <=> fOk[t] /\ Held(t) \cap Bad = {})
       /\ \A u \in Threads \ {t} : fOk'[u] = fOk[u]
  BY <1>2, <1>s DEF ShapeInv
<1>11. ShapeInv'
  <2>1. executed' \in SUBSET added' BY <1>2, <1>3, <1>9, <1>s DEF ShapeInv
  <2>2. pc'[Master] = "out" <=> pc[Master] = "out" BY <1>1, <1>7 DEF Threads
  <2>3. ASSUME NEW u \in Threads
        PROVE  vChecks'[u] # <<>> <=> pc'[u] \in {"working", "done"}
    BY <1>1, <1>2, <1>7, <1>s DEF ShapeInv
  <2> QED BY <1>2, <1>7, <1>10, <1>s, <2>1, <2>2, <2>3 DEF ShapeInv
<1>12. CountInv' BY <1>2, <1>6, <1>8 DEF QueueInv, CountInv
<1>13. ApartInv' BY <1>2, <1>5, <1>6 DEF QueueInv, ApartInv
<1>14. FlagInv'
  <2>f. FlagInv BY DEF QueueInv
  <2>1. control \in {"adding", "waiting"}
    <3>1. Held(t) # {} BY <1>1, <1>s, HeldIff
    <3>2. Unfinished # {} BY <3>1 DEF Unfinished
    <3> QED BY <2>f, <1>s, <3>2 DEF FlagInv, ShapeInv
  <2>2. IF fAllOk' THEN \A c \in added' \ Unfinished' : c \notin Bad /\ c \in executed'
        ELSE added' \cap Bad # {}
    BY <1>2, <1>6, <2>1, <2>f DEF FlagInv
  <2>3. ASSUME NEW u \in Threads
        PROVE  /\ pc'[u] = "done" /\ fOk'[u] => Held(u)' \cap Bad = {} /\ Held(u)' \subseteq executed'
               /\ pc'[u] \in {"working", "done"} /\ ~fOk'[u] => added' \cap Bad # {}
    <3>1. CASE u = t
      <4>1. fOk'[t] => Held(t)' \cap Bad = {} /\ Held(t)' \subseteq executed'
        BY <1>2, <1>4, <1>5, <1>10
      <4>2. ~fOk'[t] => added' \cap Bad # {}
        BY <1>1, <1>2, <1>9, <1>10, <2>f DEF FlagInv
      <4> QED BY <3>1, <4>1, <4>2
    <3>2. CASE u # t BY <1>2, <1>5, <1>7, <1>10, <2>f, <3>2, SMTT(30) DEF FlagInv
    <3> QED BY <3>1, <3>2
  <2> QED BY <1>2, <2>1, <2>2, <2>3 DEF FlagInv
<1> QED BY <1>11, <1>12, <1>13, <1>14 DEF QueueInv

\* Steps that leave the checks where they are and move no thread in or out of Loop.
LEMMA QuietStep ==
    ASSUME QueueInv,
           UNCHANGED <<queue, nIdle, nTotal, fAllOk, nTodo, vChecks, fOk, added, executed, control>>,
           pc' \in [Threads -> {"out", "enter", "waiting", "woken", "working", "done"}],
           \A u \in Threads : pc'[u] = pc[u] \/ (pc[u] = "waiting" /\ pc'[u] = "woken")
    PROVE  QueueInv'
<1>1. \A u \in Threads : Held(u)' = Held(u) BY DEF Held
<1>2. Unfinished' = Unfinished BY <1>1 DEF Unfinished
<1>3. Idle' = Idle /\ Inside' = Inside BY DEF Idle, Inside
<1>4. ShapeInv' BY DEF QueueInv, ShapeInv, Threads
<1>5. CountInv' BY <1>2, <1>3 DEF QueueInv, CountInv
<1>6. ApartInv' BY <1>1, <1>2 DEF QueueInv, ApartInv
<1>7. FlagInv'
  <2>1. ASSUME NEW u \in Threads
        PROVE  /\ pc'[u] = "done" /\ fOk'[u] => Held(u)' \cap Bad = {} /\ Held(u)' \subseteq executed'
               /\ pc'[u] \in {"working", "done"} /\ ~fOk'[u] => added' \cap Bad # {}
    BY <1>1 DEF QueueInv, FlagInv
  <2> QED BY <1>2, <2>1 DEF QueueInv, FlagInv
<1> QED BY <1>4, <1>5, <1>6, <1>7 DEF QueueInv

\* SpuriousWakeup keeps QueueInv.
LEMMA SpuriousWakeupStep ==
    ASSUME QueueInv, NEW t \in Threads, SpuriousWakeup(t)
    PROVE  QueueInv'
<1>1. /\ pc' \in [Threads -> {"out", "enter", "waiting", "woken", "working", "done"}]
      /\ \A u \in Threads : pc'[u] = pc[u] \/ (pc[u] = "waiting" /\ pc'[u] = "woken")
  BY DEF QueueInv, ShapeInv, SpuriousWakeup
<1> QED BY <1>1, QuietStep DEF SpuriousWakeup
\* NewControl keeps QueueInv.
LEMMA NewControlStep ==
    ASSUME QueueInv, NewControl
    PROVE  QueueInv'
<1> USE DEF NewControl
<1>1. \A u \in Threads : Held(u)' = Held(u) BY DEF Held
<1>2. Unfinished' = Unfinished BY <1>1 DEF Unfinished
<1>3. Idle' = Idle /\ Inside' = Inside BY DEF Idle, Inside
<1>4. ShapeInv' BY DEF QueueInv, ShapeInv
<1>5. CountInv' BY <1>2, <1>3 DEF QueueInv, CountInv
<1>6. ApartInv' BY <1>1, <1>2 DEF QueueInv, ApartInv
<1>7. FlagInv'
  <2>1. added = {} /\ fAllOk BY DEF QueueInv, FlagInv
  <2>2. ASSUME NEW u \in Threads
        PROVE  /\ pc'[u] = "done" /\ fOk'[u] => Held(u)' \cap Bad = {} /\ Held(u)' \subseteq executed'
               /\ pc'[u] \in {"working", "done"} /\ ~fOk'[u] => added' \cap Bad # {}
    BY <1>1 DEF QueueInv, FlagInv
  <2> QED BY <2>1, <2>2 DEF FlagInv
<1> QED BY <1>4, <1>5, <1>6, <1>7 DEF QueueInv

\* Wait keeps QueueInv.
LEMMA WaitStep ==
    ASSUME QueueInv, Wait
    PROVE  QueueInv'
<1> USE DEF Wait
<1>s. ShapeInv BY DEF QueueInv
<1>0. /\ pc' \in [Threads -> {"out", "enter", "waiting", "woken", "working", "done"}]
      /\ pc[Master] = "out" /\ pc'[Master] = "enter"
      /\ \A u \in Threads \ {Master} : pc'[u] = pc[u]
  BY <1>s DEF ShapeInv, Threads
<1>1. \A u \in Threads : Held(u)' = Held(u) BY DEF Held
<1>2. Unfinished' = Unfinished BY <1>1 DEF Unfinished
<1>3. Idle' = Idle /\ Inside' = Inside BY <1>0 DEF Idle, Inside, Threads
<1>4. ShapeInv'
  <2>1. ASSUME NEW u \in Threads
        PROVE  vChecks'[u] # <<>> <=> pc'[u] \in {"working", "done"}
    BY <1>0, <1>s DEF ShapeInv
  <2> QED BY <1>0, <1>s, <2>1 DEF ShapeInv
<1>5. CountInv' BY <1>2, <1>3 DEF QueueInv, CountInv
<1>6. ApartInv' BY <1>1, <1>2 DEF QueueInv, ApartInv
<1>7. FlagInv'
  <2>2. ASSUME NEW u \in Threads
        PROVE  /\ pc'[u] = "done" /\ fOk'[u] => Held(u)' \cap Bad = {} /\ Held(u)' \subseteq executed'
               /\ pc'[u] \in {"working", "done"} /\ ~fOk'[u] => added' \cap Bad # {}
    BY <1>0, <1>1 DEF QueueInv, FlagInv
  <2> QED BY <1>2, <2>2 DEF QueueInv, FlagInv
<1> QED BY <1>4, <1>5, <1>6, <1>7 DEF QueueInv

\* Release keeps QueueInv.
LEMMA ReleaseStep ==
    ASSUME QueueInv, Release
    PROVE  QueueInv'
<1> USE DEF Release
<1>1. \A u \in Threads : Held(u)' = Held(u) BY DEF Held
<1>2. Unfinished' = Unfinished BY <1>1 DEF Unfinished
<1>3. Idle' = Idle /\ Inside' = Inside BY DEF Idle, Inside
<1>4. ShapeInv' BY DEF QueueInv, ShapeInv
<1>5. CountInv' BY <1>2, <1>3 DEF QueueInv, CountInv
<1>6. Unfinished = {} /\ fAllOk BY DEF QueueInv, FlagInv
<1>7. ApartInv' BY <1>1, <1>2, <1>6 DEF QueueInv, ApartInv
<1>8. FlagInv'
  <2>1. \A u \in Threads : pc[u] \notin {"working", "done"}
    BY <1>6, HeldIff DEF QueueInv, Unfinished
  <2> QED BY <1>2, <1>6, <2>1 DEF FlagInv
<1> QED BY <1>4, <1>5, <1>7, <1>8 DEF QueueInv

\* The checks of a list that is added are new.
LEMMA AddStep ==
    ASSUME QueueInv, NEW s \in Batches, Add(s)
    PROVE  QueueInv'
<1>s. ShapeInv BY DEF QueueInv
<1>1. s \in Seq(Checks) /\ IsInjective(s) /\ ToSet(s) \cap added = {}
  <2>1. /\ IsInjective(s)
        /\ \E n \in 0..MaxAdd : s \in [1..n -> Checks \ added]
    BY DEF Batches, SeqOf
  <2>2. PICK n \in 0..MaxAdd : s \in [1..n -> Checks \ added] BY <2>1
  <2>3. s \in Seq(Checks \ added) BY <2>2, SMTT(30)
  <2>4. ToSet(s) \in SUBSET (Checks \ added) BY <2>1, <2>3, DistinctLen
  <2>5. s \in Seq(Checks) BY <2>3, SMTT(30)
  <2> QED BY <2>1, <2>4, <2>5
<1>2. /\ control = "adding"
      /\ queue' = queue \o s /\ nTodo' = nTodo + Len(s) /\ added' = added \cup ToSet(s)
      /\ UNCHANGED <<nIdle, nTotal, fAllOk, vChecks, fOk, control, executed>>
  BY DEF Add
<1>3. PICK W \in WakeSets(Len(s)) : pc' = [t \in Threads |-> IF t \in W THEN "woken" ELSE pc[t]]
  BY DEF Add
<1>4. W \in SUBSET Sleeping BY DEF WakeSets
<1>5. /\ pc' \in [Threads -> {"out", "enter", "waiting", "woken", "working", "done"}]
      /\ \A u \in Threads : pc'[u] = pc[u] \/ (pc[u] = "waiting" /\ pc'[u] = "woken")
  BY <1>s, <1>3, <1>4 DEF ShapeInv, Sleeping
<1>6. /\ queue' \in Seq(Checks) /\ ToSet(queue') = ToSet(queue) \cup ToSet(s)
      /\ IsInjective(queue')
  <2>1. queue \in Seq(Checks) /\ IsInjective(queue) BY <1>s DEF ShapeInv
  <2>2. ToSet(queue) \cap ToSet(s) = {} BY <1>1 DEF QueueInv, ApartInv, Unfinished
  <2> QED BY <1>1, <1>2, <2>1, <2>2, AppendDistinct, SMTT(30)
<1>7. \A u \in Threads : Held(u)' = Held(u) BY <1>2 DEF Held
<1>8. Unfinished' = Unfinished \cup ToSet(s) BY <1>6, <1>7 DEF Unfinished
<1>9. Idle' = Idle /\ Inside' = Inside BY <1>5 DEF Idle, Inside
<1>10. ToSet(s) \cap Unfinished = {} BY <1>1 DEF QueueInv, ApartInv
<1>11. ShapeInv'
  <2>1. ToSet(s) \in SUBSET Checks BY <1>1, DistinctLen
  <2>2. added' \in SUBSET Checks /\ executed' \in SUBSET added'
    BY <1>2, <1>s, <2>1 DEF ShapeInv
  <2>3. pc'[Master] = "out" <=> pc[Master] = "out" BY <1>5 DEF Threads
  <2> QED BY <1>2, <1>5, <1>6, <1>s, <2>2, <2>3 DEF ShapeInv
<1>12. CountInv'
  <2>1. IsFiniteSet(ToSet(s)) /\ Cardinality(ToSet(s)) = Len(s) BY <1>1, DistinctLen
  <2>2. IsFiniteSet(Unfinished) /\ nTodo = Cardinality(Unfinished) BY DEF QueueInv, CountInv
  <2>3. /\ IsFiniteSet(Unfinished \cup ToSet(s))
        /\ Cardinality(Unfinished \cup ToSet(s))
              = Cardinality(Unfinished) + Cardinality(ToSet(s)) - Cardinality(Unfinished \cap ToSet(s))
    BY <2>1, <2>2, FS_Union
  <2>4. Cardinality(Unfinished \cap ToSet(s)) = 0 BY <1>10, FS_EmptySet
  <2>5. Cardinality(Unfinished) \in Nat /\ Len(s) \in Nat BY <1>1, <2>2, FS_CardinalityType, SMTT(30)
  <2>6. nTodo' = Cardinality(Unfinished \cup ToSet(s)) BY <1>2, <2>1, <2>2, <2>3, <2>4, <2>5, SMTT(30)
  <2> QED BY <1>2, <1>8, <1>9, <2>3, <2>6 DEF QueueInv, CountInv
<1>13. ApartInv'
  <2>1. \A u \in Threads : ToSet(s) \cap Held(u) = {} BY <1>10 DEF Unfinished
  <2>2. \A u \in Threads : ToSet(queue') \cap Held(u)' = {}
    BY <1>6, <1>7, <2>1, SMTT(30) DEF QueueInv, ApartInv
  <2>3. Unfinished' \in SUBSET added' BY <1>2, <1>8 DEF QueueInv, ApartInv
  <2> QED BY <1>7, <2>2, <2>3 DEF QueueInv, ApartInv
<1>14. FlagInv'
  <2>f. FlagInv BY DEF QueueInv
  <2>1. ASSUME NEW u \in Threads
        PROVE  /\ pc'[u] = "done" /\ fOk'[u] => Held(u)' \cap Bad = {} /\ Held(u)' \subseteq executed'
               /\ pc'[u] \in {"working", "done"} /\ ~fOk'[u] => added' \cap Bad # {}
    BY <1>2, <1>5, <1>7, <2>f DEF FlagInv
  <2>2. IF fAllOk' THEN \A c \in added' \ Unfinished' : c \notin Bad /\ c \in executed'
        ELSE added' \cap Bad # {}
    BY <1>2, <1>8, <2>f DEF FlagInv
  <2> QED BY <1>2, <2>1, <2>2 DEF FlagInv
<1> QED BY <1>11, <1>12, <1>13, <1>14 DEF QueueInv

\* Every step keeps QueueInv.
LEMMA QueueStep ==
    ASSUME QueueInv, [Next]_vars
    PROVE  QueueInv'
<1>1. ASSUME NEW t \in Threads, Loop(t) PROVE QueueInv'
  BY <1>1, TakeStep, SleepStep, ExecuteStep, MasterReturnsStep DEF Loop
<1>2. ASSUME NEW t \in Threads, SpuriousWakeup(t) PROVE QueueInv' BY <1>2, SpuriousWakeupStep
<1>3. CASE NewControl BY <1>3, NewControlStep
<1>4. ASSUME NEW s \in Batches, Add(s) PROVE QueueInv' BY <1>4, AddStep
<1>5. CASE Wait BY <1>5, WaitStep
<1>6. CASE Release BY <1>6, ReleaseStep
<1>7. CASE UNCHANGED vars BY <1>7, QuietStep DEF vars, QueueInv, ShapeInv
<1> QED BY <1>1, <1>2, <1>3, <1>4, <1>5, <1>6, <1>7 DEF Next

-----------------------------------------------------------------------------
\* Wait's result is right and nothing is left over for the next control, whatever
\* the number of workers, the checks, the batch size and the order of events.
THEOREM WaitCorrect == Spec => []ResultCorrect
<1>1. QueueInv => ResultCorrect
  <2> SUFFICES ASSUME QueueInv PROVE ResultCorrect OBVIOUS
  <2>1. ASSUME control = "none"
        PROVE  queue = <<>> /\ nTodo = 0 /\ fAllOk /\ \A t \in Threads : vChecks[t] = <<>>
    <3>1. Unfinished = {} /\ fAllOk BY <2>1 DEF QueueInv, FlagInv
    <3>2. ToSet(queue) = {} /\ \A t \in Threads : ToSet(vChecks[t]) = {}
      BY <3>1 DEF Unfinished, Held
    <3>3. queue \in Seq(Checks) /\ \A t \in Threads : vChecks[t] \in Seq(Checks)
      BY DEF QueueInv, ShapeInv
    <3>4. nTodo = 0 BY <3>1, FS_EmptySet DEF QueueInv, CountInv
    <3> QED BY <3>1, <3>2, <3>3, <3>4, NoElements
  <2> QED BY <2>1 DEF ResultCorrect, QueueInv, FlagInv
<1> QED BY <1>1, QueueInit, QueueStep, PTL DEF Spec
=============================================================================
