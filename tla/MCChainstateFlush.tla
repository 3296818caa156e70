------------------------- MODULE MCChainstateFlush -------------------------
(* Two branches above block c that share a transaction, which spends o4 and *)
(* creates o3: it is in a2 and, one block lower, in b1.  The branch of a2   *)
(* spends o1 and o2 as well; a2 also creates and spends o5.                 *)
EXTENDS ChainstateFlush, TLC

CONSTANTS g, c, a1, a2, b1, none, o1, o2, o3, o4, o5

TreeParent == (c :> g) @@ (a1 :> c) @@ (a2 :> a1) @@ (b1 :> c)
TreeSpends == (g :> {}) @@ (c :> {}) @@ (a1 :> {o1}) @@ (a2 :> {o2, o4, o5}) @@ (b1 :> {o4})
TreeCreates == (g :> {}) @@ (c :> {o1, o4}) @@ (a1 :> {o2}) @@ (a2 :> {o3, o5}) @@ (b1 :> {o3})

\* A block file has room for three blocks.
FilesOfThree == {S \in SUBSET Blocks : Cardinality(S) <= 3}
=============================================================================
