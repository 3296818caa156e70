----------------------------- MODULE MCIndexSync -----------------------------
(* A small tree for IndexSync: a branch of one block and one of two. *)
EXTENDS IndexSync, TLC

CONSTANTS g, a1, b1, b2, none

TreeParent == (g :> none) @@ (a1 :> g) @@ (b1 :> g) @@ (b2 :> b1)
=============================================================================
