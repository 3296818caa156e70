-------------------------- MODULE MCChainSelection --------------------------
(* Small trees for ChainSelection. *)
EXTENDS ChainSelection, TLC

CONSTANTS g, a1, a2, a3, b1, b2, none

\* Two branches of two blocks, equal in work.
ForkParent == (a1 :> g) @@ (a2 :> a1) @@ (b1 :> g) @@ (b2 :> b1)
\* ... the second one longer by a block.
LongParent == ForkParent @@ (a3 :> a2)

HeightWork == [x \in Blocks |-> 1 + Height(x)]
\* The second block of the short branch outweighs the long one.
HeavyWork == [x \in Blocks |-> IF x = b2 THEN 9 ELSE 1 + Height(x)]

NoFault == [x \in Blocks |-> "none"]
\* A long branch that is bad from its start, and a bad block on the other one.
Faults == [x \in Blocks |-> IF x = a1 THEN "connect" ELSE IF x = b2 THEN "contextual"
                            ELSE "none"]

\* Two memory layouts that order equal-work blocks differently.
Orders == {(g :> 0) @@ (a1 :> 1) @@ (a2 :> 2) @@ (a3 :> 3) @@ (b1 :> 4) @@ (b2 :> 5),
           (g :> 5) @@ (a1 :> 4) @@ (a2 :> 3) @@ (a3 :> 2) @@ (b1 :> 1) @@ (b2 :> 0)}
OneOrder == {(g :> 0) @@ (a1 :> 1) @@ (a2 :> 2) @@ (a3 :> 3) @@ (b1 :> 4) @@ (b2 :> 5)}
NoBlocks == {}

\* Bound of MCPrune: the node stops only once invalidateblock has been called.
StopsAfterCall == shutdown \/ restarts > 0 => calls > 0
=============================================================================
