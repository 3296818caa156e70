---------------------------- MODULE MCCheckQueue ----------------------------
(* One block's checks on two workers, then the next block's. *)
EXTENDS CheckQueue

CONSTANTS w1, w2, m, c1, c2, c3, c4
=============================================================================
