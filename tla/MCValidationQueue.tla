-------------------------- MODULE MCValidationQueue -------------------------
(* ValidationQueue for TLC. *)
EXTENDS ValidationQueue

CONSTANTS t1, t2, p1, p2, wallet, peers

=============================================================================
