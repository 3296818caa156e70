---------------------------- MODULE MCCoinsCache ----------------------------
(* CoinsCache over two outpoints and three coins, one of them unspendable.     *)
EXTENDS CoinsCache
=============================================================================
