----------------------------- MODULE MCMempool -----------------------------
(* The memory pool over nine transactions: a pays three outputs; b, locked until  *)
(* height 1, b2 and d compete for the first, d also spends c (a diamond below a); *)
(* d2 spends d; e spends a and the coinbase cb; s competes with e for cb.         *)
EXTENDS Mempool

CONSTANTS base, cb, a, b, b2, c, d, e, s, d2

TxInputs ==
    (cb :> <<>>) @@ (a :> << <<base, 0>> >>) @@ (b :> << <<a, 0>> >>) @@ (b2 :> << <<a, 0>> >>)
    @@ (c :> << <<a, 1>> >>) @@ (d :> << <<a, 0>>, <<c, 0>> >>)
    @@ (e :> << <<a, 2>>, <<cb, 0>> >>) @@ (s :> << <<cb, 0>> >>) @@ (d2 :> << <<d, 0>> >>)
Outpoints == {<<base, 0>>, <<a, 0>>, <<a, 1>>, <<a, 2>>, <<c, 0>>, <<d, 0>>, <<cb, 0>>}
BaseCoins == {<<base, 0>>}
Locks == [t \in Txs |-> IF t = b THEN 1 ELSE 0]
=============================================================================
