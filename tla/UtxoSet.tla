------------------------------ MODULE UtxoSet ------------------------------
(***************************************************************************)
(* What the stack of coin views promises (coins.h, class CCoinsView and    *)
(* its descendants): three versions of one map from outpoints to coins,    *)
(*                                                                         *)
(*    disk    what the coins database holds,                               *)
(*    utxo    the set of unspent outputs at the active tip (CoinsTip),     *)
(*    scratch the set as seen through a temporary view of a block being    *)
(*            connected or disconnected; while no such view is open it is  *)
(*            the same as utxo,                                            *)
(*                                                                         *)
(* and the hash of the block that disk and utxo belong to.  There are no   *)
(* caches and no flags here: CoinsCache implements this specification.     *)
(***************************************************************************)
CONSTANTS Outpoints,    \* COutPoint: transaction id and output number
          Coins,        \* coins that can be unspent
          Unspendable,  \* those with a provably unspendable script
          Spent,        \* "no unspent coin here"
          Blocks,       \* block hashes
          NullHash      \* uint256()

VARIABLES disk, utxo, scratch, open, diskBest, best

utxoVars == <<disk, utxo, scratch, open, diskBest, best>>

Init ==
    /\ disk = [o \in Outpoints |-> Spent]
    /\ utxo = disk
    /\ scratch = disk
    /\ open = FALSE
    /\ diskBest = NullHash
    /\ best = NullHash

\* One outpoint of the version being worked on takes a new value.
Put(o, c) ==
    /\ scratch' = [scratch EXCEPT ![o] = c]
    /\ utxo' = IF open THEN utxo ELSE scratch'
    /\ UNCHANGED <<disk, open, diskBest, best>>

Add(o, c) == c \notin Unspendable /\ Put(o, c)

Spend(o) == Put(o, Spent)

\* A temporary view is opened, committed as the state after block b, or dropped.
Open ==
    /\ ~open /\ open' = TRUE
    /\ UNCHANGED <<disk, utxo, scratch, diskBest, best>>

Commit(b) ==
    /\ open /\ open' = FALSE
    /\ utxo' = scratch
    /\ best' = b
    /\ UNCHANGED <<disk, scratch, diskBest>>

Discard ==
    /\ open /\ open' = FALSE
    /\ scratch' = utxo
    /\ UNCHANGED <<disk, utxo, diskBest, best>>

\* The changes reach the disk as a whole, together with their block hash.
Flush(b) ==
    /\ ~open
    /\ disk' = utxo
    /\ best' = b
    /\ diskBest' = b
    /\ UNCHANGED <<utxo, scratch, open>>

\* The process stops: what was not flushed is gone.
Crash ==
    /\ open' = FALSE
    /\ utxo' = disk
    /\ scratch' = disk
    /\ best' = diskBest
    /\ UNCHANGED <<disk, diskBest>>

Next ==
    \/ \E o \in Outpoints : Spend(o) \/ \E c \in Coins : Add(o, c)
    \/ Open \/ Discard \/ Crash
    \/ \E b \in Blocks : Commit(b) \/ Flush(b)

Spec == Init /\ [][Next]_utxoVars
============================================================================
