----------------------------- MODULE CoinsCache -----------------------------
(***************************************************************************)
(* The stack of coin views of the node (coins.cpp):                        *)
(*                                                                         *)
(*    db    the coins database (CCoinsViewDB), written in one go here; its *)
(*          partial batches are the subject of ChainstateFlush;            *)
(*    tip   CChainState::CoinsTip(), a CCoinsViewCache over db, or the     *)
(*          cache ReplayBlocks puts over db at startup;                    *)
(*    view  the CCoinsViewCache that ConnectTip and DisconnectTip open     *)
(*          over tip for the block they work on.                           *)
(*                                                                         *)
(* A cache is a map from outpoints to entries {coin, DIRTY, FRESH}; a read *)
(* that misses pulls the coin up through every level.  The two flags let a *)
(* cache forget entries its parent need not hear of.  The operators that   *)
(* act on one cache over any parent view come first; the actions apply     *)
(* them to the two levels the node has.                                    *)
(***************************************************************************)
CONSTANTS Outpoints,    \* COutPoint: transaction id and output number
          Coins,        \* coins that can be unspent
          Unspendable,  \* those with a provably unspendable script
          Spent,        \* Coin::IsSpent(): the null output
          NoEntry,      \* no entry in cacheCoins
          Blocks,       \* block hashes
          NullHash      \* uint256()

\* CCoinsCacheEntry (coins.h): the coin and the two bits of flags.
Entry == [coin : Coins \cup {Spent}, dirty : BOOLEAN, fresh : BOOLEAN]

ASSUME CoinsAssumption ==
    /\ Spent \notin Coins
    /\ NoEntry \notin Entry
    /\ Unspendable \subseteq Coins
    /\ NullHash \notin Blocks

VARIABLES
    db, dbBest,    \* the coins and the best block hash in the database
    tip, tipHash,  \* cacheCoins and hashBlock of the lower cache
    view,          \* cacheCoins of the upper cache
    open,          \* whether the upper cache exists
    replaying,     \* the lower cache is the one of ReplayBlocks
    thrown         \* a std::logic_error was thrown

vars == <<db, dbBest, tip, tipHash, view, open, replaying, thrown>>

Map == [Outpoints -> Coins \cup {Spent}]
Cache == [Outpoints -> Entry \cup {NoEntry}]
Empty == [o \in Outpoints |-> NoEntry]

(***************************************************************************)
(* One cache c over a parent view, given as the map `base' of what the     *)
(* parent's GetCoin returns (Spent where it returns false).                *)
(***************************************************************************)

\* CCoinsViewCache::GetCoin: what the cache shows at each outpoint.
Shown(c, base) ==
    [o \in Outpoints |-> IF c[o] = NoEntry THEN base[o] ELSE c[o].coin]

\* FetchCoin: a miss is filled from the parent with a clean entry.  (The code's
\* case of a parent that returns a spent coin has no instance: every GetCoin
\* returns false for one.)
FetchCoin(c, base, o) ==
    IF c[o] = NoEntry /\ base[o] # Spent
    THEN [c EXCEPT ![o] = [coin |-> base[o], dirty |-> FALSE, fresh |-> FALSE]]
    ELSE c

\* The FRESH bit AddCoin adds: only to an entry that is not DIRTY (no entry at
\* all counts as one), as a DIRTY spent one has yet to be told to the parent.
AddedFreshForgetsDirty(e, possible_overwrite) == ~possible_overwrite
AddedFresh(e, possible_overwrite) ==
    ~possible_overwrite /\ (e = NoEntry \/ ~e.dirty)

\* AddCoin on the entry e, or on the null entry it emplaces when there is none.
AddedEntry(e, coin, possible_overwrite) ==
    [coin  |-> coin,
     dirty |-> TRUE,
     fresh |-> (e # NoEntry /\ e.fresh) \/ AddedFresh(e, possible_overwrite)]

\* "Adding new coin that replaces non-pruned entry"
AddThrows(e, possible_overwrite) ==
    ~possible_overwrite /\ e # NoEntry /\ e.coin # Spent

\* SpendCoin on the entry FetchCoin left: erased when the parent has no coin.
SpentEntryErasesAll(e) == NoEntry
SpentEntry(e) ==
    IF e = NoEntry \/ e.fresh THEN NoEntry
    ELSE [e EXCEPT !.coin = Spent, !.dirty = TRUE]

\* The FRESH bit after the entry c of the child is merged into p of this cache: an
\* existing entry keeps its own, as its spent state may have to go further down.
MergedFreshCopied(c, p) == c.fresh
MergedFresh(c, p) == IF p = NoEntry THEN c.fresh ELSE p.fresh

\* CCoinsViewCache::BatchWrite, for the entry c of the child and p of this cache.
BatchWriteEntry(c, p) ==
    IF c = NoEntry \/ ~c.dirty THEN p
    ELSE IF c.coin = Spent /\ MergedFresh(c, p) THEN NoEntry
    ELSE [coin |-> c.coin, dirty |-> TRUE, fresh |-> MergedFresh(c, p)]

\* "FRESH flag misapplied to cache entry for base transaction with spendable outputs"
FreshMisapplied(c, p) ==
    c # NoEntry /\ c.dirty /\ c.fresh /\ p # NoEntry /\ p.coin # Spent

\* CCoinsViewDB::BatchWrite: dirty entries are erased (spent) or written.
DBWrite(c, base) ==
    [o \in Outpoints |-> IF c[o] # NoEntry /\ c[o].dirty THEN c[o].coin ELSE base[o]]

-----------------------------------------------------------------------------
(* The two levels.  A read of the upper cache that misses reads the lower    *)
(* one, which in turn reads the database and keeps what it found.            *)

TipShown == Shown(tip, db)
ViewShown == Shown(view, TipShown)

TipAfterRead(o) ==
    IF open /\ view[o] # NoEntry THEN tip ELSE FetchCoin(tip, db, o)

ViewAfterRead(o) == IF open THEN FetchCoin(view, TipShown, o) ELSE view

\* The cache the caller works on, and the entry it has there after a read.
TopEntry(o) == IF open THEN view[o] ELSE tip[o]
TopEntryAfterRead(o) == IF open THEN ViewAfterRead(o)[o] ELSE TipAfterRead(o)[o]

\* What a caller may do: work on view, or on tip while ReplayBlocks runs.
Working == ~thrown /\ (open \/ replaying)

Init ==
    /\ db = [o \in Outpoints |-> Spent] /\ dbBest = NullHash
    /\ tip = Empty /\ tipHash = NullHash
    /\ view = Empty /\ open = FALSE
    /\ replaying = TRUE
    /\ thrown = FALSE

\* GetCoin, HaveCoin, AccessCoin through the top cache.
Read(o) ==
    /\ ~thrown
    /\ tip' = TipAfterRead(o)
    /\ view' = ViewAfterRead(o)
    /\ UNCHANGED <<db, dbBest, tipHash, open, replaying, thrown>>

\* The top cache's entry for o becomes e; t and v are the caches before that.
SetTop(o, e, t, v) ==
    /\ tip' = IF open THEN t ELSE [t EXCEPT ![o] = e]
    /\ view' = IF open THEN [v EXCEPT ![o] = e] ELSE v

AddCoin(o, c, possible_overwrite, e, t, v) ==
    IF c \in Unspendable
    THEN tip' = t /\ view' = v /\ thrown' = thrown
    ELSE /\ SetTop(o, AddedEntry(e, c, possible_overwrite), t, v)
         /\ thrown' = AddThrows(e, possible_overwrite)

HaveCoin(o) == ViewShown[o] # Spent

\* UpdateCoins -> AddCoins(check = false): outputs of a connected transaction.
\* Only a coinbase may overwrite; for the others ConnectBlock's BIP30 check has
\* found that the output does not exist.
AddCoinsOfBlock(o, c, fCoinbase) ==
    /\ Working /\ open
    /\ fCoinbase \/ ~HaveCoin(o)
    /\ AddCoin(o, c, fCoinbase, TopEntry(o), tip, view)
    /\ UNCHANGED <<db, dbBest, tipHash, open, replaying>>

\* ApplyTxInUndo and RollforwardBlock's AddCoins(check = true): HaveCoin first,
\* and overwrite exactly when it says so.
AddCoinChecked(o, c) ==
    /\ Working
    /\ AddCoin(o, c, HaveCoin(o), TopEntryAfterRead(o), TipAfterRead(o), ViewAfterRead(o))
    /\ UNCHANGED <<db, dbBest, tipHash, open, replaying>>

SpendCoin(o) ==
    /\ Working
    /\ SetTop(o, SpentEntry(TopEntryAfterRead(o)), TipAfterRead(o), ViewAfterRead(o))
    /\ UNCHANGED <<db, dbBest, tipHash, open, replaying, thrown>>

\* AcceptToMemoryPool drops what a rejected transaction pulled into CoinsTip.
Uncache(o) ==
    /\ ~thrown /\ ~open /\ ~replaying
    /\ tip[o] # NoEntry /\ ~tip[o].dirty /\ ~tip[o].fresh
    /\ tip' = [tip EXCEPT ![o] = NoEntry]
    /\ UNCHANGED <<db, dbBest, tipHash, view, open, replaying, thrown>>

\* CCoinsViewCache view(&CoinsTip()) in ConnectTip and DisconnectTip.
OpenView ==
    /\ ~thrown /\ ~open /\ ~replaying
    /\ open' = TRUE /\ view' = Empty
    /\ UNCHANGED <<db, dbBest, tip, tipHash, replaying, thrown>>

\* ConnectTip or DisconnectTip fails and the view is destroyed.
DropView ==
    /\ ~thrown /\ open
    /\ open' = FALSE /\ view' = Empty
    /\ UNCHANGED <<db, dbBest, tip, tipHash, replaying, thrown>>

\* view.SetBestBlock(b); view.Flush(): the lower cache merges the upper one.
FlushView(b) ==
    /\ ~thrown /\ open
    /\ tip' = [o \in Outpoints |-> BatchWriteEntry(view[o], tip[o])]
    /\ tipHash' = b
    /\ thrown' = \E o \in Outpoints : FreshMisapplied(view[o], tip[o])
    /\ open' = FALSE /\ view' = Empty
    /\ UNCHANGED <<db, dbBest, replaying>>

\* GetBestBlock: the hash is read from the database when not known yet.
GetBestBlock == IF tipHash = NullHash THEN dbBest ELSE tipHash

\* FlushStateToDisk: CoinsTip().Flush(), and SetBestBlock(b); Flush() at the end
\* of ReplayBlocks, after which the cache is destroyed.
FlushTip(b) ==
    /\ ~thrown /\ ~open
    /\ replaying \/ b = GetBestBlock
    /\ db' = DBWrite(tip, db)
    /\ dbBest' = b
    /\ tip' = Empty
    /\ tipHash' = IF replaying THEN NullHash ELSE b
    /\ replaying' = FALSE
    /\ UNCHANGED <<view, open, thrown>>

\* ReplayBlocks finds nothing to replay.
NoReplay ==
    /\ replaying /\ tip = Empty
    /\ replaying' = FALSE
    /\ UNCHANGED <<db, dbBest, tip, tipHash, view, open, thrown>>

\* The process ends and starts again with empty caches.
Restart ==
    /\ tip' = Empty /\ tipHash' = NullHash
    /\ view' = Empty /\ open' = FALSE
    /\ replaying' = TRUE
    /\ thrown' = FALSE
    /\ UNCHANGED <<db, dbBest>>

Next ==
    \/ \E o \in Outpoints :
          \/ Read(o) \/ SpendCoin(o) \/ Uncache(o)
          \/ \E c \in Coins : AddCoinChecked(o, c)
          \/ \E c \in Coins, fCoinbase \in BOOLEAN : AddCoinsOfBlock(o, c, fCoinbase)
    \/ OpenView \/ DropView \/ NoReplay \/ Restart
    \/ \E b \in Blocks : FlushView(b) \/ FlushTip(b)

Spec == Init /\ [][Next]_vars

-----------------------------------------------------------------------------
\* Every variable holds a value of its C++ type.
TypeOK ==
    /\ db \in Map /\ dbBest \in Blocks \cup {NullHash}
    /\ tip \in Cache /\ tipHash \in Blocks \cup {NullHash}
    /\ view \in Cache
    /\ open \in BOOLEAN /\ replaying \in BOOLEAN /\ thrown \in BOOLEAN

\* The meaning of the flags (coins.h:118-125) for a cache c over a parent view:
\* a FRESH entry is one the parent has no unspent coin for, an entry that is not
\* DIRTY equals the parent's coin, and a spent coin is only kept where the parent
\* must still be told (DIRTY and not FRESH).
Coherent(c, base) ==
    \A o \in Outpoints : c[o] # NoEntry =>
        /\ c[o].fresh => base[o] = Spent /\ c[o].dirty
        /\ ~c[o].dirty => c[o].coin = base[o]
        /\ c[o].coin = Spent => c[o].dirty /\ ~c[o].fresh

\* FlagsMeanWhatTheySay: both caches keep the promise of CCoinsCacheEntry::Flags
\* towards their parents through every read, write, flush and restart.
FlagsMeanWhatTheySay == Coherent(tip, db) /\ Coherent(view, TipShown)

\* NoLogicError: no sequence of calls the node makes reaches one of the two
\* std::logic_error throws of AddCoin and BatchWrite.
NoLogicError == ~thrown

\* The caches are invisible: through any of the three levels a reader sees the
\* plain map of UtxoSet, and a flush moves a whole level, hash included.
Utxo == INSTANCE UtxoSet WITH
            disk <- db, utxo <- TipShown, scratch <- ViewShown,
            diskBest <- dbBest, best <- GetBestBlock

\* What each call does, seen from above: a spend removes the coin a reader sees and
\* no other, an addition sets it, a flush hands a whole level down.
CallsTakeEffect ==
    /\ \A o \in Outpoints :
          /\ SpendCoin(o) => Utxo!Spend(o)
          /\ \A c \in Coins \ Unspendable :
                /\ AddCoinChecked(o, c) => Utxo!Add(o, c)
                /\ \A fCoinbase \in BOOLEAN : AddCoinsOfBlock(o, c, fCoinbase) => Utxo!Add(o, c)
    /\ \A b \in Blocks :
          /\ FlushView(b) => Utxo!Commit(b)
          /\ FlushTip(b) => Utxo!Flush(b)

\* CachesAreInvisible: CoinsCache implements UtxoSet, each call of AddCoin, SpendCoin and
\* Flush as the operation of the same name, every other step as one that is not seen, or
\* as the opening or the loss of a version.
CachesAreInvisible == Utxo!Spec /\ [][CallsTakeEffect]_vars
=============================================================================
