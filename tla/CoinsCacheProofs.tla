-------------------------- MODULE CoinsCacheProofs --------------------------
(***************************************************************************)
(* Proofs about CoinsCache for any sets of outpoints, coins and blocks.    *)
(* First the operators on one cache over any parent view, then the two     *)
(* levels of the node.                                                     *)
(***************************************************************************)
EXTENDS CoinsCache, TLAPS

\* The prover of a step that names no other.
USE ZenonT(120)

\* Shown yields a map: what a cache over a parent view shows is again a view.
LEMMA ShownType ==
    ASSUME NEW c \in Cache, NEW base \in Map
    PROVE  Shown(c, base) \in Map
BY DEF Shown, Cache, Map, Entry

\* FetchCoin keeps the flags right and changes nothing a reader sees.
LEMMA FetchLemma ==
    ASSUME NEW c \in Cache, NEW base \in Map, NEW o \in Outpoints,
           Coherent(c, base)
    PROVE  /\ FetchCoin(c, base, o) \in Cache
           /\ Coherent(FetchCoin(c, base, o), base)
           /\ Shown(FetchCoin(c, base, o), base) = Shown(c, base)
<1> DEFINE e == [coin |-> base[o], dirty |-> FALSE, fresh |-> FALSE]
<1>1. e \in Entry /\ e # NoEntry
  <2>1. e \in Entry
    BY DEF Entry, Map
  <2> QED BY <2>1, CoinsAssumption
<1>2. CASE c[o] = NoEntry /\ base[o] # Spent
  <2>1. FetchCoin(c, base, o) = [c EXCEPT ![o] = e]
    BY <1>2 DEF FetchCoin
  <2>2. [c EXCEPT ![o] = e] \in Cache
    BY <1>1 DEF Cache
  <2>3. Coherent([c EXCEPT ![o] = e], base)
    BY <1>1, <1>2 DEF Coherent, Cache
  <2>4. Shown([c EXCEPT ![o] = e], base) = Shown(c, base)
    BY <1>1, <1>2 DEF Shown, Cache
  <2> QED BY <2>1, <2>2, <2>3, <2>4
<1>3. CASE ~(c[o] = NoEntry /\ base[o] # Spent)
  BY <1>3 DEF FetchCoin
<1> QED BY <1>2, <1>3

\* AddCoin keeps the flags right, does not throw and shows the new coin, if
\* possible_overwrite is false only where the cache shows no unspent coin.
LEMMA AddLemma ==
    ASSUME NEW c \in Cache, NEW base \in Map, NEW o \in Outpoints,
           NEW coin \in Coins, NEW po \in BOOLEAN,
           Coherent(c, base),
           po \/ Shown(c, base)[o] = Spent
    PROVE  LET n == [c EXCEPT ![o] = AddedEntry(c[o], coin, po)]
           IN  /\ ~AddThrows(c[o], po)
               /\ n \in Cache
               /\ Coherent(n, base)
               /\ Shown(n, base) = [Shown(c, base) EXCEPT ![o] = coin]
<1> DEFINE e == AddedEntry(c[o], coin, po)
           n == [c EXCEPT ![o] = e]
<1>1. e \in Entry /\ e # NoEntry /\ e.coin = coin /\ e.dirty
  <2>1. AddedFresh(c[o], po) \in BOOLEAN
    BY DEF AddedFresh
  <2>2. e \in Entry /\ e.coin = coin /\ e.dirty
    BY <2>1 DEF AddedEntry, Entry
  <2> QED BY <2>2, CoinsAssumption
<1>2. coin # Spent
  BY CoinsAssumption
<1>3. ~AddThrows(c[o], po)
  BY DEF AddThrows, Shown
<1>4. n \in Cache
  BY <1>1 DEF Cache
<1>5. e.fresh => base[o] = Spent
  <2>1. CASE c[o] = NoEntry
    BY <2>1 DEF AddedEntry, AddedFresh, Shown
  <2>2. CASE c[o] # NoEntry
    BY <2>2 DEF AddedEntry, AddedFresh, Shown, Coherent
  <2> QED BY <2>1, <2>2
<1>6. Coherent(n, base)
  BY <1>1, <1>2, <1>5 DEF Coherent, Cache
<1>7. Shown(n, base) = [Shown(c, base) EXCEPT ![o] = coin]
  BY <1>1 DEF Shown, Cache
<1> QED BY <1>3, <1>4, <1>6, <1>7

\* SpendCoin, on a cache FetchCoin has filled at o, keeps the flags right and
\* shows the coin as spent.
LEMMA SpendLemma ==
    ASSUME NEW c \in Cache, NEW base \in Map, NEW o \in Outpoints,
           Coherent(c, base),
           c[o] = NoEntry => base[o] = Spent
    PROVE  LET n == [c EXCEPT ![o] = SpentEntry(c[o])]
           IN  /\ n \in Cache
               /\ Coherent(n, base)
               /\ Shown(n, base) = [Shown(c, base) EXCEPT ![o] = Spent]
<1> DEFINE e == SpentEntry(c[o])
           n == [c EXCEPT ![o] = e]
<1>1. CASE c[o] = NoEntry \/ c[o].fresh
  <2>1. e = NoEntry
    BY <1>1 DEF SpentEntry
  <2>2. base[o] = Spent
    BY <1>1 DEF Coherent
  <2> QED BY <2>1, <2>2 DEF Coherent, Shown, Cache
<1>2. CASE c[o] # NoEntry /\ ~c[o].fresh
  <2>1. /\ e \in Entry /\ e # NoEntry
        /\ e.coin = Spent /\ e.dirty /\ ~e.fresh
    <3>1. c[o] \in Entry
      BY <1>2 DEF Cache
    <3>2. e = [c[o] EXCEPT !.coin = Spent, !.dirty = TRUE]
      BY <1>2 DEF SpentEntry
    <3>3. e \in Entry /\ e.coin = Spent /\ e.dirty /\ ~e.fresh
      BY <1>2, <3>1, <3>2 DEF Entry
    <3> QED BY <3>3, CoinsAssumption
  <2> QED BY <2>1 DEF Coherent, Shown, Cache
<1> QED BY <1>1, <1>2

\* BatchWrite of a child cache c into a parent cache p over base: it does not
\* throw, the parent's flags stay right, and the parent then shows exactly what
\* the child showed.
LEMMA BatchWriteLemma ==
    ASSUME NEW c \in Cache, NEW p \in Cache, NEW base \in Map,
           Coherent(p, base), Coherent(c, Shown(p, base))
    PROVE  LET n == [o \in Outpoints |-> BatchWriteEntry(c[o], p[o])]
           IN  /\ ~ \E o \in Outpoints : FreshMisapplied(c[o], p[o])
               /\ n \in Cache
               /\ Coherent(n, base)
               /\ Shown(n, base) = Shown(c, Shown(p, base))
<1> DEFINE n == [o \in Outpoints |-> BatchWriteEntry(c[o], p[o])]
<1>1. ASSUME NEW o \in Outpoints
      PROVE  /\ ~FreshMisapplied(c[o], p[o])
             /\ n[o] \in Entry \cup {NoEntry}
             /\ n[o] # NoEntry =>
                  /\ n[o].fresh => base[o] = Spent /\ n[o].dirty
                  /\ ~n[o].dirty => n[o].coin = base[o]
                  /\ n[o].coin = Spent => n[o].dirty /\ ~n[o].fresh
             /\ (IF n[o] = NoEntry THEN base[o] ELSE n[o].coin)
                  = (IF c[o] = NoEntry THEN Shown(p, base)[o] ELSE c[o].coin)
  <2>1. /\ c[o] \in Entry \cup {NoEntry}
        /\ p[o] \in Entry \cup {NoEntry}
        /\ n[o] = BatchWriteEntry(c[o], p[o])
        /\ Shown(p, base)[o] = IF p[o] = NoEntry THEN base[o] ELSE p[o].coin
    BY DEF Cache, Shown
  <2>2. CASE c[o] = NoEntry \/ ~c[o].dirty
    BY <2>1, <2>2 DEF BatchWriteEntry, FreshMisapplied, Coherent
  <2>3. CASE c[o] # NoEntry /\ c[o].dirty
    <3>1. MergedFresh(c[o], p[o]) \in BOOLEAN
      BY <2>1, <2>3 DEF MergedFresh, Entry
    <3>2. MergedFresh(c[o], p[o]) => base[o] = Spent
      BY <2>1, <2>3 DEF MergedFresh, Coherent
    <3>3. ~FreshMisapplied(c[o], p[o])
      BY <2>1, <2>3 DEF FreshMisapplied, Coherent
    <3>4. CASE c[o].coin = Spent /\ MergedFresh(c[o], p[o])
      BY <2>1, <2>3, <3>2, <3>3, <3>4 DEF BatchWriteEntry
    <3>5. CASE ~(c[o].coin = Spent /\ MergedFresh(c[o], p[o]))
      <4> DEFINE m == [coin |-> c[o].coin, dirty |-> TRUE,
                       fresh |-> MergedFresh(c[o], p[o])]
      <4>1. n[o] = m
        BY <2>1, <2>3, <3>5 DEF BatchWriteEntry
      <4>2. m \in Entry /\ m # NoEntry
        <5>1. m \in Entry
          BY <2>1, <2>3, <3>1 DEF Entry
        <5> QED BY <5>1, CoinsAssumption
      <4> QED BY <4>1, <4>2, <3>2, <3>3, <3>5, <2>3, SMTT(30)
    <3> QED BY <3>4, <3>5
  <2> QED BY <2>2, <2>3
<1>2. n \in Cache
  BY <1>1 DEF Cache
<1>3. Coherent(n, base)
  BY <1>1 DEF Coherent
<1>4. Shown(n, base) = Shown(c, Shown(p, base))
  BY <1>1 DEF Shown
<1> QED BY <1>1, <1>2, <1>3, <1>4

\* CCoinsViewDB::BatchWrite: skipping the entries that are not DIRTY loses
\* nothing; the database then holds exactly what the cache showed.
LEMMA DBWriteLemma ==
    ASSUME NEW c \in Cache, NEW base \in Map, Coherent(c, base)
    PROVE  DBWrite(c, base) = Shown(c, base)
BY DEF DBWrite, Shown, Coherent, Cache

\* An empty cache shows its parent and is coherent with it.
LEMMA EmptyLemma ==
    ASSUME NEW base \in Map
    PROVE  /\ Empty \in Cache
           /\ Coherent(Empty, base)
           /\ Shown(Empty, base) = base
BY DEF Empty, Cache, Coherent, Shown, Map

-----------------------------------------------------------------------------
(* The two levels.  IInv is inductive: besides the promise of the flags it   *)
(* needs that no exception is pending and that a closed view has no entries. *)

IInv ==
    /\ TypeOK
    /\ FlagsMeanWhatTheySay
    /\ NoLogicError
    /\ ~open => view = Empty

\* What the abstract specification sees of a state.
Seen == <<db, TipShown, ViewShown, open, dbBest, GetBestBlock>>

\* Two caches t and v that show the same as the current tip and view do.
SameShown(t, v) ==
    /\ t \in Cache /\ Coherent(t, db) /\ Shown(t, db) = TipShown
    /\ v \in Cache /\ Coherent(v, TipShown) /\ Shown(v, TipShown) = ViewShown
    /\ ~open => v = Empty

\* What the levels show is a map; a closed view shows what tip shows.
LEMMA ShownFacts ==
    ASSUME IInv
    PROVE  /\ TipShown \in Map
           /\ ViewShown \in Map
           /\ ~open => ViewShown = TipShown
<1>1. TipShown \in Map
  BY ShownType DEF IInv, TypeOK, TipShown
<1>2. ViewShown \in Map
  BY <1>1, ShownType DEF IInv, TypeOK, ViewShown
<1>3. ~open => ViewShown = TipShown
  BY <1>1, EmptyLemma DEF IInv, ViewShown
<1> QED BY <1>1, <1>2, <1>3

\* The caches as they are show the same as themselves.
LEMMA SameLemma ==
    ASSUME IInv
    PROVE  SameShown(tip, view)
BY DEF IInv, TypeOK, FlagsMeanWhatTheySay, SameShown, TipShown, ViewShown

\* A read through the top cache changes what no level shows, and leaves no entry
\* at o in the top cache only where there is no unspent coin.
LEMMA ReadLemma ==
    ASSUME IInv, NEW o \in Outpoints
    PROVE  /\ SameShown(TipAfterRead(o), ViewAfterRead(o))
           /\ TopEntryAfterRead(o) = NoEntry => ViewShown[o] = Spent
<1>0. /\ tip \in Cache /\ view \in Cache /\ db \in Map
      /\ Coherent(tip, db) /\ Coherent(view, TipShown)
  BY DEF IInv, TypeOK, FlagsMeanWhatTheySay
<1>1. /\ TipAfterRead(o) \in Cache
      /\ Coherent(TipAfterRead(o), db)
      /\ Shown(TipAfterRead(o), db) = TipShown
  BY <1>0, FetchLemma DEF TipAfterRead, TipShown
<1>2. /\ ViewAfterRead(o) \in Cache
      /\ Coherent(ViewAfterRead(o), TipShown)
      /\ Shown(ViewAfterRead(o), TipShown) = ViewShown
  BY <1>0, ShownFacts, FetchLemma DEF ViewAfterRead, ViewShown
<1>3. ~open => ViewAfterRead(o) = Empty
  BY DEF IInv, ViewAfterRead
<1>4. CASE open
  <2>1. TopEntryAfterRead(o) = FetchCoin(view, TipShown, o)[o]
    BY <1>4 DEF TopEntryAfterRead, ViewAfterRead
  <2>2. SUFFICES ASSUME FetchCoin(view, TipShown, o)[o] = NoEntry
                 PROVE  TipShown[o] = Spent /\ view[o] = NoEntry
    BY <1>1, <1>2, <1>3, <2>1 DEF SameShown, ViewShown, Shown
  <2>3. FetchCoin(view, TipShown, o) = view \/ TipShown[o] # Spent
    BY DEF FetchCoin
  <2>4. ~(view[o] = NoEntry /\ TipShown[o] # Spent)
    <3>1. SUFFICES ASSUME view[o] = NoEntry, TipShown[o] # Spent
                   PROVE  FALSE
      OBVIOUS
    <3> DEFINE e == [coin |-> TipShown[o], dirty |-> FALSE, fresh |-> FALSE]
    <3>2. e \in Entry
      BY ShownFacts DEF Entry, Map
    <3>3. FetchCoin(view, TipShown, o)[o] = e
      BY <3>1, <1>0 DEF FetchCoin, Cache
    <3> QED BY <3>2, <3>3, <2>2, CoinsAssumption
  <2> QED BY <2>2, <2>4 DEF FetchCoin
<1>5. CASE ~open
  <2>1. TopEntryAfterRead(o) = FetchCoin(tip, db, o)[o]
    BY <1>5 DEF TopEntryAfterRead, TipAfterRead
  <2>2. SUFFICES ASSUME FetchCoin(tip, db, o)[o] = NoEntry
                 PROVE  TipShown[o] = Spent
    BY <1>1, <1>2, <1>3, <1>5, <2>1, ShownFacts DEF SameShown
  <2>3. ~(tip[o] = NoEntry /\ db[o] # Spent)
    <3>1. SUFFICES ASSUME tip[o] = NoEntry, db[o] # Spent
                   PROVE  FALSE
      OBVIOUS
    <3> DEFINE e == [coin |-> db[o], dirty |-> FALSE, fresh |-> FALSE]
    <3>2. e \in Entry
      BY <1>0 DEF Entry, Map
    <3>3. FetchCoin(tip, db, o)[o] = e
      BY <3>1, <1>0 DEF FetchCoin, Cache
    <3> QED BY <3>2, <3>3, <2>2, CoinsAssumption
  <2> QED BY <2>2, <2>3, <1>0 DEF FetchCoin, TipShown, Shown
<1> QED BY <1>4, <1>5

\* A step that only replaces the caches by ones that show the same is invisible.
LEMMA InvisibleStep ==
    ASSUME IInv, SameShown(tip', view'),
           UNCHANGED <<db, dbBest, tipHash, open, replaying, thrown>>
    PROVE  IInv' /\ UNCHANGED Seen
<1>1. TipShown' = TipShown /\ ViewShown' = ViewShown
  BY DEF SameShown, TipShown, ViewShown
<1>2. UNCHANGED Seen
  BY <1>1 DEF Seen, GetBestBlock
<1>3. TypeOK' /\ NoLogicError'
  BY DEF IInv, TypeOK, NoLogicError, SameShown
<1>4. FlagsMeanWhatTheySay'
  BY <1>1 DEF FlagsMeanWhatTheySay, SameShown
<1> QED BY <1>2, <1>3, <1>4 DEF IInv, SameShown

\* A step that gives the top cache an entry e at o, such that the top cache stays
\* coherent and shows x at o, is an abstract write of x at o.
LEMMA PutStep ==
    ASSUME IInv, NEW o \in Outpoints, NEW t, NEW v, NEW e,
           NEW x \in Coins \cup {Spent},
           SameShown(t, v), SetTop(o, e, t, v),
           UNCHANGED <<db, dbBest, tipHash, open, replaying, thrown>>,
           open => LET n == [v EXCEPT ![o] = e]
                   IN  /\ n \in Cache /\ Coherent(n, TipShown)
                       /\ Shown(n, TipShown) = [ViewShown EXCEPT ![o] = x],
           ~open => LET n == [t EXCEPT ![o] = e]
                    IN  /\ n \in Cache /\ Coherent(n, db)
                        /\ Shown(n, db) = [TipShown EXCEPT ![o] = x]
    PROVE  IInv' /\ Utxo!Put(o, x)
<1>0. TipShown \in Map /\ (~open => ViewShown = TipShown)
  BY ShownFacts
<1>1. CASE open
  <2>1. tip' = t /\ view' = [v EXCEPT ![o] = e] /\ db' = db
    BY <1>1 DEF SetTop
  <2>2. TipShown' = TipShown
    BY <2>1 DEF TipShown, SameShown
  <2>3. ViewShown' = [ViewShown EXCEPT ![o] = x]
    BY <1>1, <2>1, <2>2 DEF ViewShown
  <2>4. IInv'
    BY <1>1, <2>1, <2>2
    DEF IInv, TypeOK, FlagsMeanWhatTheySay, NoLogicError, SameShown
  <2>5. GetBestBlock' = GetBestBlock
    BY DEF GetBestBlock
  <2> QED BY <1>1, <2>2, <2>3, <2>4, <2>5 DEF Utxo!Put
<1>2. CASE ~open
  <2>1. tip' = [t EXCEPT ![o] = e] /\ view' = Empty /\ db' = db /\ ~open'
    BY <1>2 DEF SetTop, SameShown
  <2>2. TipShown' = [TipShown EXCEPT ![o] = x]
    BY <1>2, <2>1 DEF TipShown
  <2>3. TipShown' \in Map
    BY <1>0, <2>2 DEF Map
  <2>4. ViewShown' = TipShown' /\ Coherent(view', TipShown') /\ view' \in Cache
    BY <2>1, <2>3, EmptyLemma DEF ViewShown
  <2>5. IInv'
    BY <1>2, <2>1, <2>4
    DEF IInv, TypeOK, FlagsMeanWhatTheySay, NoLogicError
  <2>6. GetBestBlock' = GetBestBlock
    BY DEF GetBestBlock
  <2> QED BY <1>0, <1>2, <2>2, <2>4, <2>5, <2>6 DEF Utxo!Put
<1> QED BY <1>1, <1>2

\* AddCoin on the top cache is an abstract write, or nothing for an unspendable
\* coin, when possible_overwrite is false only where no unspent coin is shown.
LEMMA AddStep ==
    ASSUME IInv, NEW o \in Outpoints, NEW c \in Coins, NEW po \in BOOLEAN,
           NEW t, NEW v, NEW e,
           SameShown(t, v), e = IF open THEN v[o] ELSE t[o],
           po \/ ViewShown[o] = Spent,
           AddCoin(o, c, po, e, t, v),
           UNCHANGED <<db, dbBest, tipHash, open, replaying>>
    PROVE  IInv' /\ (IF c \in Unspendable THEN UNCHANGED Seen ELSE Utxo!Add(o, c))
<1>1. CASE c \in Unspendable
  BY <1>1, InvisibleStep DEF AddCoin
<1>2. CASE c \notin Unspendable
  <2>0. /\ SetTop(o, AddedEntry(e, c, po), t, v)
        /\ thrown' = AddThrows(e, po)
    BY <1>2 DEF AddCoin
  <2>1. TipShown \in Map /\ db \in Map /\ (~open => ViewShown = TipShown)
    BY ShownFacts DEF IInv, TypeOK
  <2>2. open => LET n == [v EXCEPT ![o] = AddedEntry(e, c, po)]
                IN  /\ ~AddThrows(e, po)
                    /\ n \in Cache /\ Coherent(n, TipShown)
                    /\ Shown(n, TipShown) = [ViewShown EXCEPT ![o] = c]
    BY <2>1, AddLemma, SMTT(30) DEF SameShown
  <2>3. ~open => LET n == [t EXCEPT ![o] = AddedEntry(e, c, po)]
                 IN  /\ ~AddThrows(e, po)
                     /\ n \in Cache /\ Coherent(n, db)
                     /\ Shown(n, db) = [TipShown EXCEPT ![o] = c]
    BY <2>1, AddLemma, SMTT(30) DEF SameShown
  <2>4. thrown' = thrown
    BY <2>0, <2>2, <2>3 DEF IInv, NoLogicError, TypeOK, AddThrows
  <2>5. IInv' /\ Utxo!Put(o, c)
    BY <2>0, <2>2, <2>3, <2>4, PutStep
  <2> QED BY <1>2, <2>5 DEF Utxo!Add
<1> QED BY <1>1, <1>2

\* SpendCoin on the top cache is an abstract Spend.
LEMMA SpendStep ==
    ASSUME IInv, NEW o \in Outpoints, SpendCoin(o)
    PROVE  IInv' /\ Utxo!Spend(o)
<1> DEFINE t == TipAfterRead(o)
           v == ViewAfterRead(o)
           e == TopEntryAfterRead(o)
<1>1. SameShown(t, v) /\ (e = NoEntry => ViewShown[o] = Spent)
  BY ReadLemma
<1>2. /\ SetTop(o, SpentEntry(e), t, v)
      /\ UNCHANGED <<db, dbBest, tipHash, open, replaying, thrown>>
  BY DEF SpendCoin
<1>3. TipShown \in Map /\ db \in Map /\ (~open => ViewShown = TipShown)
  BY ShownFacts DEF IInv, TypeOK
<1>4. open => LET n == [v EXCEPT ![o] = SpentEntry(e)]
              IN  /\ n \in Cache /\ Coherent(n, TipShown)
                  /\ Shown(n, TipShown) = [ViewShown EXCEPT ![o] = Spent]
  <2> HAVE open
  <2>1. e = v[o]
    BY DEF TopEntryAfterRead
  <2>2. v[o] = NoEntry => TipShown[o] = Spent
    BY <1>1, <2>1 DEF SameShown, Shown
  <2> QED BY <1>1, <1>3, <2>1, <2>2, SpendLemma, SMTT(30) DEF SameShown
<1>5. ~open => LET n == [t EXCEPT ![o] = SpentEntry(e)]
               IN  /\ n \in Cache /\ Coherent(n, db)
                   /\ Shown(n, db) = [TipShown EXCEPT ![o] = Spent]
  <2> HAVE ~open
  <2>1. e = t[o]
    BY DEF TopEntryAfterRead
  <2>2. t[o] = NoEntry => db[o] = Spent
    BY <1>1, <1>3, <2>1 DEF SameShown, Shown
  <2> QED BY <1>1, <1>3, <2>1, <2>2, SpendLemma, SMTT(30) DEF SameShown
<1>6. IInv' /\ Utxo!Put(o, Spent)
  <2> HIDE DEF t, v, e
  <2> QED BY <1>1, <1>2, <1>4, <1>5, PutStep
<1> QED BY <1>6 DEF Utxo!Spend

-----------------------------------------------------------------------------
(* The theorems. *)

\* The initial state satisfies the invariant and is the abstract initial state.
LEMMA InitLemma == Init => IInv /\ Utxo!Init
<1> SUFFICES ASSUME Init PROVE IInv /\ Utxo!Init
  OBVIOUS
<1> DEFINE none == [o \in Outpoints |-> Spent]
<1>1. none \in Map
  BY DEF Map
<1>2. db = none /\ tip = Empty /\ view = Empty
  BY DEF Init
<1>3. /\ Empty \in Cache /\ Coherent(Empty, none)
      /\ Shown(Empty, none) = none
  BY <1>1, EmptyLemma
<1>4. TipShown = none /\ ViewShown = none
  BY <1>2, <1>3 DEF TipShown, ViewShown
<1>5. GetBestBlock = NullHash
  BY DEF GetBestBlock, Init
<1>6. IInv
  BY <1>1, <1>2, <1>3, <1>4
  DEF IInv, TypeOK, FlagsMeanWhatTheySay, NoLogicError, Init
<1> QED BY <1>2, <1>4, <1>5, <1>6 DEF Utxo!Init, Init

\* Every step of the node preserves the invariant, and is a step of the abstract
\* specification or leaves all it sees unchanged; the calls are the steps they name.
LEMMA NextLemma ==
    IInv /\ [Next]_vars => IInv' /\ [Utxo!Next]_Seen /\ CallsTakeEffect
<1> SUFFICES ASSUME IInv, [Next]_vars
             PROVE  IInv' /\ [Utxo!Next]_Seen /\ CallsTakeEffect
  OBVIOUS
<1>0. /\ TipShown \in Map /\ ViewShown \in Map
      /\ (~open => ViewShown = TipShown)
      /\ TypeOK /\ FlagsMeanWhatTheySay /\ ~thrown
  BY ShownFacts DEF IInv, NoLogicError
<1>1. ASSUME NEW o \in Outpoints, Read(o)
      PROVE  IInv' /\ UNCHANGED Seen
  BY <1>1, ReadLemma, InvisibleStep DEF Read
<1>2. ASSUME NEW o \in Outpoints, SpendCoin(o)
      PROVE  IInv' /\ Utxo!Next /\ Utxo!Spend(o)
  BY <1>2, SpendStep DEF Utxo!Next
<1>3. ASSUME NEW o \in Outpoints, Uncache(o)
      PROVE  IInv' /\ UNCHANGED Seen
  <2>1. /\ tip[o] # NoEntry /\ ~tip[o].dirty /\ view' = view
        /\ tip' = [tip EXCEPT ![o] = NoEntry]
        /\ UNCHANGED <<db, dbBest, tipHash, open, replaying, thrown>>
    BY <1>3 DEF Uncache
  <2>2. tip' \in Cache /\ Coherent(tip', db)
    BY <1>0, <2>1 DEF Cache, Coherent, TypeOK, FlagsMeanWhatTheySay
  <2>3. Shown(tip', db) = Shown(tip, db)
    BY <1>0, <2>1 DEF Cache, Coherent, Shown, TypeOK, FlagsMeanWhatTheySay
  <2>4. SameShown(tip', view')
    BY <2>1, <2>2, <2>3, SameLemma DEF SameShown, TipShown
  <2> QED BY <2>1, <2>4, InvisibleStep
<1>4. ASSUME NEW o \in Outpoints, NEW c \in Coins, AddCoinChecked(o, c)
      PROVE  IInv' /\ (IF c \in Unspendable THEN UNCHANGED Seen
                       ELSE Utxo!Next /\ Utxo!Add(o, c))
  <2> DEFINE t == TipAfterRead(o)
             v == ViewAfterRead(o)
             e == TopEntryAfterRead(o)
  <2>1. SameShown(t, v)
    BY ReadLemma
  <2>2. e = IF open THEN v[o] ELSE t[o]
    BY DEF TopEntryAfterRead
  <2>3. HaveCoin(o) \in BOOLEAN /\ (HaveCoin(o) \/ ViewShown[o] = Spent)
    BY DEF HaveCoin
  <2>4. /\ AddCoin(o, c, HaveCoin(o), e, t, v)
        /\ UNCHANGED <<db, dbBest, tipHash, open, replaying>>
    BY <1>4 DEF AddCoinChecked
  <2>5. IInv' /\ (IF c \in Unspendable THEN UNCHANGED Seen ELSE Utxo!Add(o, c))
    <3> HIDE DEF t, v, e
    <3> QED BY <2>1, <2>2, <2>3, <2>4, AddStep
  <2> QED BY <2>5 DEF Utxo!Next
<1>5. ASSUME NEW o \in Outpoints, NEW c \in Coins, NEW fCoinbase \in BOOLEAN,
             AddCoinsOfBlock(o, c, fCoinbase)
      PROVE  IInv' /\ (IF c \in Unspendable THEN UNCHANGED Seen
                       ELSE Utxo!Next /\ Utxo!Add(o, c))
  <2>1. /\ AddCoin(o, c, fCoinbase, IF open THEN view[o] ELSE tip[o], tip, view)
        /\ fCoinbase \/ ViewShown[o] = Spent
        /\ UNCHANGED <<db, dbBest, tipHash, open, replaying>>
    BY <1>5 DEF AddCoinsOfBlock, TopEntry, HaveCoin
  <2>2. IInv' /\ (IF c \in Unspendable THEN UNCHANGED Seen ELSE Utxo!Add(o, c))
    BY <2>1, SameLemma, AddStep
  <2> QED BY <2>2 DEF Utxo!Next
<1>6. ASSUME OpenView
      PROVE  IInv' /\ Utxo!Next
  <2>1. /\ ~open /\ open' /\ view' = Empty /\ open' = TRUE
        /\ UNCHANGED <<db, dbBest, tip, tipHash, replaying, thrown>>
    BY <1>6 DEF OpenView
  <2>2. TipShown' = TipShown /\ GetBestBlock' = GetBestBlock
    BY <2>1 DEF TipShown, GetBestBlock
  <2>3. ViewShown' = TipShown /\ Coherent(view', TipShown) /\ view' \in Cache
    BY <1>0, <2>1, <2>2, EmptyLemma DEF ViewShown
  <2>4. IInv'
    BY <1>0, <2>1, <2>2, <2>3
    DEF IInv, TypeOK, FlagsMeanWhatTheySay, NoLogicError
  <2> QED BY <1>0, <2>1, <2>2, <2>3, <2>4 DEF Utxo!Next, Utxo!Open
<1>7. ASSUME DropView
      PROVE  IInv' /\ Utxo!Next
  <2>1. /\ open /\ ~open' /\ view' = Empty /\ open' = FALSE
        /\ UNCHANGED <<db, dbBest, tip, tipHash, replaying, thrown>>
    BY <1>7 DEF DropView
  <2>2. TipShown' = TipShown /\ GetBestBlock' = GetBestBlock
    BY <2>1 DEF TipShown, GetBestBlock
  <2>3. ViewShown' = TipShown /\ Coherent(view', TipShown) /\ view' \in Cache
    BY <1>0, <2>1, <2>2, EmptyLemma DEF ViewShown
  <2>4. IInv'
    BY <1>0, <2>1, <2>2, <2>3
    DEF IInv, TypeOK, FlagsMeanWhatTheySay, NoLogicError
  <2> QED BY <2>1, <2>2, <2>3, <2>4 DEF Utxo!Next, Utxo!Discard
<1>8. ASSUME NEW b \in Blocks, FlushView(b)
      PROVE  IInv' /\ Utxo!Next /\ Utxo!Commit(b)
  <2>1. /\ open /\ ~open' /\ view' = Empty /\ tipHash' = b /\ open' = FALSE
        /\ tip' = [o \in Outpoints |-> BatchWriteEntry(view[o], tip[o])]
        /\ thrown' = \E o \in Outpoints : FreshMisapplied(view[o], tip[o])
        /\ UNCHANGED <<db, dbBest, replaying>>
    BY <1>8 DEF FlushView
  <2>2. /\ ~ \E o \in Outpoints : FreshMisapplied(view[o], tip[o])
        /\ tip' \in Cache /\ Coherent(tip', db)
        /\ Shown(tip', db) = ViewShown
    BY <1>0, <2>1, BatchWriteLemma
    DEF TypeOK, FlagsMeanWhatTheySay, TipShown, ViewShown
  <2>3. TipShown' = ViewShown
    BY <2>1, <2>2 DEF TipShown
  <2>4. ViewShown' = ViewShown /\ Coherent(view', TipShown') /\ view' \in Cache
    BY <1>0, <2>1, <2>3, EmptyLemma DEF ViewShown
  <2>5. GetBestBlock' = b
    BY <2>1, CoinsAssumption DEF GetBestBlock
  <2>6. IInv'
    BY <1>0, <2>1, <2>2, <2>4
    DEF IInv, TypeOK, FlagsMeanWhatTheySay, NoLogicError
  <2> QED BY <2>1, <2>3, <2>4, <2>5, <2>6 DEF Utxo!Next, Utxo!Commit
<1>9. ASSUME NEW b \in Blocks, FlushTip(b)
      PROVE  IInv' /\ Utxo!Next /\ Utxo!Flush(b)
  <2>1. /\ ~open /\ db' = DBWrite(tip, db) /\ dbBest' = b /\ tip' = Empty
        /\ tipHash' \in {NullHash, b} /\ replaying' = FALSE
        /\ view' = view /\ open' = open /\ thrown' = thrown
    BY <1>9 DEF FlushTip
  <2>2. db' = TipShown
    BY <1>0, <2>1, DBWriteLemma DEF TypeOK, FlagsMeanWhatTheySay, TipShown
  <2>3. TipShown' = TipShown /\ Coherent(tip', db') /\ tip' \in Cache
    BY <1>0, <2>1, <2>2, EmptyLemma DEF TipShown
  <2>4. view' = Empty
    BY <2>1 DEF IInv
  <2>5. ViewShown' = TipShown /\ Coherent(view', TipShown') /\ view' \in Cache
    BY <1>0, <2>3, <2>4, EmptyLemma DEF ViewShown
  <2>6. GetBestBlock' = b
    BY <2>1 DEF GetBestBlock
  <2>7. IInv'
    BY <1>0, <2>1, <2>2, <2>3, <2>4, <2>5
    DEF IInv, TypeOK, FlagsMeanWhatTheySay, NoLogicError
  <2> QED BY <1>0, <2>1, <2>2, <2>3, <2>5, <2>6, <2>7 DEF Utxo!Next, Utxo!Flush
<1>10. ASSUME NoReplay
       PROVE  IInv' /\ UNCHANGED Seen
  BY <1>10 DEF NoReplay, IInv, TypeOK, FlagsMeanWhatTheySay, NoLogicError,
     Seen, TipShown, ViewShown, GetBestBlock
<1>11. ASSUME Restart
       PROVE  IInv' /\ Utxo!Next
  <2>1. /\ tip' = Empty /\ view' = Empty /\ open' = FALSE /\ thrown' = FALSE
        /\ tipHash' = NullHash /\ replaying' = TRUE /\ db' = db /\ dbBest' = dbBest
    BY <1>11 DEF Restart
  <2>2. db \in Map
    BY <1>0 DEF TypeOK
  <2>3. TipShown' = db /\ Coherent(tip', db') /\ tip' \in Cache
    BY <2>1, <2>2, EmptyLemma DEF TipShown
  <2>4. ViewShown' = db /\ Coherent(view', TipShown') /\ view' \in Cache
    BY <2>1, <2>2, <2>3, EmptyLemma DEF ViewShown
  <2>5. GetBestBlock' = dbBest
    BY <2>1 DEF GetBestBlock
  <2>6. IInv'
    BY <1>0, <2>1, <2>3, <2>4
    DEF IInv, TypeOK, FlagsMeanWhatTheySay, NoLogicError
  <2> QED BY <2>1, <2>3, <2>4, <2>5, <2>6 DEF Utxo!Next, Utxo!Crash
<1>12. ASSUME UNCHANGED vars
       PROVE  IInv' /\ UNCHANGED Seen
  BY <1>12 DEF vars, IInv, TypeOK, FlagsMeanWhatTheySay, NoLogicError,
     Seen, TipShown, ViewShown, GetBestBlock
<1>13. CallsTakeEffect
  BY <1>2, <1>4, <1>5, <1>8, <1>9 DEF CallsTakeEffect
<1>14. IInv' /\ [Utxo!Next]_Seen
  BY <1>1, <1>2, <1>3, <1>4, <1>5, <1>6, <1>7, <1>8, <1>9, <1>10, <1>11, <1>12
  DEF Next
<1> QED BY <1>13, <1>14

\* The inductive invariant holds in every reachable state.
THEOREM Invariance == Spec => []IInv
<1>1. Init => IInv
  BY InitLemma
<1>2. IInv /\ [Next]_vars => IInv'
  BY NextLemma
<1> QED BY <1>1, <1>2, PTL DEF Spec

\* Every variable keeps its type.
THEOREM TypeCorrect == Spec => []TypeOK
BY Invariance, PTL DEF IInv

\* DIRTY and FRESH mean what coins.h says they mean, in both caches, always.
THEOREM FlagsCorrect == Spec => []FlagsMeanWhatTheySay
BY Invariance, PTL DEF IInv

\* No call of the node's makes AddCoin or BatchWrite throw std::logic_error.
THEOREM NeverThrows == Spec => []NoLogicError
BY Invariance, PTL DEF IInv

\* CoinsCache implements UtxoSet, call by call: the caches and their flags are invisible.
THEOREM Refinement == Spec => CachesAreInvisible
<1>1. Init => Utxo!Init
  BY InitLemma
<1>2. IInv /\ [Next]_vars => [Utxo!Next]_(Utxo!utxoVars)
  BY NextLemma DEF Seen, Utxo!utxoVars
<1>3. IInv /\ [Next]_vars => [CallsTakeEffect]_vars
  BY NextLemma
<1> QED BY <1>1, <1>2, <1>3, Invariance, PTL DEF Spec, CachesAreInvisible, Utxo!Spec
=============================================================================
