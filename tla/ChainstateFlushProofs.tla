------------------------ MODULE ChainstateFlushProofs ------------------------
(***************************************************************************)
(* ChainstateFlush for every block tree and any number of crashes: the     *)
(* coins database and the block index database mean what they say.         *)
(*                                                                         *)
(* While a flush is under way the database is a mixture of two chains'     *)
(* coins, outpoint by outpoint; that ReplayBlocks keeps its view such a    *)
(* mixture of the block it has reached and the block it goes to is why it  *)
(* ends with the coins of the latter.                                      *)
(*                                                                         *)
(* The index is written before the coins, so that as long as nothing was   *)
(* pruned every block a start asks for is known; and block data is         *)
(* committed to disk before the index names it, so that only undo data can *)
(* be missing.                                                             *)
(***************************************************************************)
EXTENDS ChainstateFlush, TLAPS

\* The prover of a step that names no other.
USE ZenonT(120)

Up == {"run", "files", "index", "unlink", "coins"}

\* u is, at every outpoint, the coin of a's chain or that of b's.
Mixed(u, a, b) ==
    /\ u = [o \in Outpoints |-> u[o]]
    /\ \A o \in Outpoints : u[o] = UtxoAt[a][o] \/ u[o] = UtxoAt[b][o]

\* The block whose coins an empty database, or one at block b, has.
At(b) == IF b = NoBlock THEN Genesis ELSE b

\* The inductive invariant of the coins.
CoinsInv ==
    /\ tip \in Blocks
    /\ best \in Blocks \cup {NoBlock}
    /\ heads = <<>> \/ heads \in Blocks \X (Blocks \cup {NoBlock})
    /\ heads = <<>> => db = UtxoAt[At(best)]
    /\ heads # <<>> => best = NoBlock /\ Mixed(db, heads[1], At(heads[2]))
    /\ pc \in {"run", "files", "index", "unlink"} => heads = <<>>
    /\ pc \in Up => view = UtxoAt[tip]
    /\ pc = "coins" /\ heads # <<>> => heads[1] = tip
    /\ pc \in {"rollback", "forward"} =>
          /\ heads # <<>> /\ heads[1] = tip
          /\ cursor \in Blocks /\ Mixed(view, cursor, tip)
    /\ pc = "forward" => cursor \in Path[tip]

\* The coins of a block are a function on the outpoints, and those after a block are the
\* block applied to those of its parent (UpdateCoins).
LEMMA UtxoOfChild ==
    ASSUME NEW b \in Blocks
    PROVE  /\ b # Genesis => Parent[b] \in Blocks /\ UtxoAt[b] = Applied(UtxoAt[Parent[b]], b)
           /\ UtxoAt[b] = [o \in Outpoints |-> UtxoAt[b][o]]
<1>1. b # Genesis => Parent[b] \in Blocks /\ UtxoAt[b] = Applied(UtxoAt[Parent[b]], b)
  BY TreeAssumption
<1>2. CASE b = Genesis
  BY <1>1, <1>2, TreeAssumption
<1>3. CASE b # Genesis
  BY <1>1, <1>3 DEF Applied
<1> QED
  BY <1>1, <1>2, <1>3

\* The coins before and after a block agree but for what the block spends and creates.
LEMMA UtxoStep ==
    ASSUME NEW b \in Blocks, b # Genesis, NEW o \in Outpoints
    PROVE  /\ o \in Spends[b] => UtxoAt[b][o] = 0
           /\ o \in Creates[b] /\ o \notin Spends[b] => UtxoAt[b][o] = Height(b)
           /\ o \in Creates[b] => UtxoAt[Parent[b]][o] = 0
           /\ o \notin Creates[b] /\ o \notin Spends[b] => UtxoAt[b][o] = UtxoAt[Parent[b]][o]
<1>1. UtxoAt[b] = Applied(UtxoAt[Parent[b]], b)
  BY UtxoOfChild
<1>2. UtxoAt[b][o] = IF o \in Spends[b] THEN 0
                     ELSE IF o \in Creates[b] THEN Height(b) ELSE UtxoAt[Parent[b]][o]
  BY <1>1 DEF Applied
<1>3. o \in Creates[b] => UtxoAt[Parent[b]][o] = 0
  BY CreatesAssumption
<1> QED
  BY <1>2, <1>3

\* DisconnectBlock undoes ConnectBlock.
LEMMA UndoneApplied ==
    ASSUME NEW b \in Blocks, b # Genesis
    PROVE  Undone(UtxoAt[b], b) = UtxoAt[Parent[b]]
<1>1. UtxoAt[Parent[b]] = [o \in Outpoints |-> UtxoAt[Parent[b]][o]]
  BY UtxoOfChild
<1>2. ASSUME NEW o \in Outpoints PROVE Undone(UtxoAt[b], b)[o] = UtxoAt[Parent[b]][o]
  BY UtxoStep DEF Undone
<1>3. Undone(UtxoAt[b], b) = [o \in Outpoints |-> Undone(UtxoAt[b], b)[o]]
  BY DEF Undone
<1> QED
  BY <1>1, <1>2, <1>3

\* Undoing the block reached keeps the view a mixture, of its parent (ReplayBlocks).
LEMMA UndoneMixed ==
    ASSUME NEW b \in Blocks, b # Genesis, NEW t, NEW u, Mixed(u, b, t)
    PROVE  Mixed(Undone(u, b), Parent[b], t)
<1>1. ASSUME NEW o \in Outpoints
      PROVE  Undone(u, b)[o] = UtxoAt[Parent[b]][o] \/ Undone(u, b)[o] = UtxoAt[t][o]
  <2>1. u[o] = UtxoAt[b][o] \/ u[o] = UtxoAt[t][o]
    BY DEF Mixed
  <2> QED
    BY <2>1, UtxoStep DEF Undone
<1>2. Undone(u, b) = [o \in Outpoints |-> Undone(u, b)[o]]
  BY DEF Undone
<1> QED
  BY <1>1, <1>2 DEF Mixed

\* Applying the next block keeps it a mixture, of that block (RollforwardBlock).
LEMMA AppliedMixed ==
    ASSUME NEW b \in Blocks, b # Genesis, NEW t, NEW u, Mixed(u, Parent[b], t)
    PROVE  Mixed(Applied(u, b), b, t)
<1>1. ASSUME NEW o \in Outpoints
      PROVE  Applied(u, b)[o] = UtxoAt[b][o] \/ Applied(u, b)[o] = UtxoAt[t][o]
  <2>1. u[o] = UtxoAt[Parent[b]][o] \/ u[o] = UtxoAt[t][o]
    BY DEF Mixed
  <2> QED
    BY <2>1, UtxoStep DEF Applied
<1>2. Applied(u, b) = [o \in Outpoints |-> Applied(u, b)[o]]
  BY DEF Applied
<1> QED
  BY <1>1, <1>2 DEF Mixed

\* A mixture of a chain's coins with themselves is those coins.
LEMMA MixedSame ==
    ASSUME NEW b \in Blocks, NEW u, Mixed(u, b, b)
    PROVE  u = UtxoAt[b]
BY UtxoOfChild DEF Mixed

\* A chain's coins are a mixture with any other chain's.
LEMMA UtxoMixed ==
    ASSUME NEW a \in Blocks, NEW b \in Blocks
    PROVE  Mixed(UtxoAt[a], a, b) /\ Mixed(UtxoAt[a], b, a)
BY UtxoOfChild DEF Mixed
-----------------------------------------------------------------------------
\* The coins start out consistent (an empty database).
LEMMA CoinsInit == Init => CoinsInv
BY TreeAssumption DEF Init, CoinsInv, At, Up

\* ConnectTip moves the view to the coins of the new tip.
LEMMA CoinsConnect ==
    ASSUME CoinsInv, NEW b \in Blocks, ConnectTip(b)
    PROVE  CoinsInv'
<1>1. view' = UtxoAt[b]
  BY UtxoOfChild DEF ConnectTip, CoinsInv, Up
<1> QED
  BY <1>1 DEF ConnectTip, CoinsInv, Up, tree, coins, At, Mixed

\* DisconnectTip moves it back to the coins of the parent.
LEMMA CoinsDisconnect ==
    ASSUME CoinsInv, DisconnectTip
    PROVE  CoinsInv'
<1>1. tip \in Blocks /\ tip # Genesis /\ view = UtxoAt[tip]
  BY DEF DisconnectTip, CoinsInv, Up
<1>2. view' = UtxoAt[Parent[tip]] /\ Parent[tip] \in Blocks
  BY <1>1, UndoneApplied, UtxoOfChild DEF DisconnectTip
<1> QED
  BY <1>2 DEF DisconnectTip, CoinsInv, Up, tree, coins, At, Mixed

\* A partial batch leaves a mixture of the old tip's coins and the new tip's.
LEMMA CoinsPartialBatch ==
    ASSUME CoinsInv, NEW S, PartialBatch(S)
    PROVE  CoinsInv'
<1>1. tip \in Blocks /\ view = UtxoAt[tip] /\ OldTip \in Blocks \cup {NoBlock}
  BY DEF PartialBatch, CoinsInv, Up, OldTip
<1>2. At(OldTip) \in Blocks
  BY <1>1, TreeAssumption DEF At
<1>3. Mixed(db, tip, At(OldTip))
  <2>1. CASE heads = <<>>
    BY <1>1, <1>2, <2>1, UtxoMixed DEF CoinsInv, OldTip
  <2>2. CASE heads # <<>>
    BY <2>2 DEF CoinsInv, OldTip, PartialBatch
  <2> QED
    BY <2>1, <2>2
<1>4. Mixed(db', tip, At(OldTip))
  <2>1. db' = [o \in Outpoints |-> db'[o]]
    BY DEF PartialBatch
  <2>2. ASSUME NEW o \in Outpoints PROVE db'[o] = UtxoAt[tip][o] \/ db'[o] = UtxoAt[At(OldTip)][o]
    BY <1>1, <1>3 DEF PartialBatch, Mixed
  <2> QED
    BY <2>1, <2>2 DEF Mixed
<1>5. heads' = <<tip, OldTip>> /\ best' = NoBlock /\ pc' = "coins" /\ tip' = tip /\ view' = view
  BY DEF PartialBatch, memory
<1>6. heads' \in Blocks \X (Blocks \cup {NoBlock}) /\ heads' # <<>>
      /\ heads'[1] = tip /\ heads'[2] = OldTip
  BY <1>1, <1>5
<1>7. Mixed(db', heads'[1], At(heads'[2]))
  BY <1>4, <1>6
<1> QED
  BY <1>1, <1>5, <1>6, <1>7 DEF CoinsInv, Up, At, Mixed

\* The last batch leaves the coins of the tip.
LEMMA CoinsFinalBatch ==
    ASSUME CoinsInv, FinalBatch
    PROVE  CoinsInv'
<1>1. tip \in Blocks /\ view = UtxoAt[tip] /\ tip # NoBlock
  BY TreeAssumption DEF FinalBatch, CoinsInv, Up
<1> QED
  BY <1>1 DEF FinalBatch, CoinsInv, Up, memory, At, Mixed

\* A restart finds a consistent database, or a mixture ReplayBlocks starts from.
LEMMA CoinsStart ==
    ASSUME CoinsInv, Start
    PROVE  CoinsInv'
<1> USE DEF CoinsInv, Start, tree, coins
<1>1. CASE heads = <<>>
  BY <1>1, TreeAssumption DEF At, Up, Mixed
<1>2. CASE pc' = "failed"
  BY <1>2, TreeAssumption DEF At, Up, Mixed
<1>3. CASE heads # <<>> /\ pc' # "failed"
  <2>1. /\ pc' = IF heads[2] = NoBlock THEN "forward" ELSE "rollback"
        /\ tip' = heads[1]
        /\ cursor' = At(heads[2])
    BY <1>3 DEF At
  <2>2. tip' \in Blocks /\ cursor' \in Blocks /\ Genesis \in Path[tip']
    BY <1>3, <2>1, TreeAssumption, PathAssumption DEF At
  <2>3. Mixed(view', cursor', tip')
    BY <1>3, <2>1 DEF Mixed
  <2>4. pc' = "forward" => cursor' \in Path[tip']
    BY <2>1, <2>2 DEF At
  <2>5. pc' \notin Up
    BY <2>1 DEF Up
  <2>6. UNCHANGED <<heads, db, best>>
    OBVIOUS
  <2> QED
    BY <1>3, <2>1, <2>2, <2>3, <2>4, <2>5, <2>6 DEF Mixed, At
<1> QED
  BY <1>1, <1>2, <1>3

\* ReplayBlocks undoes a block of the old branch.
LEMMA CoinsRollback ==
    ASSUME CoinsInv, Rollback
    PROVE  CoinsInv'
<1>1. tip \in Blocks /\ cursor \in Blocks /\ Mixed(view, cursor, tip) /\ cursor # Genesis
  BY PathAssumption DEF CoinsInv, Rollback
<1>2. CASE pc' = "failed"
  BY <1>2 DEF CoinsInv, Rollback, tree, coins, Up, Mixed, At
<1>3. CASE pc' # "failed"
  <2>1. pc' = pc /\ pc = "rollback" /\ cursor' = Parent[cursor] /\ view' = Undone(view, cursor)
        /\ UNCHANGED <<tip, db, best, heads>>
    BY <1>3 DEF Rollback, tree, coins
  <2>2. Mixed(view', cursor', tip)
    BY <1>1, <2>1, UndoneMixed
  <2>3. cursor' \in Blocks
    BY <1>1, <2>1, UtxoOfChild
  <2> QED
    BY <2>1, <2>2, <2>3 DEF CoinsInv, Up, Mixed, At
<1> QED
  BY <1>2, <1>3

\* ReplayBlocks applies a block of the new branch.
LEMMA CoinsRollforward ==
    ASSUME CoinsInv, RollforwardBlock
    PROVE  CoinsInv'
<1> DEFINE b == CHOOSE x \in Path[tip] \ {Genesis} : Parent[x] = cursor
<1>1. tip \in Blocks /\ cursor \in Path[tip] \ {tip} /\ Mixed(view, cursor, tip)
  BY DEF CoinsInv, RollforwardBlock
<1>2. b \in Path[tip] \ {Genesis} /\ Parent[b] = cursor /\ b \in Blocks
  BY <1>1, PathAssumption
<1> HIDE DEF b
<1>3. CASE pc' = "failed"
  BY <1>3 DEF CoinsInv, RollforwardBlock, tree, coins, Up, Mixed, At
<1>4. CASE pc' # "failed"
  <2>1. pc' = pc /\ pc = "forward" /\ cursor' = b /\ view' = Applied(view, b)
        /\ UNCHANGED <<tip, db, best, heads>>
    BY <1>4 DEF RollforwardBlock, tree, coins, b
  <2>2. Mixed(view', cursor', tip)
    BY <1>1, <1>2, <2>1, AppliedMixed
  <2> QED
    BY <1>2, <2>1, <2>2 DEF CoinsInv, Up, Mixed, At
<1> QED
  BY <1>3, <1>4

\* ReplayBlocks has arrived: nothing of the old branch is left in the view.
LEMMA CoinsReplayed ==
    ASSUME CoinsInv, FlushReplayed
    PROVE  CoinsInv'
<1>1. tip \in Blocks /\ view = UtxoAt[tip]
  BY MixedSame DEF CoinsInv, FlushReplayed
<1> QED
  BY <1>1 DEF CoinsInv, FlushReplayed, memory, tree, coins, Up, Mixed, At

\* Every step keeps the invariant.
LEMMA CoinsNext == CoinsInv /\ [Next]_vars => CoinsInv'
<1> SUFFICES ASSUME CoinsInv, [Next]_vars PROVE CoinsInv'
  OBVIOUS
<1>1. ASSUME NEW b \in Blocks \ {Genesis}, AcceptBlock(b) PROVE CoinsInv'
  BY <1>1 DEF AcceptBlock, CoinsInv, tree, coins, Up, Mixed, At
<1>2. ASSUME NEW b \in Blocks, ConnectTip(b) PROVE CoinsInv'
  BY <1>2, CoinsConnect
<1>3. ASSUME NEW P, NEW f, BeginFlush(P, f) PROVE CoinsInv'
  BY <1>3 DEF BeginFlush, CoinsInv, Up, Mixed, At, memory, tree, coins
<1>4. CASE FlushBlockFile
  BY <1>4 DEF FlushBlockFile, AfterStage, CoinsInv, Up, Mixed, At, memory, tree, coins
<1>5. CASE WriteBlockIndex
  BY <1>5 DEF WriteBlockIndex, AfterStage, memory, CoinsInv, Up, Mixed, At, tree, coins
<1>6. CASE UnlinkPrunedFiles
  BY <1>6 DEF UnlinkPrunedFiles, AfterStage, memory, CoinsInv, Up, Mixed, At, tree, coins
<1>7. ASSUME NEW S, PartialBatch(S) PROVE CoinsInv'
  BY <1>7, CoinsPartialBatch
<1>8. CASE Crash
  BY <1>8, TreeAssumption DEF Crash, tree, coins, CoinsInv, Up, Mixed, At
<1>9. CASE RollbackDone
  BY <1>9 DEF RollbackDone, memory, tree, coins, CoinsInv, Up, Mixed, At
<1>10. CASE UNCHANGED vars
  BY <1>10 DEF vars, memory, tree, coins, CoinsInv, Up, Mixed, At
<1> QED
  BY <1>1, <1>2, <1>3, <1>4, <1>5, <1>6, <1>7, <1>8, <1>9, <1>10, CoinsDisconnect,
     CoinsFinalBatch, CoinsStart, CoinsRollback, CoinsRollforward, CoinsReplayed
     DEF Next, Flush, Startup

\* For every block tree, and however many flushes and crashes there are: whenever the coins
\* database says it is consistent with a block (DB_BEST_BLOCK), it holds that block's coins.
THEOREM CoinsExact == Spec => []DatabaseExact
<1>1. CoinsInv => DatabaseExact
  BY TreeAssumption DEF CoinsInv, DatabaseExact, Up, At
<1> QED
  BY <1>1, CoinsInit, CoinsNext, PTL DEF Spec

\* For every block tree: a node that is up works on the coins of its tip, within a flush and
\* after ReplayBlocks as well.
THEOREM TipCoinsExact == Spec => []ViewExact
<1>1. CoinsInv => ViewExact
  BY TreeAssumption DEF CoinsInv, ViewExact, Up, At
<1> QED
  BY <1>1, CoinsInit, CoinsNext, PTL DEF Spec
-----------------------------------------------------------------------------
\* The inductive invariant of the block files: what memory says is there is committed to disk,
\* or written to the last file but not committed, or undo data in an earlier file, which may
\* be lost; from FlushBlockFile to the end of the index write there is nothing of the second
\* kind; and the files to be unlinked are no longer named when they go.
Stages == {"files", "index", "unlink"}
Replay == {"rollback", "forward"}
FilesInv ==
    /\ {flags, diskFlags, files, buffered} \subseteq [Blocks -> SUBSET {"DATA", "UNDO"}]
    /\ last \in Nat /\ diskLast \in Nat /\ nFile \in [Blocks -> Nat] /\ diskLast <= last
    /\ \A b \in Blocks :
          /\ nFile[b] <= last
          /\ diskFlags[b] # {} => "DATA" \in diskFlags[b] /\ nFile[b] <= diskLast
          /\ flags[b] # {} => "DATA" \in flags[b]
    /\ IndexBacked
    /\ pc \in Up \cup Replay =>
          \A b \in Blocks : flags[b] \ files[b] \subseteq IF nFile[b] < last THEN {"UNDO"}
                                                        ELSE buffered[b]
    /\ pc \in {"run", "coins"} \cup Replay =>
          \A b \in Blocks : diskFlags[b] # {} => "DATA" \in flags[b]
    /\ pc \in {"index", "unlink"} =>
          \A b \in Blocks : flags[b] \ files[b] \subseteq IF nFile[b] < last THEN {"UNDO"} ELSE {}
    /\ pc = "unlink" => diskFlags = flags /\ diskLast = last
    /\ pc \in Stages => \A b \in Blocks : nFile[b] \in toUnlink => flags[b] = {}
    /\ pc = "down" => last = diskLast
    /\ pc \in Up \cup Replay => Genesis \in index
    /\ Genesis \notin diskIndex => diskLast = 0

\* Every step keeps the invariant.
LEMMA FilesNext == FilesInv /\ [Next]_vars => FilesInv'
<1> SUFFICES ASSUME FilesInv, [Next]_vars PROVE FilesInv'
  OBVIOUS
<1> USE DEF FilesInv, IndexBacked, Up, Stages, Replay
<1>1. ASSUME NEW b \in Blocks \ {Genesis}, AcceptBlock(b) PROVE FilesInv'
  <2>1. /\ pc = "run" /\ pc' = pc /\ "DATA" \notin flags[b]
        /\ flags' = [flags EXCEPT ![b] = {"DATA"}]
        /\ UNCHANGED <<diskFlags, diskIndex, diskLast, toUnlink>> /\ index \subseteq index'
    BY <1>1 DEF AcceptBlock, tree
  <2>2. diskFlags[b] = {}
    BY <2>1
  <2>3. CASE BlocksIn(last) \cup {b} \in Fits
    <3>1. /\ nFile' = [nFile EXCEPT ![b] = last] /\ last' = last /\ files' = files
          /\ buffered' = [buffered EXCEPT ![b] = {"DATA"}]
      BY <1>1, <2>3 DEF AcceptBlock
    <3> QED
      BY <2>1, <2>2, <3>1, SMTT(30)
  <2>4. CASE BlocksIn(last) \cup {b} \notin Fits
    <3>1. /\ files' = Written /\ last' = last + 1 /\ nFile' = [nFile EXCEPT ![b] = last + 1]
          /\ buffered' = [Unwritten EXCEPT ![b] = {"DATA"}]
      BY <1>1, <2>4 DEF AcceptBlock
    <3>2. /\ files' \in [Blocks -> SUBSET {"DATA", "UNDO"}]
          /\ buffered' \in [Blocks -> SUBSET {"DATA", "UNDO"}]
          /\ flags' \in [Blocks -> SUBSET {"DATA", "UNDO"}]
      BY <2>1, <3>1, SMTT(30) DEF Written, Unwritten, FlushedFiles
    <3>3. ASSUME NEW x \in Blocks, x # b
          PROVE  /\ flags'[x] = flags[x] /\ nFile'[x] = nFile[x] /\ nFile[x] < last + 1
                 /\ files[x] \subseteq files'[x] /\ flags[x] \ files'[x] \subseteq {"UNDO"}
      BY <2>1, <3>1, <3>3, SMTT(30) DEF Written, FlushedFiles
    <3>4. flags'[b] = {"DATA"} /\ nFile'[b] = last + 1 /\ buffered'[b] = {"DATA"}
      BY <2>1, <3>1 DEF Unwritten
    <3>5. last + 1 \in Nat /\ diskLast <= last + 1 /\ nFile' \in [Blocks -> Nat]
      BY <3>1, SMTT(30)
    <3> QED
      BY <2>1, <2>2, <3>1, <3>2, <3>3, <3>4, <3>5, SMTT(30)
  <2> QED
    BY <2>3, <2>4
<1>2. ASSUME NEW b \in Blocks, ConnectTip(b) PROVE FilesInv'
  BY <1>2, SMTT(30) DEF ConnectTip, Readable, tree, coins
<1>3. CASE DisconnectTip
  BY <1>3 DEF DisconnectTip, tree, coins
<1>4. ASSUME NEW P, NEW f, BeginFlush(P, f) PROVE FilesInv'
  BY <1>4, SMTT(30) DEF BeginFlush, PrunedFlags, coins
<1>5. CASE FlushBlockFile
  BY <1>5, SMTT(30) DEF FlushBlockFile, Written, Unwritten, FlushedFiles, AfterStage, memory, tree
<1>6. CASE WriteBlockIndex
  BY <1>6, SMTT(30) DEF WriteBlockIndex, AfterStage, memory
<1>7. CASE UnlinkPrunedFiles
  BY <1>7, SMTT(30) DEF UnlinkPrunedFiles, AfterStage, memory, tree
<1>8. ASSUME NEW S, PartialBatch(S) PROVE FilesInv'
  BY <1>8 DEF PartialBatch, memory, tree
<1>9. CASE FinalBatch
  BY <1>9 DEF FinalBatch, memory, tree
<1>10. CASE Crash
  BY <1>10, SMTT(30) DEF Crash, Named, tree
<1>11. CASE Start
  <2>1. /\ flags' = [diskFlags EXCEPT ![Genesis] = IF Genesis \in diskIndex THEN @ ELSE {"DATA"}]
        /\ buffered' = [buffered EXCEPT ![Genesis] = IF Genesis \in diskIndex THEN @ ELSE {"DATA"}]
        /\ UNCHANGED <<files, diskFlags, diskIndex, nFile, last, diskLast, toUnlink>> /\ pc = "down"
        /\ Genesis \in index'
    BY <1>11 DEF Start, tree
  <2>2. pc' \notin Stages \cup {"down"}
    BY <1>11 DEF Start
  <2>3. Genesis \in Blocks
    BY TreeAssumption
  <2>4. \A b \in Blocks : b # Genesis \/ Genesis \in diskIndex =>
            flags'[b] = diskFlags[b] /\ buffered'[b] = buffered[b]
    BY <2>1
  <2>5. Genesis \notin diskIndex => flags'[Genesis] = {"DATA"} /\ buffered'[Genesis] = {"DATA"}
    BY <2>1, <2>3
  <2>6. flags' \in [Blocks -> SUBSET {"DATA", "UNDO"}]
        /\ buffered' \in [Blocks -> SUBSET {"DATA", "UNDO"}]
    BY <2>1, <2>3, SMTT(30)
  <2>7. ASSUME NEW b \in Blocks
        PROVE  /\ diskFlags[b] # {} => "DATA" \in flags'[b]
               /\ flags'[b] # {} => "DATA" \in flags'[b]
               /\ flags'[b] \ files[b] \subseteq IF nFile[b] < last THEN {"UNDO"} ELSE buffered'[b]
    <3>1. CASE b # Genesis \/ Genesis \in diskIndex
      BY <2>1, <2>4, <3>1, SMTT(30)
    <3>2. CASE b = Genesis /\ Genesis \notin diskIndex
      <4>1. ~(nFile[b] < last)
        BY <2>1, <3>2, SMTT(30)
      <4> QED
        BY <2>5, <3>2, <4>1
    <3> QED
      BY <3>1, <3>2
  <2> QED
    BY <2>1, <2>2, <2>6, <2>7, SMTT(30)
<1>12. CASE Rollback
  BY <1>12 DEF Rollback, tree, coins
<1>13. CASE RollbackDone
  BY <1>13 DEF RollbackDone, memory, tree, coins
<1>14. CASE RollforwardBlock
  BY <1>14 DEF RollforwardBlock, tree, coins
<1>15. CASE FlushReplayed
  BY <1>15 DEF FlushReplayed, memory, tree, coins
<1>16. CASE UNCHANGED vars
  BY <1>16 DEF vars, memory, tree, coins
<1> QED
  BY <1>1, <1>2, <1>3, <1>4, <1>5, <1>6, <1>7, <1>8, <1>9, <1>10, <1>11, <1>12, <1>13, <1>14,
     <1>15, <1>16 DEF Next, Flush, Startup

\* An empty node has written nothing to its databases.
LEMMA FilesInit == Init => FilesInv
BY TreeAssumption, SMTT(30) DEF Init, FilesInv, IndexBacked, Up, Stages, Replay

\* Whatever is flushed or pruned, and whenever the node crashes, an entry of the block index
\* database points to data that is on disk, except that undo data in a file before the last
\* may never have been committed: FlushStateToDisk's order of writes, and what FlushBlockFile
\* commits.
THEOREM IndexAlwaysBacked == Spec => []IndexBacked
<1>1. FilesInv => IndexBacked
  BY DEF FilesInv
<1> QED
  BY <1>1, FilesInit, FilesNext, PTL DEF Spec
-----------------------------------------------------------------------------
\* The blocks that were connected and of which nothing was pruned, given the flags; with a
\* block of such a set its parent is in it.
Connected(f) == {b \in Blocks : b = Genesis \/ f[b] = {"DATA", "UNDO"}}
Closed(S) == \A b \in S \ {Genesis} : Parent[b] \in S

\* The block index database knows b, and names all that was written of its chain.
OnDisk(b) == b \in diskIndex /\ Path[b] \subseteq Connected(diskFlags)

\* The chain of every block the coins database names can be read, back from the old tip and
\* up to the new one: the index is written before the coins, and never loses anything.
StartInv ==
    /\ flags \in [Blocks -> Have] /\ diskFlags \in [Blocks -> Have]
    /\ ~havePruned =>
       /\ pc = "failed" => UndoLost
       /\ Closed(Connected(flags)) /\ Closed(Connected(diskFlags))
       /\ \A b \in Blocks : diskFlags[b] # {} => b \in diskIndex
       /\ best # NoBlock => OnDisk(best)
       /\ heads # <<>> => OnDisk(heads[1]) /\ (heads[2] # NoBlock => OnDisk(heads[2]))
       /\ pc \in Up \cup {"rollback", "forward"} =>
             /\ diskIndex \subseteq index /\ Connected(diskFlags) \subseteq Connected(flags)
             /\ \A b \in Blocks : flags[b] # {} => b \in index
             /\ {Genesis, tip} \subseteq index /\ Path[tip] \subseteq Connected(flags)
       /\ pc = "unlink" => diskIndex = index /\ diskFlags = flags
       /\ pc = "coins" => OnDisk(tip)
       /\ pc = "rollback" => cursor \in Connected(flags)
       /\ pc = "rollback" => \A b \in Blocks \ {Genesis} : flags[b] = diskFlags[b]

\* A block is on its own chain, which is its parent's and the block.
LEMMA PathIs ==
    ASSUME NEW b \in Blocks
    PROVE  /\ b \in Path[b] /\ Path[b] \subseteq Blocks /\ Genesis \in Path[b] /\ Path[Genesis] = {Genesis}
           /\ b # Genesis => Parent[b] \in Blocks /\ Path[b] = Path[Parent[b]] \cup {b}
<1>1. Path[b] = IF b = Genesis THEN {b} ELSE Path[Parent[b]] \cup {b} BY TreeAssumption
<1>2. Path[Genesis] = {Genesis} BY TreeAssumption
<1>3. b # Genesis => Parent[b] \in Blocks BY TreeAssumption
<1>4. Path[b] \subseteq Blocks /\ Genesis \in Path[b] BY PathAssumption
<1> QED BY <1>1, <1>2, <1>3, <1>4

\* StartInv, when only pc and the block files change.
LEMMA StartSame ==
    ASSUME StartInv, UNCHANGED <<index, flags, tip, diskIndex, diskFlags, havePruned, best, heads, cursor>>,
           pc' \notin {"unlink", "failed"},
           ~havePruned => /\ pc' \in Up \cup {"rollback", "forward"} => pc \in Up \cup {"rollback", "forward"}
                          /\ pc' = "coins" => OnDisk(tip)
                          /\ pc' = "rollback" => pc = "rollback"
    PROVE  StartInv'
BY DEF StartInv, OnDisk

\* AcceptBlock adds a block that is not connected.
LEMMA StartAccept ==
    ASSUME StartInv, NEW b \in Blocks \ {Genesis}, AcceptBlock(b)
    PROVE  StartInv'
<1>1. /\ pc = "run" /\ index' = index \cup {b} /\ flags' = [flags EXCEPT ![b] = {"DATA"}]
      /\ "DATA" \notin flags[b]
      /\ UNCHANGED <<tip, pc, diskIndex, diskFlags, havePruned, best, heads, cursor>>
  BY DEF AcceptBlock, tree, coins
<1>2. flags \in [Blocks -> Have] BY DEF StartInv
<1>3. flags[b] = {} BY <1>1, <1>2 DEF Have
<1>4. \A x \in Blocks : flags'[x] = IF x = b THEN {"DATA"} ELSE flags[x] BY <1>1, <1>2, <1>3
<1>5. flags' \in [Blocks -> Have]
  <2>1. {"DATA"} \in Have BY DEF Have
  <2> QED BY <1>1, <1>2, <1>3, <2>1, SMTT(30)
<1>6. Connected(flags') = Connected(flags)
  <2>1. {"DATA"} # {"DATA", "UNDO"} BY SMTT(30)
  <2> QED BY <1>3, <1>4, <2>1 DEF Connected
<1>7. \A x \in Blocks : flags'[x] # {} => flags[x] # {} \/ x = b BY <1>4
<1> QED BY <1>1, <1>5, <1>6, <1>7 DEF StartInv, OnDisk, Up

\* ConnectTip connects a child of a connected block.
LEMMA StartConnect ==
    ASSUME StartInv, CoinsInv, NEW b \in Blocks, ConnectTip(b)
    PROVE  StartInv'
<1>1. /\ pc = "run" /\ b # Genesis /\ Parent[b] = tip /\ "DATA" \in flags[b] /\ tip' = b
      /\ flags' = [flags EXCEPT ![b] = flags[b] \cup {"UNDO"}]
      /\ UNCHANGED <<index, pc, diskIndex, diskFlags, havePruned, best, heads, cursor>>
  BY DEF ConnectTip, Readable, tree, coins
<1>2. flags \in [Blocks -> Have] /\ tip \in Blocks BY DEF StartInv, CoinsInv
<1>3. flags[b] \cup {"UNDO"} = {"DATA", "UNDO"} /\ flags[b] # {} BY <1>1, <1>2 DEF Have
<1>4. \A x \in Blocks : flags'[x] = IF x = b THEN {"DATA", "UNDO"} ELSE flags[x] BY <1>1, <1>2, <1>3
<1>5. flags' \in [Blocks -> Have]
  <2>1. {"DATA", "UNDO"} \in Have BY DEF Have
  <2> QED BY <1>1, <1>2, <1>3, <2>1, SMTT(30)
<1>6. Connected(flags') = Connected(flags) \cup {b} BY <1>4 DEF Connected
<1>7. Path[b] = Path[tip] \cup {b} /\ tip \in Path[tip] BY <1>1, <1>2, PathIs
<1>8. \A x \in Blocks : flags'[x] # {} => flags[x] # {} BY <1>3, <1>4
<1>9. ASSUME ~havePruned
      PROVE  /\ Closed(Connected(flags)') /\ b \in index /\ Path[b] \subseteq Connected(flags)'
             /\ \A x \in Blocks : flags'[x] # {} => x \in index
  BY <1>1, <1>3, <1>6, <1>7, <1>8, <1>9 DEF StartInv, Up, Closed
<1> QED BY <1>1, <1>5, <1>6, <1>9 DEF StartInv, OnDisk, Up

\* DisconnectTip keeps what was written.
LEMMA StartDisconnect ==
    ASSUME StartInv, CoinsInv, DisconnectTip
    PROVE  StartInv'
<1>1. /\ pc = "run" /\ tip # Genesis /\ tip' = Parent[tip]
      /\ UNCHANGED <<index, flags, pc, diskIndex, diskFlags, havePruned, best, heads, cursor>>
  BY DEF DisconnectTip, tree, coins
<1>2. tip \in Blocks BY DEF CoinsInv
<1>3. Path[tip'] \subseteq Path[tip] /\ tip' \in Path[tip'] /\ tip' \in Blocks BY <1>1, <1>2, PathIs
<1>4. ASSUME ~havePruned PROVE tip' \in index /\ Path[tip'] \subseteq Connected(flags)
  <2>1. /\ Genesis \in index /\ Path[tip] \subseteq Connected(flags)
        /\ \A x \in Blocks : flags[x] # {} => x \in index
    BY <1>1, <1>4 DEF StartInv, Up
  <2> QED BY <1>3, <2>1 DEF Connected
<1> QED BY <1>1, <1>4 DEF StartInv, OnDisk, Up

\* FlushStateToDisk up to the coins: once the index is written, memory has nothing that
\* the disk has not.
LEMMA StartFlush ==
    ASSUME StartInv, FlushBlockFile \/ WriteBlockIndex \/ UnlinkPrunedFiles
    PROVE  StartInv'
<1>1. CASE FlushBlockFile
  BY <1>1, StartSame DEF FlushBlockFile, AfterStage, Up, memory, tree, coins
<1>2. CASE WriteBlockIndex
  <2>1. /\ pc = "index" /\ pc' = "unlink" /\ diskIndex' = index /\ diskFlags' = flags
        /\ UNCHANGED <<index, flags, tip, havePruned, best, heads, cursor>>
    BY <1>2 DEF WriteBlockIndex, AfterStage, memory, tree, coins
  <2>2. ASSUME ~havePruned, NEW b, OnDisk(b) PROVE OnDisk(b)'
    <3>1. diskIndex \subseteq index /\ Connected(diskFlags) \subseteq Connected(flags)
      BY <2>1, <2>2 DEF StartInv, Up
    <3> QED BY <2>1, <2>2, <3>1 DEF OnDisk
  <2> QED BY <2>1, <2>2 DEF StartInv, Up
<1>3. CASE UnlinkPrunedFiles
  <2>1. /\ pc = "unlink" /\ pc' \in {"coins", "run"}
        /\ UNCHANGED <<index, flags, tip, diskIndex, diskFlags, havePruned, best, heads, cursor>>
    BY <1>3 DEF UnlinkPrunedFiles, AfterStage, memory, tree, coins
  <2>2. ~havePruned => OnDisk(tip) BY <2>1 DEF StartInv, OnDisk, Up
  <2> QED BY <2>1, <2>2, StartSame DEF Up
<1> QED BY <1>1, <1>2, <1>3

\* The coins database names only blocks that are in the index database.
LEMMA StartPartialBatch ==
    ASSUME StartInv, CoinsInv, NEW S, PartialBatch(S)
    PROVE  StartInv'
<1>1. /\ pc = "coins" /\ heads' = <<tip, OldTip>> /\ best' = NoBlock
      /\ UNCHANGED <<index, flags, tip, pc, diskIndex, diskFlags, havePruned, cursor>>
  BY DEF PartialBatch, memory, tree, coins
<1>2. heads' # <<>> /\ heads'[1] = tip /\ heads'[2] = OldTip BY <1>1
<1>3. ~havePruned => OnDisk(tip) /\ (OldTip # NoBlock => OnDisk(OldTip)) BY <1>1 DEF StartInv, OldTip
<1> QED BY <1>1, <1>2, <1>3 DEF StartInv, OnDisk, Up

\* LoadBlockIndex has every block that LoadChainTip or ReplayBlocks asks for.
LEMMA StartStarts ==
    ASSUME StartInv, CoinsInv, Start
    PROVE  StartInv'
<1>1. /\ pc = "down" /\ index' = diskIndex \cup {Genesis}
      /\ flags' = [diskFlags EXCEPT ![Genesis] = IF Genesis \in diskIndex THEN diskFlags[Genesis] ELSE {"DATA"}]
      /\ UNCHANGED <<diskIndex, diskFlags, havePruned, best, heads>>
  BY DEF Start, tree, coins
<1>2. diskFlags \in [Blocks -> Have] /\ Genesis \in Blocks BY TreeAssumption DEF StartInv
<1>3. flags' \in [Blocks -> Have]
  <2>1. {"DATA"} \in Have BY DEF Have
  <2> QED BY <1>1, <1>2, <2>1, SMTT(30)
<1>4. \A x \in Blocks \ {Genesis} : flags'[x] = diskFlags[x] BY <1>1, <1>2
<1>5. Connected(flags)' = Connected(diskFlags) BY <1>4 DEF Connected
<1> SUFFICES ASSUME ~havePruned PROVE StartInv' BY <1>1, <1>3 DEF StartInv
<1>6. /\ Closed(Connected(diskFlags)) /\ \A x \in Blocks : diskFlags[x] # {} => x \in diskIndex
      /\ best # NoBlock => OnDisk(best)
      /\ heads # <<>> => OnDisk(heads[1]) /\ (heads[2] # NoBlock => OnDisk(heads[2]))
  BY DEF StartInv
<1>7. \A x \in Blocks : flags'[x] # {} => x \in index' BY <1>1, <1>4, <1>6
<1>8. Genesis \in Connected(diskFlags) /\ Path[Genesis] = {Genesis} BY <1>2, PathIs DEF Connected
<1>9. CASE heads = <<>>
  <2>1. tip' = (IF best = NoBlock THEN Genesis ELSE best) /\ pc' = (IF Unknown(best) THEN "failed" ELSE "run")
    BY <1>9 DEF Start
  <2>2. pc' = "run" BY <1>6, <2>1 DEF Unknown, OnDisk
  <2>3. tip' \in index' /\ Path[tip'] \subseteq Connected(diskFlags) BY <1>1, <1>6, <1>8, <2>1 DEF OnDisk
  <2> QED BY <1>1, <1>3, <1>5, <1>6, <1>7, <2>2, <2>3 DEF StartInv, OnDisk, Up
<1>10. CASE heads # <<>>
  <2>1. heads \in Blocks \X (Blocks \cup {NoBlock}) BY <1>10 DEF CoinsInv
  <2>2. heads[1] \in Blocks /\ heads[2] \in Blocks \cup {NoBlock} BY <2>1
  <2>3. ~Unknown(heads[1]) /\ ~Unknown(heads[2]) BY <1>6, <1>10 DEF Unknown, OnDisk
  <2>4. /\ pc' = IF heads[2] = NoBlock THEN "forward" ELSE "rollback"
        /\ tip' = heads[1]
        /\ cursor' = IF heads[2] = NoBlock THEN Genesis ELSE heads[2]
    BY <1>10, <2>3 DEF Start
  <2>5. tip' \in index' /\ Path[tip'] \subseteq Connected(diskFlags) BY <1>1, <1>6, <1>10, <2>4 DEF OnDisk
  <2>6. cursor' \in Connected(diskFlags)
    <3>1. CASE heads[2] = NoBlock BY <1>8, <2>4, <3>1
    <3>2. CASE heads[2] # NoBlock
      <4>1. heads[2] \in Path[heads[2]] BY <2>2, <3>2, PathIs
      <4> QED BY <1>6, <1>10, <2>4, <3>2, <4>1 DEF OnDisk
    <3> QED BY <3>1, <3>2
  <2>7. pc' \in {"forward", "rollback"} BY <2>4
  <2> QED BY <1>1, <1>3, <1>5, <1>6, <1>7, <2>5, <2>6, <2>7 DEF StartInv, OnDisk, Up
<1> QED BY <1>9, <1>10

\* Block data, unlike undo data, is never lost.
LEMMA DataThere ==
    ASSUME FilesInv, pc \in Replay, NEW b \in Blocks, "DATA" \in flags[b]
    PROVE  "DATA" \in files[b] \cup buffered[b]
BY SMTT(30) DEF FilesInv, Replay

\* ReplayBlocks finds every block it undoes or applies.
LEMMA StartReplay ==
    ASSUME StartInv, CoinsInv, FilesInv, Rollback \/ RollbackDone \/ RollforwardBlock \/ FlushReplayed
    PROVE  StartInv'
<1>1. /\ pc \in {"rollback", "forward"}
      /\ UNCHANGED <<index, flags, tip, diskIndex, diskFlags, havePruned, best, heads>>
  BY DEF Rollback, RollbackDone, RollforwardBlock, FlushReplayed, memory, tree, coins
<1> SUFFICES ASSUME ~havePruned PROVE StartInv' BY <1>1 DEF StartInv
<1>2. /\ heads # <<>> /\ heads[1] = tip /\ tip \in Blocks /\ cursor \in Blocks
      /\ pc = "forward" => cursor \in Path[tip]
  BY <1>1 DEF CoinsInv
<1>3. /\ Path[tip] \subseteq Connected(flags) /\ Closed(Connected(flags)) /\ OnDisk(tip)
      /\ pc = "rollback" => cursor \in Connected(flags)
  BY <1>1, <1>2 DEF StartInv
<1>4. CASE Rollback
  <2>1. pc = "rollback" /\ cursor \notin Path[tip] /\ UNCHANGED <<files, buffered>> BY <1>4 DEF Rollback
  <2>2. cursor # Genesis BY <1>2, <2>1, PathIs
  <2>3. flags[cursor] = {"DATA", "UNDO"} /\ flags[cursor] = diskFlags[cursor]
    BY <1>2, <1>3, <2>1, <2>2 DEF Connected, StartInv
  <2>4. CASE Readable(cursor) = {"DATA", "UNDO"}
    <3>1. pc' = pc /\ cursor' = Parent[cursor] BY <1>4, <2>4 DEF Rollback
    <3>2. cursor' \in Connected(flags) BY <1>3, <2>1, <2>2, <3>1 DEF Closed
    <3> QED BY <1>1, <2>1, <3>1, <3>2 DEF StartInv, OnDisk, Up
  <2>5. CASE Readable(cursor) # {"DATA", "UNDO"}
    <3>1. pc' = "failed" /\ cursor' = cursor BY <1>4, <2>5 DEF Rollback
    <3>2. "DATA" \in files[cursor] \cup buffered[cursor] BY <1>2, <2>1, <2>3, DataThere DEF Replay
    <3>3. "UNDO" \in diskFlags[cursor] \ (files[cursor] \cup buffered[cursor])
      BY <2>3, <2>5, <3>2 DEF Readable
    <3>4. UndoLost' BY <1>1, <1>2, <2>1, <3>3 DEF UndoLost
    <3> QED BY <1>1, <2>1, <3>1, <3>4 DEF StartInv, OnDisk, Up
  <2> QED BY <2>4, <2>5
<1>5. CASE RollforwardBlock
  <2> DEFINE b == CHOOSE x \in Path[tip] \ {Genesis} : Parent[x] = cursor
  <2>1. pc = "forward" /\ cursor # tip BY <1>5 DEF RollforwardBlock
  <2>2. b \in Path[tip] \ {Genesis} /\ b \in Blocks BY <1>2, <2>1, PathAssumption
  <2>3. "DATA" \in flags[b] BY <1>3, <2>2 DEF Connected
  <2>4. "DATA" \in Readable(b) BY <2>1, <2>2, <2>3, DataThere DEF Readable, Replay
  <2>5. pc' = pc BY <1>5, <2>4 DEF RollforwardBlock
  <2> HIDE DEF b
  <2> QED BY <1>1, <2>1, <2>5 DEF StartInv, OnDisk, Up
<1>6. CASE RollbackDone \/ FlushReplayed
  <2>1. pc' \in {"forward", "coins"} BY <1>6 DEF RollbackDone, FlushReplayed
  <2> QED BY <1>1, <1>3, <2>1 DEF StartInv, OnDisk, Up
<1> QED BY <1>4, <1>5, <1>6

\* Every step keeps the invariant.
LEMMA StartNext == StartInv /\ CoinsInv /\ FilesInv /\ [Next]_vars => StartInv'
<1> SUFFICES ASSUME StartInv, CoinsInv, FilesInv, [Next]_vars PROVE StartInv' OBVIOUS
<1>1. ASSUME NEW P, NEW f, BeginFlush(P, f) PROVE StartInv'
  <2>1. /\ pc = "run" /\ pc' = "files" /\ havePruned' = (havePruned \/ P # {})
        /\ flags' = [b \in Blocks |-> IF nFile[b] \in P THEN {} ELSE flags[b]]
        /\ UNCHANGED <<index, tip, diskIndex, diskFlags, best, heads, cursor>>
    BY <1>1 DEF BeginFlush, PrunedFlags, memory, tree, coins
  <2>2. flags' \in [Blocks -> Have]
    <3>1. flags \in [Blocks -> Have] /\ {} \in Have BY DEF StartInv, Have
    <3> QED BY <2>1, <3>1
  <2>3. P = {} => flags' = flags
    <3>1. flags \in [Blocks -> Have] BY DEF StartInv
    <3> QED BY <2>1, <3>1
  <2> QED BY <2>1, <2>2, <2>3 DEF StartInv, OnDisk, Up
<1>2. CASE FinalBatch
  <2>1. /\ pc = "coins" /\ pc' = "run" /\ heads' = <<>> /\ best' = tip
        /\ UNCHANGED <<index, flags, tip, diskIndex, diskFlags, havePruned, cursor>>
    BY <1>2 DEF FinalBatch, memory, tree, coins
  <2> QED BY <2>1 DEF StartInv, OnDisk, Up
<1>3. CASE Crash
  <2>1. /\ pc' = "down" /\ flags' = [b \in Blocks |-> {}]
        /\ UNCHANGED <<diskIndex, diskFlags, havePruned, best, heads>>
    BY <1>3 DEF Crash, tree, coins
  <2>2. flags' \in [Blocks -> Have] BY <2>1 DEF Have
  <2>3. Connected(flags)' = {Genesis}
    <3>1. {} # {"DATA", "UNDO"} OBVIOUS
    <3> QED BY <2>1, <3>1, TreeAssumption DEF Connected
  <2>4. Closed(Connected(flags)') BY <2>3 DEF Closed
  <2> QED BY <2>1, <2>2, <2>4 DEF StartInv, OnDisk, Up
<1>4. CASE UNCHANGED vars BY <1>4 DEF vars, memory, tree, coins, StartInv, OnDisk, UndoLost
<1> QED
  BY <1>1, <1>2, <1>3, <1>4, StartAccept, StartConnect, StartDisconnect, StartFlush, StartPartialBatch,
     StartStarts, StartReplay DEF Next, Flush, Startup

\* A start that ends in failure is that of a node that has pruned, or that has lost undo data
\* its index names.
NeverFailsToStart == pc = "failed" => havePruned \/ UndoLost

\* The safety half of Recovers, for every block tree and any number of flushes and crashes:
\* LoadChainTip knows the block the coins database names, and ReplayBlocks can read every
\* block it has to undo or to apply, unless block files were pruned or undo data that was
\* never committed to disk was lost.
THEOREM StartsAfterAnyCrash == Spec => []NeverFailsToStart
<1>1. Init => StartInv
  <2> SUFFICES ASSUME Init PROVE StartInv OBVIOUS
  <2> USE DEF Init
  <2>1. flags \in [Blocks -> Have] /\ diskFlags \in [Blocks -> Have] BY DEF Have
  <2>2. Connected(flags) = {Genesis} /\ Connected(diskFlags) = {Genesis}
    <3>1. {} # {"DATA", "UNDO"} OBVIOUS
    <3> QED BY <3>1, TreeAssumption DEF Connected
  <2>3. Path[Genesis] = {Genesis} BY TreeAssumption
  <2> QED BY <2>1, <2>2, <2>3 DEF StartInv, Closed, Up
<1>2. StartInv => NeverFailsToStart BY DEF StartInv, NeverFailsToStart
<1> QED BY <1>1, <1>2, StartNext, CoinsInit, CoinsNext, FilesInit, FilesNext, PTL DEF Spec
=============================================================================
