--------------------------- MODULE ChainstateFlush ---------------------------
(***************************************************************************)
(* What survives a crash: block files, the block index database and the    *)
(* coins database, the order FlushStateToDisk (validation.cpp) writes them *)
(* in, the partial batches of CCoinsViewDB::BatchWrite (txdb.cpp), and     *)
(* ReplayBlocks, which completes an interrupted one at the next start.     *)
(*                                                                         *)
(* A coin is the height of the block that created it (0: no coin).  Within *)
(* a block no output is created twice, so a block is the outpoints it      *)
(* spends and those it creates.  The cache in front of the database is     *)
(* view, its content (CoinsCache is about the cache itself).  A batch is   *)
(* atomic and durable once WriteBatch has returned.                        *)
(*                                                                         *)
(* A block's data is in block file nFile, its undo data in the undo file   *)
(* of the same number.  Only the last pair of files is ever committed to   *)
(* disk (FlushBlockFile); what was written and not committed survives the  *)
(* end of the process and may be lost when the power fails.                *)
(***************************************************************************)
EXTENDS Integers, Sequences, FiniteSets

CONSTANTS
    Blocks, Genesis, NoBlock,
    Parent,           \* [Blocks \ {Genesis} -> Blocks]
    Outpoints,
    Spends, Creates,  \* [Blocks -> SUBSET Outpoints]
    MinBlocksToKeep,  \* MIN_BLOCKS_TO_KEEP
    PruneMode,        \* fPruneMode
    Fits,             \* the sets of blocks a block file has room for
    MaxFlushes,       \* bound on flushes begun
    MaxCrashes        \* bound on crashes

VARIABLES
    index, flags,          \* m_block_index and its HAVE_DATA, HAVE_UNDO, in memory
    tip,                   \* m_chain.Tip()
    view,                  \* the coins the node works with
    nFile, last,           \* per block: its file; nLastBlockFile
    files, buffered,       \* per block: committed to disk, and written but not committed
    diskIndex, diskFlags, diskLast,  \* the block index database
    havePruned,            \* its flag "prunedblockfiles", and fHavePruned
    db, best, heads,       \* the coins database, DB_BEST_BLOCK, DB_HEAD_BLOCKS
    pc,                    \* what the node is doing
    full,                  \* fDoFullFlush
    toUnlink,              \* setFilesToPrune
    cursor,                \* pindexOld, then pindex, in ReplayBlocks
    flushes, crashes

memory == <<index, flags, tip, view, nFile, last>>
tree == <<diskIndex, diskFlags, diskLast, havePruned>>
coins == <<db, best, heads>>
vars == <<memory, files, buffered, tree, coins, pc, full, toUnlink, cursor, flushes, crashes>>

Path[b \in Blocks] == IF b = Genesis THEN {b} ELSE Path[Parent[b]] \cup {b}
Height(b) == Cardinality(Path[b]) - 1

\* The coins after ConnectBlock (UpdateCoins) or RollforwardBlock of b: inputs are
\* spent, outputs added; an output spent within the block is gone.
Applied(u, b) ==
    [o \in Outpoints |-> IF o \in Spends[b] THEN 0
                         ELSE IF o \in Creates[b] THEN Height(b) ELSE u[o]]

\* The coins of a chain, by definition: what validating it from the start gives.
UtxoAt[b \in Blocks] ==
    IF b = Genesis THEN [o \in Outpoints |-> 0] ELSE Applied(UtxoAt[Parent[b]], b)

\* A block tree, with the defining equations of Path and UtxoAt, which Parent being
\* well-founded gives.
ASSUME TreeAssumption ==
    /\ Genesis \in Blocks /\ NoBlock \notin Blocks
    /\ Parent \in [Blocks \ {Genesis} -> Blocks]
    /\ \A b \in Blocks : Path[b] = IF b = Genesis THEN {b} ELSE Path[Parent[b]] \cup {b}
    /\ \A b \in Blocks : UtxoAt[b] = IF b = Genesis THEN [o \in Outpoints |-> 0]
                                     ELSE Applied(UtxoAt[Parent[b]], b)

\* A chain holds its blocks' parents: below its end every block has a child on it.
ASSUME PathAssumption ==
    \A t \in Blocks :
        /\ Path[t] \subseteq Blocks /\ Genesis \in Path[t]
        /\ \A c \in Path[t] \ {t} : \E x \in Path[t] \ {Genesis} : Parent[x] = c

\* No output is created where there is one already (BIP 30): what ConnectBlock checks.
ASSUME CreatesAssumption ==
    /\ Spends \in [Blocks -> SUBSET Outpoints] /\ Creates \in [Blocks -> SUBSET Outpoints]
    /\ \A b \in Blocks \ {Genesis} : \A o \in Creates[b] : UtxoAt[Parent[b]][o] = 0

\* DisconnectBlock: transactions in reverse order, outputs removed and inputs
\* restored from the undo data, which ConnectBlock wrote.
UndoneOutputs(u, b) == [o \in Outpoints |-> IF o \in Creates[b] THEN 0 ELSE u[o]]
Undone(u, b) ==
    [o \in Outpoints |-> IF o \in Creates[b] THEN 0
                         ELSE IF o \in Spends[b] THEN UtxoAt[Parent[b]][o] ELSE u[o]]

Init ==
    /\ index = {Genesis}
    /\ flags = [b \in Blocks |-> IF b = Genesis THEN {"DATA"} ELSE {}]
    /\ tip = Genesis
    /\ view = UtxoAt[Genesis]
    /\ nFile = [b \in Blocks |-> 0] /\ last = 0
    /\ files = [b \in Blocks |-> {}]
    /\ buffered = flags
    /\ diskIndex = {} /\ diskLast = 0
    /\ diskFlags = [b \in Blocks |-> {}] /\ havePruned = FALSE
    /\ db = UtxoAt[Genesis] /\ best = NoBlock /\ heads = <<>>
    /\ pc = "run" /\ full = FALSE /\ toUnlink = {} /\ cursor = NoBlock
    /\ flushes = 0 /\ crashes = 0

\* What can be read of a block: the index has a position for it and it is there.
Readable(b) == flags[b] \cap (files[b] \cup buffered[b])

-----------------------------------------------------------------------------
\* vinfoBlockFile: the blocks in a file.
BlocksIn(n) == {b \in index : "DATA" \in flags[b] /\ nFile[b] = n}

\* FlushBlockFile: the last block file and its undo file are committed to disk.
FlushedFilesNone == {}
FlushedFiles == {b \in Blocks : nFile[b] = last}
Written == [b \in Blocks |-> IF b \in FlushedFiles THEN files[b] \cup buffered[b] ELSE files[b]]
Unwritten == [b \in Blocks |-> IF b \in FlushedFiles THEN {} ELSE buffered[b]]

\* AcceptBlock: SaveBlockToDisk, ReceivedBlockTransactions.  FindBlockPos takes the last
\* file, or a new one when the block does not fit, after it has flushed the old one.
AcceptBlock(b) ==
    /\ pc = "run"
    /\ Parent[b] \in index /\ "DATA" \notin flags[b]
    /\ index' = index \cup {b}
    /\ flags' = [flags EXCEPT ![b] = {"DATA"}]
    /\ IF BlocksIn(last) \cup {b} \in Fits
       THEN /\ nFile' = [nFile EXCEPT ![b] = last]
            /\ buffered' = [buffered EXCEPT ![b] = {"DATA"}]
            /\ UNCHANGED <<last, files>>
       ELSE /\ files' = Written
            /\ last' = last + 1
            /\ nFile' = [nFile EXCEPT ![b] = last + 1]
            /\ buffered' = [Unwritten EXCEPT ![b] = {"DATA"}]
    /\ UNCHANGED <<tip, view, tree, coins, pc, full, toUnlink, cursor, flushes, crashes>>

\* ConnectTip: WriteUndoDataForBlock unless there is undo data; it goes to the undo file
\* of the block's own file, which need not be the last.
ConnectTip(b) ==
    /\ pc = "run"
    /\ b # Genesis /\ Parent[b] = tip /\ "DATA" \in Readable(b)
    /\ tip' = b
    /\ view' = Applied(view, b)
    /\ flags' = [flags EXCEPT ![b] = @ \cup {"UNDO"}]
    /\ buffered' = IF "UNDO" \in flags[b] THEN buffered
                   ELSE [buffered EXCEPT ![b] = @ \cup {"UNDO"}]
    /\ UNCHANGED <<index, nFile, last, files, tree, coins, pc, full, toUnlink, cursor, flushes,
                   crashes>>

\* DisconnectTip, if the block and its undo data can be read (otherwise the node aborts).
DisconnectTip ==
    /\ pc = "run"
    /\ tip # Genesis /\ Readable(tip) = {"DATA", "UNDO"}
    /\ tip' = Parent[tip]
    /\ view' = Undone(view, tip)
    /\ UNCHANGED <<index, flags, nFile, last, files, buffered, tree, coins, pc, full, toUnlink,
                   cursor, flushes, crashes>>

-----------------------------------------------------------------------------
\* FindFilesToPrune: files before the last whose blocks all lie deep enough.
Prunable ==
    {n \in 0..(last - 1) :
        /\ BlocksIn(n) # {}
        /\ \A b \in BlocksIn(n) : Height(b) + MinBlocksToKeep <= Height(tip)}
PruneSets == IF PruneMode THEN SUBSET Prunable ELSE {{}}

\* What PruneOneBlockFile leaves of a block's flags.
PrunedFlags(b) == {}

\* FlushStateToDisk: all of it, or (fPeriodicWrite) without the coins; files may be
\* chosen for pruning, which is put on record first and calls for a full flush.
BeginFlush(P, f) ==
    /\ pc = "run" /\ flushes < MaxFlushes
    /\ P # {} => f
    /\ flags' = [b \in Blocks |-> IF nFile[b] \in P THEN PrunedFlags(b) ELSE flags[b]]
    /\ toUnlink' = P /\ full' = f
    /\ havePruned' = (havePruned \/ P # {})
    /\ pc' = "files"
    /\ flushes' = flushes + 1
    /\ UNCHANGED <<index, tip, view, nFile, last, files, buffered, diskIndex, diskFlags, diskLast,
                   coins, cursor, crashes>>

\* The order of FlushStateToDisk's writes: block files, index, unlinking, coins.
AfterStageNoIndex(s) == IF s = "files" /\ full THEN "coins"
                        ELSE IF s = "files" THEN "index"
                        ELSE IF s = "index" THEN "unlink" ELSE "run"
AfterStage(s) ==
    CASE s = "files" -> "index"
      [] s = "index" -> "unlink"
      [] s = "unlink" -> IF full THEN "coins" ELSE "run"

FlushBlockFile ==
    /\ pc = "files"
    /\ files' = Written /\ buffered' = Unwritten
    /\ pc' = AfterStage("files")
    /\ UNCHANGED <<memory, tree, coins, full, toUnlink, cursor, flushes, crashes>>

\* CBlockTreeDB::WriteBatchSync: the dirty entries, and nLastBlockFile.
WriteBlockIndex ==
    /\ pc = "index"
    /\ diskIndex' = index /\ diskFlags' = flags /\ diskLast' = last
    /\ pc' = AfterStage("index")
    /\ UNCHANGED <<memory, files, buffered, havePruned, coins, full, toUnlink, cursor, flushes,
                   crashes>>

\* UnlinkPrunedFiles.
UnlinkPrunedFiles ==
    /\ pc = "unlink"
    /\ files' = [b \in Blocks |-> IF nFile[b] \in toUnlink THEN {} ELSE files[b]]
    /\ buffered' = [b \in Blocks |-> IF nFile[b] \in toUnlink THEN {} ELSE buffered[b]]
    /\ toUnlink' = {} /\ full' = FALSE
    /\ pc' = AfterStage("unlink")
    /\ UNCHANGED <<memory, tree, coins, cursor, flushes, crashes>>

\* CCoinsViewDB::BatchWrite's old_tip: that of the flush it completes, if any.
OldTipFlushed == best
OldTip == IF best = NoBlock /\ heads # <<>> THEN heads[2] ELSE best

\* CCoinsViewDB::BatchWrite: a partial batch; the first one has the marker.  (Writing an
\* entry that is the same changes nothing.)
PartialBatch(S) ==
    /\ pc = "coins"
    /\ db' = [o \in Outpoints |-> IF o \in S THEN view[o] ELSE db[o]]
    /\ heads' = <<tip, OldTip>> /\ best' = NoBlock
    /\ UNCHANGED <<memory, files, buffered, tree, pc, full, toUnlink, cursor, flushes, crashes>>

\* ... and the last batch (for a small flush, the only one).
FinalBatch ==
    /\ pc = "coins"
    /\ db' = view
    /\ heads' = <<>> /\ best' = tip
    /\ pc' = "run"
    /\ UNCHANGED <<memory, files, buffered, tree, full, toUnlink, cursor, flushes, crashes>>

-----------------------------------------------------------------------------
\* Memory is gone, and what the index database does not name in the files will be
\* overwritten.  The rest of what was not committed the process leaves to the system; when
\* the power fails, the system has written any part of it.
Named == [b \in Blocks |-> buffered[b] \cap diskFlags[b]]
Crash ==
    /\ pc \notin {"down", "failed"} /\ crashes < MaxCrashes
    /\ crashes' = crashes + 1
    /\ pc' = "down"
    /\ index' = {} /\ flags' = [b \in Blocks |-> {}]
    /\ tip' = Genesis /\ view' = UtxoAt[Genesis]
    /\ nFile' = [b \in Blocks |-> IF "DATA" \in diskFlags[b] THEN nFile[b] ELSE 0]
    /\ last' = diskLast
    /\ full' = FALSE /\ toUnlink' = {} /\ cursor' = NoBlock
    /\ \/ files' = files /\ buffered' = Named
       \/ /\ \E lost \in SUBSET {b \in Blocks : Named[b] # {}} :
                files' = [b \in Blocks |-> IF b \in lost THEN files[b] ELSE files[b] \cup Named[b]]
          /\ buffered' = [b \in Blocks |-> {}]
    /\ UNCHANGED <<tree, coins, flushes>>

Unknown(b) == b # NoBlock /\ b \notin diskIndex

\* LoadBlockIndex, LoadGenesisBlock, the check of ReplayBlocks for an interrupted
\* flush, and without one LoadChainTip.
Start ==
    /\ pc = "down"
    /\ index' = diskIndex \cup {Genesis}
    /\ flags' = [diskFlags EXCEPT ![Genesis] = IF Genesis \in diskIndex THEN @ ELSE {"DATA"}]
    /\ buffered' = [buffered EXCEPT ![Genesis] = IF Genesis \in diskIndex THEN @ ELSE {"DATA"}]
    /\ view' = db
    /\ CASE heads = <<>> ->
              /\ tip' = IF best = NoBlock THEN Genesis ELSE best
              /\ pc' = IF Unknown(best) THEN "failed" ELSE "run"
              /\ cursor' = NoBlock
         [] heads # <<>> /\ (Unknown(heads[1]) \/ Unknown(heads[2])) ->
              /\ pc' = "failed"
              /\ UNCHANGED <<tip, cursor>>
         [] OTHER ->
              /\ pc' = IF heads[2] = NoBlock THEN "forward" ELSE "rollback"
              /\ tip' = heads[1]
              /\ cursor' = IF heads[2] = NoBlock THEN Genesis ELSE heads[2]
    /\ UNCHANGED <<nFile, last, files, tree, coins, full, toUnlink, flushes, crashes>>

\* ReplayBlocks: undo a block of the old branch, if it can be read.
Rollback ==
    /\ pc = "rollback" /\ cursor \notin Path[tip]
    /\ IF Readable(cursor) = {"DATA", "UNDO"}
       THEN view' = Undone(view, cursor) /\ cursor' = Parent[cursor] /\ UNCHANGED pc
       ELSE pc' = "failed" /\ UNCHANGED <<view, cursor>>
    /\ UNCHANGED <<index, flags, tip, nFile, last, files, buffered, tree, coins, full, toUnlink,
                   flushes, crashes>>

\* The fork is reached.
RollbackDone ==
    /\ pc = "rollback" /\ cursor \in Path[tip]
    /\ pc' = "forward"
    /\ UNCHANGED <<memory, files, buffered, tree, coins, full, toUnlink, cursor, flushes, crashes>>

\* RollforwardBlock for the next block of the new branch.
RollforwardBlock ==
    /\ pc = "forward" /\ cursor # tip
    /\ LET b == CHOOSE x \in Path[tip] \ {Genesis} : Parent[x] = cursor IN
       IF "DATA" \in Readable(b)
       THEN view' = Applied(view, b) /\ cursor' = b /\ UNCHANGED pc
       ELSE pc' = "failed" /\ UNCHANGED <<view, cursor>>
    /\ UNCHANGED <<index, flags, tip, nFile, last, files, buffered, tree, coins, full, toUnlink,
                   flushes, crashes>>

\* cache.SetBestBlock, cache.Flush, and then LoadChainTip.
FlushReplayed ==
    /\ pc = "forward" /\ cursor = tip
    /\ pc' = "coins" /\ cursor' = NoBlock
    /\ UNCHANGED <<memory, files, buffered, tree, coins, full, toUnlink, flushes, crashes>>

Flush ==
    \/ FlushBlockFile \/ WriteBlockIndex \/ UnlinkPrunedFiles
    \/ \E S \in SUBSET {o \in Outpoints : db[o] # view[o]} : PartialBatch(S)
Startup == Start \/ Rollback \/ RollbackDone \/ RollforwardBlock \/ FlushReplayed

Next ==
    \/ \E b \in Blocks \ {Genesis} : AcceptBlock(b)
    \/ \E b \in Blocks : ConnectTip(b)
    \/ DisconnectTip
    \/ \E P \in PruneSets, f \in BOOLEAN : BeginFlush(P, f)
    \/ Flush \/ FinalBatch \/ Startup
    \/ Crash

\* Startup runs on, and a flush has finitely many batches.
Spec == Init /\ [][Next]_vars /\ WF_vars(Startup) /\ WF_vars(FinalBatch)

-----------------------------------------------------------------------------
Have == {{}, {"DATA"}, {"DATA", "UNDO"}}   \* no undo data without the block
Coins == 0..Cardinality(Blocks)

\* Every variable has its type.
TypeOK ==
    /\ index \subseteq Blocks /\ diskIndex \subseteq Blocks /\ toUnlink \subseteq 0..last
    /\ flags \in [Blocks -> Have] /\ diskFlags \in [Blocks -> Have]
    /\ files \in [Blocks -> SUBSET {"DATA", "UNDO"}]
    /\ buffered \in [Blocks -> SUBSET {"DATA", "UNDO"}]
    /\ last \in Nat /\ diskLast \in 0..last /\ nFile \in [Blocks -> 0..last]
    /\ tip \in Blocks /\ view \in [Outpoints -> Coins] /\ db \in [Outpoints -> Coins]
    /\ best \in Blocks \cup {NoBlock} /\ cursor \in Blocks \cup {NoBlock}
    /\ heads \in {<<>>} \cup (Blocks \X (Blocks \cup {NoBlock}))
    /\ pc \in {"run", "files", "index", "unlink", "coins", "down", "rollback", "forward",
               "failed"}
    /\ full \in BOOLEAN /\ havePruned \in BOOLEAN
    /\ flushes \in 0..MaxFlushes /\ crashes \in 0..MaxCrashes

\* Whenever the coins database says it is consistent with a block, it holds exactly
\* the coins of that block's chain: after crashes in the middle of flushes, of
\* reorganisations and of the replay of either.
DatabaseExact == best # NoBlock => db = UtxoAt[best]

\* The node works on the coins of its tip, after a replay as well.
ViewExact == pc \in {"run", "files", "index", "unlink", "coins"} => view = UtxoAt[tip]

\* Whenever the crash comes, an entry of the block index database points to data that is
\* on disk, with one exception: undo data that was written to a file before the last.
IndexBacked ==
    \A b \in Blocks :
        diskFlags[b] \ files[b] \subseteq IF nFile[b] < diskLast THEN {"UNDO"} ELSE {}

\* FlushStateToDisk: "First make sure all block and undo data is flushed to disk", before
\* the index refers to it.
AllBacked == \A b \in Blocks : diskFlags[b] \subseteq files[b]

\* Undo data the index database names is gone.
UndoLost == \E b \in Blocks : "UNDO" \in diskFlags[b] \ (files[b] \cup buffered[b])

\* The node starts after any crash: the blocks the coins database names are known, and
\* ReplayBlocks can read every block it has to undo or to apply.  Two things can prevent
\* it.  FlushStateToDisk unlinks pruned block files before it writes the coins, so that a
\* crash within the batches may call for a block that is gone; and undo data that was never
\* committed to disk may be lost.
Recovers == (pc = "down" /\ ~havePruned) ~> (pc = "run" \/ UndoLost)
=============================================================================
