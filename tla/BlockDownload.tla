--------------------------- MODULE BlockDownload ---------------------------
(***************************************************************************)
(* Headers-first block download (net_processing.cpp): who is asked for     *)
(* headers, which blocks are in flight from whom, the moving download      *)
(* window with its stalling detection, direct fetch, compact blocks, the   *)
(* timeouts that disconnect a peer, and FinalizeNode.                      *)
(*                                                                         *)
(* One message handler thread runs ProcessMessages and SendMessages for    *)
(* every peer under cs_main; FinalizeNode runs in the socket thread.       *)
(* Clocks are free: a timer of a peer that does not answer may expire at   *)
(* any SendMessages.  Blocks are valid; their work is their height.        *)
(***************************************************************************)
EXTENDS Integers, FiniteSets, FiniteSetsExt

CONSTANTS
    Peers,          \* the peers; a peer may connect again after a disconnection
    NoPeer,         \* -1
    Honest,         \* the peers that answer before any timer expires and stay connected
    Outbound,       \* the peers we connected to; the others are inbound
    NoBan,          \* the peers with PF_NOBAN
    Blocks,         \* the block tree
    Genesis,
    NoBlock,        \* nullptr
    Parent,         \* pprev
    Announces,      \* for each peer the blocks it may announce
    Sends,          \* for each peer the blocks it may send without a request
    Recent,         \* the blocks less than a day (nMaxTipAge) old
    Fresh,          \* those less than twenty block intervals old
    Window,         \* BLOCK_DOWNLOAD_WINDOW
    CompactDepth,   \* 2: how far above the tip a compact block is reconstructed
    MaxInTransit,   \* MAX_BLOCKS_IN_TRANSIT_PER_PEER
    MaxProtect,     \* MAX_OUTBOUND_PEERS_TO_PROTECT_FROM_DISCONNECT
    MaxConnects     \* bound: connections of one peer

VARIABLES
    headers,        \* mapBlockIndex
    have,           \* the blocks with BLOCK_HAVE_DATA
    tip,            \* ChainActive().Tip()
    nodes,          \* mapNodeState, with a fresh CNodeState where it has no entry
    connected,      \* the peers with an entry
    closing,        \* the peers with fDisconnect
    connects,       \* connections so far, per peer
    flight,         \* mapBlocksInFlight, vBlocksInFlight and their counters
    nSyncStarted,
    nPreferredDownload,
    nProtected      \* g_outbound_peers_with_protect_from_disconnect

vars == <<headers, have, tip, nodes, connected, closing, connects, flight, nSyncStarted,
          nPreferredDownload, nProtected>>

-----------------------------------------------------------------------------
(* The block tree.                                                          *)

PathTo[b \in Blocks] == IF b = Genesis THEN {Genesis} ELSE PathTo[Parent[b]] \cup {b}
Path == [b \in Blocks |-> PathTo[b]]
nHeight == [b \in Blocks |-> Cardinality(Path[b]) - 1]
Height(b) == nHeight[b]
Ancestor(b, h) == CHOOSE x \in Path[b] : Height(x) = h
\* The table of LastCommonAncestor.
fork == [a \in Blocks |-> [b \in Blocks |->
    CHOOSE x \in Path[a] \cap Path[b] : \A y \in Path[a] \cap Path[b] : Height(y) <= Height(x)]]
LastCommonAncestor(a, b) == fork[a][b]

ASSUME PeerAssumption == IsFiniteSet(Peers) /\ NoPeer \notin Peers
ASSUME TreeAssumption ==
    /\ IsFiniteSet(Blocks) /\ NoBlock \notin Blocks /\ Genesis \in Blocks
    /\ Path[Genesis] = {Genesis}
    /\ \A b \in Blocks \ {Genesis} : Parent[b] \in Blocks /\ Path[b] = Path[Parent[b]] \cup {b}
\* Consequences of these equations, by induction over the tree.
ASSUME PathAssumption ==
    \A b \in Blocks :
        /\ b \in Path[b] /\ Genesis \in Path[b] /\ Path[b] \subseteq Blocks
        /\ \A x \in Path[b] : Path[x] \subseteq Path[b]
        /\ nHeight[b] \in 0 .. Cardinality(Blocks)
        /\ \A h \in 0 .. nHeight[b] : \E x \in Path[b] : nHeight[x] = h

\* Of blocks of one chain, the n lowest, and the lowest.
Lowest(S, n) == {x \in S : Cardinality({y \in S : Height(y) < Height(x)}) < n}
First(S) == CHOOSE x \in S : \A y \in S : Height(x) <= Height(y)

HaveTxsDownloaded(b) == Path[b] \subseteq have

\* Work grows along with the time stamps, so a recent tip stays recent and needs no latch.
BestHeaderRecent == \E b \in headers : b \in Recent /\ \A x \in headers : Height(x) <= Height(b)
CanDirectFetch == tip \in Fresh
IsInitialBlockDownload == tip \notin Recent

-----------------------------------------------------------------------------
(* Peers.                                                                   *)

\* CNodeState of a new connection.
NewState(p) ==
    [best |-> NoBlock,              \* pindexBestKnownBlock
     unknown |-> NoBlock,           \* hashLastUnknownBlock
     common |-> NoBlock,            \* pindexLastCommonBlock
     preferred |-> p \in Outbound \cup NoBan,
     sync |-> FALSE,                \* fSyncStarted
     armed |-> FALSE,               \* nHeadersSyncTimeout is neither 0 nor max()
     protect |-> FALSE,             \* m_chain_sync.m_protect
     behind |-> NoBlock,            \* m_chain_sync.m_work_header while m_timeout is set
     asked |-> FALSE]               \* m_chain_sync.m_sent_getheaders

Work(b) == IF b = NoBlock THEN -1 ELSE Height(b)

\* ProcessBlockAvailability and UpdateBlockAvailability.
ProcessBlockAvailability(s, known) ==
    IF s.unknown = NoBlock \/ s.unknown \notin known THEN s
    ELSE [s EXCEPT !.best = IF Work(s.unknown) >= Work(@) THEN s.unknown ELSE @,
                   !.unknown = NoBlock]
UpdateBlockAvailability(s, b, known) ==
    LET t == ProcessBlockAvailability(s, known) IN
    IF b \in known THEN [t EXCEPT !.best = IF Work(b) >= Work(@) THEN b ELSE @]
    ELSE [t EXCEPT !.unknown = b]

-----------------------------------------------------------------------------
(* Blocks in flight.                                                        *)

NoFlight ==
    [from |-> [b \in Blocks |-> NoPeer],    \* mapBlocksInFlight
     queue |-> [p \in Peers |-> {}],        \* vBlocksInFlight, whose order only timers see
     count |-> [p \in Peers |-> 0],         \* nBlocksInFlight, nBlocksInFlightValidHeaders
     peers |-> 0,                           \* nPeersWithValidatedDownloads
     stalling |-> {},                       \* the peers with nStallingSince
     partial |-> {}]                        \* the entries with a partialBlock

\* Variant: nStallingSince is not reset.
MarkBlockAsReceivedStalling(f, b) ==
    LET p == f.from[b] IN
    IF p = NoPeer THEN f
    ELSE [f EXCEPT !.count[p] = @ - 1,
                   !.peers = IF f.count[p] = 1 THEN @ - 1 ELSE @,
                   !.queue[p] = @ \ {b},
                   !.from[b] = NoPeer,
                   !.partial = @ \ {b}]
MarkBlockAsReceived(f, b) ==
    LET p == f.from[b] IN
    IF p = NoPeer THEN f
    ELSE [f EXCEPT !.count[p] = @ - 1,
                   !.peers = IF f.count[p] = 1 THEN @ - 1 ELSE @,
                   !.queue[p] = @ \ {b},
                   !.stalling = @ \ {p},
                   !.from[b] = NoPeer,
                   !.partial = @ \ {b}]

\* MarkBlockAsInFlight for each block of S, none of which is in flight.  Every caller passes
\* pindex, so the headers are always validated.
MarkAllInFlight(f, p, S) ==
    [f EXCEPT !.count[p] = @ + Cardinality(S),
              !.peers = IF f.count[p] = 0 /\ S # {} THEN @ + 1 ELSE @,
              !.queue[p] = @ \cup S,
              !.from = [b \in Blocks |-> IF b \in S THEN p ELSE @[b]]]

MarkBlockAsInFlight(f, p, b) ==
    IF f.from[b] = p THEN f ELSE MarkAllInFlight(MarkBlockAsReceived(f, b), p, {b})

\* The walk passes over a block we have; pindexLastCommonBlock follows if nothing is missing
\* below it.
Here(b) == b \in have \cup Path[tip]
\* Variant: it follows over gaps.
MovesCommonOverGaps(b) == Here(b)
MovesCommon(b) == Here(b) /\ HaveTxsDownloaded(b)

\* The walk of FindNextBlocksToDownload from common to s.best: it stops at the count-th block
\* to ask for, or at one past the window, where it names the peer that holds up the window.
Walk(f, p, s, common, count) ==
    LET windowEnd == Height(common) + Window
        ahead == {b \in Path[s.best] : Height(b) > Height(common) /\ Height(b) <= windowEnd + 1}
        wanted == {b \in ahead : ~Here(b) /\ f.from[b] = NoPeer}
        vBlocks == Lowest({b \in wanted : Height(b) <= windowEnd}, count)
        visited == IF Cardinality(vBlocks) < count THEN ahead
                   ELSE {b \in ahead : \E x \in vBlocks : Height(b) < Height(x)}
        linked == {common} \cup {b \in visited : MovesCommon(b)}
        inFlight == {b \in ahead : ~Here(b) /\ f.from[b] # NoPeer}
        waitingfor == IF inFlight = {} THEN NoPeer ELSE f.from[First(inFlight)]
    IN [common |-> CHOOSE b \in linked : \A x \in linked : Height(x) <= Height(b),
        vBlocks |-> vBlocks,
        staller |-> IF vBlocks = {} /\ wanted # {} /\ waitingfor # p THEN waitingfor ELSE NoPeer]

\* FindNextBlocksToDownload for a peer whose state is s after ProcessBlockAvailability.
FindNextBlocksToDownload(f, p, s, count) ==
    LET nothing(c) == [common |-> c, vBlocks |-> {}, staller |-> NoPeer]
        guess == IF s.common # NoBlock THEN s.common
                 ELSE Ancestor(tip, Min({Height(s.best), Height(tip)}))
        common == LastCommonAncestor(guess, s.best)
    IN IF Work(s.best) < Work(tip) THEN nothing(s.common)
       ELSE IF common = s.best THEN nothing(common)
       ELSE Walk(f, p, s, common, count)

-----------------------------------------------------------------------------
Init ==
    /\ headers = {Genesis}
    /\ have = {Genesis}
    /\ tip = Genesis
    /\ nodes = [p \in Peers |-> NewState(p)]
    /\ connected = {}
    /\ closing = {}
    /\ connects = [p \in Peers |-> 0]
    /\ flight = NoFlight
    /\ nSyncStarted = 0
    /\ nPreferredDownload = 0
    /\ nProtected = 0

One(condition) == IF condition THEN 1 ELSE 0
Live(p) == p \in connected \ closing
MaySend(p) == Sends[p] \cup {b \in Blocks : flight.from[b] = p}

\* InitializeNode, and UpdatePreferredDownload when the version message arrives.
InitializeNode(p) ==
    /\ p \notin connected
    /\ connects[p] < MaxConnects
    /\ connects' = [connects EXCEPT ![p] = @ + 1]
    /\ connected' = connected \cup {p}
    /\ nPreferredDownload' = nPreferredDownload + One(NewState(p).preferred)
    /\ UNCHANGED <<headers, have, tip, nodes, closing, flight, nSyncStarted, nProtected>>

\* Variant: nPeersWithValidatedDownloads is left alone.
DropPeerUncounted(f, p) ==
    [f EXCEPT !.from = [b \in Blocks |-> IF b \in f.queue[p] THEN NoPeer ELSE @[b]],
              !.queue[p] = {},
              !.count[p] = 0,
              !.stalling = @ \ {p},
              !.partial = @ \ f.queue[p]]
\* The in-flight part of FinalizeNode.
DropPeer(f, p) ==
    [f EXCEPT !.from = [b \in Blocks |-> IF b \in f.queue[p] THEN NoPeer ELSE @[b]],
              !.queue[p] = {},
              !.count[p] = 0,
              !.peers = @ - One(f.count[p] # 0),
              !.stalling = @ \ {p},
              !.partial = @ \ f.queue[p]]

\* FinalizeNode, after fDisconnect or when the peer closes the connection.
FinalizeNode(p) ==
    /\ p \in connected
    /\ p \in closing \/ p \notin Honest
    /\ nSyncStarted' = nSyncStarted - One(nodes[p].sync)
    /\ nPreferredDownload' = nPreferredDownload - One(nodes[p].preferred)
    /\ nProtected' = nProtected - One(nodes[p].protect)
    /\ flight' = DropPeer(flight, p)
    /\ nodes' = [nodes EXCEPT ![p] = NewState(p)]
    /\ connected' = connected \ {p}
    /\ closing' = closing \ {p}
    /\ UNCHANGED <<headers, have, tip, connects>>

-----------------------------------------------------------------------------
(* Received messages.                                                       *)

\* ProcessNewBlock: the header is accepted; a requested block, or one with at least the work
\* of the tip, is stored and the best chain activated.
ProcessNewBlock(b, fRequested) ==
    /\ headers' = IF Parent[b] \in headers THEN headers \cup {b} ELSE headers
    /\ IF b \in headers' \ have /\ (fRequested \/ Height(b) >= Height(tip))
       THEN /\ have' = have \cup {b}
            /\ LET full == {x \in Blocks : Path[x] \subseteq have'}
                   best == {x \in full : \A y \in full : Height(y) <= Height(x)} IN
               tip' \in IF tip \in best THEN {tip} ELSE best
       ELSE UNCHANGED <<have, tip>>

\* A peer with PF_NOBAN is trusted not to send what a ban would answer.
MayMisbehave(p) == p \notin Honest \cup NoBan

\* Misbehaving by 100: MaybeDiscourageAndDisconnect follows the message.
Misbehaving(p) == closing \cup {p}

\* A block message; bad stands for a block that does not match its header.
Block(p, b, bad) ==
    /\ Live(p) /\ b \in MaySend(p)
    /\ bad => MayMisbehave(p)
    /\ UNCHANGED <<nodes, connected, connects, nSyncStarted, nPreferredDownload, nProtected>>
    /\ flight' = MarkBlockAsReceived(flight, b)
    /\ IF bad THEN closing' = Misbehaving(p) /\ UNCHANGED <<headers, have, tip>>
       ELSE UNCHANGED closing /\ ProcessNewBlock(b, flight.from[b] # NoPeer)

\* An inv, or headers that do not connect: only the availability changes.
Announce(p, b) ==
    /\ Live(p) /\ b \in Announces[p]
    /\ nodes' = [nodes EXCEPT ![p] = UpdateBlockAvailability(@, b, headers)]
    /\ UNCHANGED <<headers, have, tip, closing, connected, connects, flight, nSyncStarted,
                   nPreferredDownload, nProtected>>

\* Variant: blocks off the active chain that we already have are asked for again.
DirectFetchAgain(f, p, b) ==
    LET missing == {x \in Path[b] \ Path[tip] : f.from[x] = NoPeer}
        above(x) == Cardinality({y \in missing : Height(y) > Height(x)})
        large == \E x \in missing : above(x) = MaxInTransit /\ Parent[x] \notin Path[tip]
    IN IF ~CanDirectFetch \/ Height(tip) > Height(b) \/ large THEN f
       ELSE MarkAllInFlight(f, p, Lowest(missing, MaxInTransit - f.count[p]))

\* Direct fetch: the missing blocks between the active chain and b, earliest first, unless
\* the walk down from b collects too many before it meets the chain.
DirectFetch(f, p, b) ==
    LET missing == {x \in Path[b] \ Path[tip] : x \notin have /\ f.from[x] = NoPeer}
        above(x) == Cardinality({y \in missing : Height(y) > Height(x)})
        large == \E x \in missing : above(x) = MaxInTransit /\ Parent[x] \notin Path[tip]
    IN IF ~CanDirectFetch \/ Height(tip) > Height(b) \/ large THEN f
       ELSE MarkAllInFlight(f, p, Lowest(missing, MaxInTransit - f.count[p]))

\* ProcessHeadersMessage for connecting headers up to b, with known the block index after it.
ProcessHeaders(p, b, known) ==
    LET s == UpdateBlockAvailability(nodes[p], b, known)
        protects == /\ p \in Outbound /\ ~s.protect
                    /\ nProtected < MaxProtect
                    /\ Work(s.best) >= Work(tip) IN
    /\ headers' = known
    /\ nodes' = [nodes EXCEPT ![p] = [s EXCEPT !.protect = @ \/ protects]]
    /\ nProtected' = nProtected + One(protects)
    /\ flight' = DirectFetch(flight, p, b)

Headers(p, b) ==
    /\ Live(p) /\ b \in Announces[p]
    /\ UNCHANGED <<have, tip, closing, connected, connects, nSyncStarted, nPreferredDownload>>
    /\ ProcessHeaders(p, b, headers \cup Path[b])

\* A compact block: "invalid", "pending" (transactions are missing, or it is asked for as a
\* plain block) or "complete" (reconstructed from the pool).
CmpctBlock(p, b, outcome) ==
    LET known == headers \cup {b}
        s == UpdateBlockAvailability(nodes[p], b, known)
        from == flight.from[b]
        useless == \/ b \in have
                   \/ Height(b) <= Height(tip)
                   \/ from = NoPeer /\ ~CanDirectFetch
        near == Height(b) <= Height(tip) + CompactDepth
        mine == (from = NoPeer /\ flight.count[p] < MaxInTransit) \/ from = p
        marked == [MarkBlockAsInFlight(flight, p, b) EXCEPT !.partial = @ \cup {b}] IN
    /\ Live(p) /\ b \in MaySend(p) /\ Parent[b] \in headers
    /\ outcome = "invalid" => MayMisbehave(p)
    /\ \/ /\ useless \/ (near /\ mine /\ b \in flight.partial) \/ (~near /\ from # NoPeer)
             \/ (near /\ ~mine /\ outcome # "complete")
          /\ headers' = known /\ nodes' = [nodes EXCEPT ![p] = s]
          /\ UNCHANGED <<have, tip, closing, flight, nProtected>>
       \/ /\ ~useless /\ near /\ mine /\ b \notin flight.partial
          /\ nodes' = [nodes EXCEPT ![p] = s]
          /\ UNCHANGED nProtected
          /\ flight' = IF outcome = "pending" THEN marked ELSE MarkBlockAsReceived(marked, b)
          /\ closing' = IF outcome = "invalid" THEN Misbehaving(p) ELSE closing
          /\ IF outcome = "complete" THEN ProcessNewBlock(b, TRUE)
             ELSE headers' = known /\ UNCHANGED <<have, tip>>
       \/ /\ ~useless /\ near /\ ~mine /\ outcome = "complete"
          /\ nodes' = [nodes EXCEPT ![p] = s]
          /\ ProcessNewBlock(b, TRUE)
          /\ flight' = MarkBlockAsReceived(flight, b)
          /\ UNCHANGED <<closing, nProtected>>
       \/ /\ ~useless /\ ~near /\ from = NoPeer
          /\ ProcessHeaders(p, b, known)
          /\ UNCHANGED <<have, tip, closing>>
    /\ UNCHANGED <<connected, connects, nSyncStarted, nPreferredDownload>>

\* blocktxn for a compact block in flight from p.
BlockTxn(p, b, outcome) ==
    /\ Live(p) /\ flight.from[b] = p /\ b \in flight.partial
    /\ outcome = "invalid" => MayMisbehave(p)
    /\ flight' = IF outcome = "pending" THEN flight ELSE MarkBlockAsReceived(flight, b)
    /\ closing' = IF outcome = "invalid" THEN Misbehaving(p) ELSE closing
    /\ IF outcome = "complete" THEN ProcessNewBlock(b, TRUE) ELSE UNCHANGED <<headers, have, tip>>
    /\ UNCHANGED <<nodes, connected, connects, nSyncStarted, nPreferredDownload, nProtected>>
-----------------------------------------------------------------------------
(* SendMessages.                                                            *)

fFetch(p) == nodes[p].preferred \/ nPreferredDownload = 0
StartsSync(p) == ~nodes[p].sync /\ ((nSyncStarted = 0 /\ fFetch(p)) \/ BestHeaderRecent)
Started(p) == IF StartsSync(p) THEN [nodes[p] EXCEPT !.sync = TRUE, !.armed = TRUE] ELSE nodes[p]

\* The sync peer let the headers timer expire, and there is another peer to use.
HeadersLate(p, expired) ==
    /\ expired = "headers" /\ Started(p).sync /\ Started(p).armed
    /\ ~BestHeaderRecent
    /\ nSyncStarted + One(StartsSync(p)) = 1
    /\ nPreferredDownload - One(nodes[p].preferred) >= 1

\* Variant: a block may be in flight for ever while the window moves.
TimedOutUnlessBlocked(p, expired) ==
    \/ expired = "stall" /\ p \in flight.stalling
    \/ HeadersLate(p, expired) /\ p \notin NoBan
\* The timeouts that disconnect at once.
TimedOut(p, expired) ==
    \/ expired = "stall" /\ p \in flight.stalling
    \/ expired = "block" /\ flight.queue[p] # {}
    \/ HeadersLate(p, expired) /\ p \notin NoBan

\* The headers timer of a peer that is not disconnected by it.
HeadersTimer(p, expired, s) ==
    IF HeadersLate(p, expired) THEN [s EXCEPT !.sync = FALSE, !.armed = FALSE]
    ELSE IF s.sync /\ s.armed /\ BestHeaderRecent THEN [s EXCEPT !.armed = FALSE] ELSE s

\* ConsiderEviction: an outbound peer whose chain stays behind our tip is asked for headers
\* once, then evicted.
Behind(p, s) == ~s.protect /\ p \in Outbound /\ s.sync /\ Work(s.best) < Work(tip)
Overdue(p, expired, s) ==
    expired = "chain" /\ Behind(p, s) /\ s.behind # NoBlock /\ Work(s.best) < Work(s.behind)
Evicts(p, expired, s) == Overdue(p, expired, s) /\ s.asked
ConsiderEviction(p, expired, s) ==
    IF s.protect \/ p \notin Outbound \/ ~s.sync THEN s
    ELSE IF ~Behind(p, s) THEN [s EXCEPT !.behind = NoBlock, !.asked = FALSE]
    ELSE IF s.behind = NoBlock \/ Work(s.best) >= Work(s.behind)
         THEN [s EXCEPT !.behind = tip, !.asked = FALSE]
    ELSE [s EXCEPT !.asked = @ \/ Overdue(p, expired, s)]

\* The getdata part, for p in state s: blocks are requested, or the peer that holds up the
\* window is marked.
Fetch(p, s) ==
    IF (fFetch(p) \/ ~IsInitialBlockDownload) /\ flight.count[p] < MaxInTransit
    THEN \E t \in {ProcessBlockAvailability(s, headers)} :
         \E found \in {FindNextBlocksToDownload(flight, p, t, MaxInTransit - flight.count[p])} :
            LET stallers == IF flight.count[p] = 0 /\ found.vBlocks = {} THEN {found.staller} \ {NoPeer}
                            ELSE {} IN
            /\ nodes' = [nodes EXCEPT ![p] = [t EXCEPT !.common = found.common]]
            /\ flight' = [MarkAllInFlight(flight, p, found.vBlocks) EXCEPT !.stalling = @ \cup stallers]
    ELSE nodes' = [nodes EXCEPT ![p] = s] /\ UNCHANGED flight

Timers == {"none", "stall", "block", "headers", "chain"}

\* SendMessages for p, with at most one timer expired.
SendMessages(p, expired) ==
    /\ Live(p)
    /\ expired # "none" => p \notin Honest
    /\ UNCHANGED <<headers, have, tip, connected, connects, nPreferredDownload, nProtected>>
    /\ IF TimedOut(p, expired)
       THEN /\ closing' = closing \cup {p}
            /\ nodes' = [nodes EXCEPT ![p] = Started(p)]
            /\ nSyncStarted' = nSyncStarted + One(StartsSync(p))
            /\ UNCHANGED flight
       ELSE \E s \in {HeadersTimer(p, expired, Started(p))} :
            /\ closing' = IF Evicts(p, expired, s) THEN closing \cup {p} ELSE closing
            /\ \E t \in {ConsiderEviction(p, expired, s)} : Fetch(p, t)
            /\ nSyncStarted' = nSyncStarted + One(StartsSync(p)) - One(HeadersLate(p, expired))

-----------------------------------------------------------------------------
Message(p) ==
    \E b \in Blocks :
        \/ Announce(p, b)
        \/ Headers(p, b)
        \/ \E bad \in BOOLEAN : Block(p, b, bad)
        \/ \E outcome \in {"invalid", "pending", "complete"} :
               CmpctBlock(p, b, outcome) \/ BlockTxn(p, b, outcome)

Next ==
    \E p \in Peers :
        \/ InitializeNode(p)
        \/ FinalizeNode(p)
        \/ Message(p)
        \/ \E expired \in Timers : SendMessages(p, expired)

\* An honest peer answers a getheaders with the header of its best block and a getdata with
\* the block.
AnswersHeaders(p) == p \in connected /\ nodes[p].sync /\ \E b \in Announces[p] : Headers(p, b)
AnswersBlock(p) == \E b \in flight.queue[p] : Block(p, b, FALSE)

\* A timer that disconnects the peer, or restarts the headers sync, expires.
TimesOut(p) == Live(p) /\ \E expired \in Timers : TimedOut(p, expired) /\ SendMessages(p, expired)
RestartsSync(p) == Live(p) /\ HeadersLate(p, "headers") /\ SendMessages(p, "headers")

\* Clocks advance, so the timers of a peer that stays silent expire; a peer with fDisconnect
\* is finalized by the socket thread.  The message handler thread visits the peers in turn,
\* so an honest peer gets its SendMessages.
Fairness ==
    /\ \A p \in Peers \ Honest :
        /\ WF_vars(TimesOut(p))
        /\ WF_vars(RestartsSync(p))
        /\ WF_vars(p \in closing /\ FinalizeNode(p))
    /\ \A p \in Honest :
        /\ WF_vars(InitializeNode(p))
        /\ WF_vars(SendMessages(p, "none"))
        /\ WF_vars(AnswersHeaders(p))
        /\ WF_vars(AnswersBlock(p))

Spec == Init /\ [][Next]_vars /\ Fairness

-----------------------------------------------------------------------------
(* Properties.                                                              *)

TypeOK ==
    /\ {headers, have} \subseteq SUBSET Blocks
    /\ tip \in have
    /\ closing \subseteq connected
    /\ flight.from \in [Blocks -> Peers \cup {NoPeer}]
    /\ flight.count \in [Peers -> 0 .. MaxInTransit]
    /\ nProtected \in 0 .. MaxProtect

\* mapBlocksInFlight, the peers' queues and the counters agree: a block is in flight from at
\* most one peer, which is connected and has it in its queue, and the global counters
\* are those of the connected peers.  It is what FinalizeNode asserts after the last peer
\* (net_processing.cpp:807-813), at every point, and what MarkBlockAsReceived's
\* assert(state != nullptr) needs.
InFlightExact ==
    /\ \A p \in Peers :
        /\ flight.queue[p] = {b \in Blocks : flight.from[b] = p}
        /\ flight.count[p] = Cardinality(flight.queue[p])
        /\ p \notin connected => flight.queue[p] = {}
    /\ flight.peers = Cardinality({p \in Peers : flight.count[p] > 0})
    /\ flight.partial \subseteq {b \in Blocks : flight.from[b] # NoPeer}
    /\ nSyncStarted = Cardinality({p \in connected : nodes[p].sync})
    /\ nPreferredDownload = Cardinality({p \in connected : nodes[p].preferred})
    /\ nProtected = Cardinality({p \in connected : nodes[p].protect})

\* Only missing blocks are in flight: no download timeout runs against a peer for a block
\* that has arrived by another way (another peer, a compact block, an unrequested block).
RequestsUseful == \A b \in Blocks : flight.from[b] # NoPeer => b \in headers \ have

\* A peer marked as stalling (nStallingSince) holds a block, so the two seconds after which
\* it is disconnected never run against a peer that owes nothing.
StallersHold == \A p \in flight.stalling : flight.queue[p] # {}

\* Everything below pindexLastCommonBlock is downloaded: the download window of a peer starts
\* at its first missing block, and no block below it is ever forgotten.
CommonDownloaded ==
    \A p \in connected : nodes[p].common # NoBlock => HaveTxsDownloaded(nodes[p].common)

\* However the other peers stall, mislead or disconnect, the node ends up with a tip of at
\* least the work of every honest outbound peer's chain.
CatchesUp == \A p \in Honest : \A b \in Announces[p] : <>(Height(tip) >= Height(b))

=============================================================================
