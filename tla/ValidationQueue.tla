-------------------------- MODULE ValidationQueue --------------------------
(***************************************************************************)
(* How validation's events reach their listeners: the CScheduler's service *)
(* threads (scheduler.cpp), the SingleThreadedSchedulerClient that runs    *)
(* one callback at a time on them, MainSignalsInstance's list of listeners *)
(* (validationinterface.cpp), and the order in which Shutdown (init.cpp)   *)
(* takes them down.  An action is one critical section of newTaskMutex,    *)
(* m_cs_callbacks_pending or m_mutex; a listener's callback runs between   *)
(* two sections of m_mutex.                                                *)
(***************************************************************************)
EXTENDS Integers, Sequences, FiniteSets

CONSTANTS
    Threads,        \* run CScheduler::serviceQueue
    Producers,      \* the threads of the network, of RPC and of validation
    Main,           \* runs Shutdown
    Listeners,
    Residents,      \* the listeners that stay registered until Clear
    MaxEvents,      \* bound on the events queued
    MaxSyncs,       \* bound on the calls of SyncWithValidationInterfaceQueue
    MaxSignals,     \* bound on the synchronous events (BlockChecked, NewPoWValidBlock)
    MaxEntries      \* bound on the entries m_list ever has

Actors == Threads \cup Producers \cup {Main}

ASSUME ValidationQueueAssumption ==
    /\ Residents \subseteq Listeners /\ IsFiniteSet(Listeners)
    /\ IsFiniteSet(Threads) /\ IsFiniteSet(Producers)
    /\ Threads \cap Producers = {} /\ Main \notin Threads \cup Producers
    /\ MaxEvents \in Nat /\ MaxSyncs \in Nat /\ MaxSignals \in Nat /\ MaxEntries \in Nat

\* A queued callback: the n-th event, or a promise to be set.
None == [kind |-> "none"]
Event(n) == [kind |-> "event", n |-> n]
Promise(p, n) == [kind |-> "promise", owner |-> p, n |-> n]
Callbacks == {Event(n) : n \in 1..MaxEvents}
             \cup {Promise(p, n) : p \in Producers, n \in 0..MaxEvents}

VARIABLES
    taskQueue,      \* how many ProcessQueue it holds, all of them due
    stopRequested,
    pending,        \* m_callbacks_pending
    running,        \* m_are_callbacks_running
    m_list, m_map,  \* an entry is named by its id; m_map has 0 for the unregistered
    pc,             \* where each thread is
    callback,       \* the callback ProcessQueue runs on each thread
    it,             \* the id of the entry each thread's Iterate is calling, or 0
    promise,        \* what SyncWithValidationInterfaceQueue waits for
    delivered,      \* the events each listener has received
    events, syncs, signals, entries

scheduler == <<taskQueue, stopRequested>>
client == <<pending, running, callback>>
list == <<m_list, m_map, entries>>
counters == <<events, syncs, signals>>
vars == <<scheduler, client, list, pc, it, promise, delivered, counters>>

Init ==
    /\ taskQueue = 0 /\ stopRequested = FALSE
    /\ pending = <<>> /\ running = FALSE
    /\ m_map \in [Listeners -> 1..Cardinality(Listeners)]
    /\ \A k, l \in Listeners : m_map[k] = m_map[l] => k = l
    /\ m_list = [i \in 1..Cardinality(Listeners) |->
                    [id |-> i, who |-> CHOOSE l \in Listeners : m_map[l] = i, count |-> 1]]
    /\ entries = Cardinality(Listeners)
    /\ pc = [a \in Actors |-> IF a \in Threads THEN "check"
                              ELSE IF a = Main THEN "up" ELSE "idle"]
    /\ callback = [a \in Actors |-> None]
    /\ it = [a \in Actors |-> 0]
    /\ promise = [p \in Producers |-> "none"]
    /\ delivered = [l \in Listeners |-> <<>>]
    /\ events = 0 /\ syncs = 0 /\ signals = 0

Goto(a, where) == pc' = [pc EXCEPT ![a] = where]

-----------------------------------------------------------------------------
(* CScheduler.  A thread is "waiting" in newTaskScheduled.wait, or "timed" *)
(* in wait_until; the task it waits for there is due.                      *)

\* whom notify_one may wake
WakeOne(p) ==
    LET asleep == {t \in Threads : p[t] \in {"waiting", "timed"}}
    IN  IF asleep = {} THEN {p} ELSE {[p EXCEPT ![t] = "check"] : t \in asleep}

\* serviceQueue: the loop's conditions, up to a wait
Check(t) ==
    /\ pc[t] = "check" /\ ~stopRequested
    /\ Goto(t, IF taskQueue = 0 THEN "waiting" ELSE "timed")
    /\ UNCHANGED <<scheduler, client, list, it, promise, delivered, counters>>

\* serviceQueue: the loop ends
Exit(t) ==
    /\ pc[t] = "check" /\ stopRequested
    /\ pc' \in WakeOne([pc EXCEPT ![t] = "exit"])
    /\ UNCHANGED <<scheduler, client, list, it, promise, delivered, counters>>

\* serviceQueue: the time has come; take the task unless another thread did
TaskLeft == ~stopRequested /\ taskQueue > 0
TakeTask(t) ==
    /\ pc[t] = "timed"
    /\ IF TaskLeft
       THEN Goto(t, "process") /\ taskQueue' = taskQueue - 1
       ELSE Goto(t, "check") /\ UNCHANGED taskQueue
    /\ UNCHANGED <<stopRequested, client, list, it, promise, delivered, counters>>

\* a condition variable may wake a thread for no reason
SpuriousWakeup(t) ==
    /\ pc[t] = "waiting"
    /\ Goto(t, "check")
    /\ UNCHANGED <<scheduler, client, list, it, promise, delivered, counters>>

-----------------------------------------------------------------------------
(* SingleThreadedSchedulerClient.                                          *)

\* where a thread goes on after ProcessQueue or AddToProcessQueue
After(a) ==
    IF a \in Threads THEN "check"
    ELSE IF a = Main THEN "more"
    ELSE IF promise[a] = "none" THEN "idle" ELSE "blocked"

\* The guard of MaybeScheduleProcessQueue and of ProcessQueue.
MayRunAnyway == pending # <<>>
MayRun == ~running /\ pending # <<>>

\* MaybeScheduleProcessQueue, up to the call of schedule
MaybeScheduleProcessQueue(a) ==
    /\ pc[a] = "maybe"
    /\ Goto(a, IF MayRun THEN "schedule" ELSE After(a))
    /\ UNCHANGED <<scheduler, client, list, it, promise, delivered, counters>>

\* CScheduler::schedule
Schedule(a) ==
    /\ pc[a] = "schedule"
    /\ taskQueue' = taskQueue + 1
    /\ pc' \in WakeOne([pc EXCEPT ![a] = After(a)])
    /\ UNCHANGED <<stopRequested, client, list, it, promise, delivered, counters>>

\* ProcessQueue: take the first callback
ProcessQueue(a) ==
    /\ pc[a] = "process"
    /\ IF MayRun
       THEN /\ running' = TRUE
            /\ callback' = [callback EXCEPT ![a] = Head(pending)]
            /\ pending' = Tail(pending)
            /\ Goto(a, "call")
       ELSE Goto(a, After(a)) /\ UNCHANGED client
    /\ UNCHANGED <<scheduler, list, it, promise, delivered, counters>>

\* ~RAIICallbacksRunning, which goes on to MaybeScheduleProcessQueue
AfterCallbackNothing(a) == After(a)
AfterCallback(a) == "maybe"
Finish(a) ==
    /\ pc[a] = "finish"
    /\ running' = FALSE
    /\ callback' = [callback EXCEPT ![a] = None]
    /\ Goto(a, AfterCallback(a))
    /\ UNCHANGED <<pending, scheduler, list, it, promise, delivered, counters>>

\* AddToProcessQueue, up to MaybeScheduleProcessQueue
AddToProcessQueue(a, c) ==
    /\ pending' = Append(pending, c)
    /\ Goto(a, "maybe")
    /\ UNCHANGED <<running, callback>>

-----------------------------------------------------------------------------
(* MainSignalsInstance.                                                    *)

Position(id) == CHOOSE i \in DOMAIN m_list : m_list[i].id = id

\* Iterate's loop head, at position i of L: the list it leaves, and the entry called.
Visit(L, i) ==
    IF i <= Len(L) THEN [list |-> [L EXCEPT ![i].count = @ + 1], at |-> L[i].id]
    ELSE [list |-> L, at |-> 0]

\* m_list.erase
Erase(L, i) == SubSeq(L, 1, i - 1) \o SubSeq(L, i + 1, Len(L))

\* --count, and the entry goes if that was the last reference
Drop(L, i) ==
    IF L[i].count = 1 THEN Erase(L, i) ELSE [L EXCEPT ![i].count = @ - 1]

\* Iterate's loop tail and next head, after the callback of the entry at i.
NextVisitSkips(i) == Visit(Drop(m_list, i), i + 1)
NextVisit(i) == Visit(Drop(m_list, i), IF m_list[i].count = 1 THEN i ELSE i + 1)

\* where a thread goes on after Iterate
AfterIterate(a) == IF callback[a] = None THEN "idle" ELSE "finish"

\* Iterate up to the first listener's callback
BeginIterate(a) ==
    LET v == Visit(m_list, 1)
    IN  /\ m_list' = v.list
        /\ it' = [it EXCEPT ![a] = v.at]
        /\ Goto(a, IF v.at = 0 THEN AfterIterate(a) ELSE "iterate")

\* Iterate from the return of one listener's callback to the next one's call
ContinueIterate(a) ==
    /\ pc[a] = "iterate"
    /\ LET i == Position(it[a])
           v == NextVisit(i)
       IN  /\ m_list' = v.list
           /\ it' = [it EXCEPT ![a] = v.at]
           /\ Goto(a, IF v.at = 0 THEN AfterIterate(a) ELSE "iterate")
           /\ delivered' = IF callback[a] = None THEN delivered
                           ELSE [delivered EXCEPT ![m_list[i].who] = Append(@, callback[a].n)]
    /\ UNCHANGED <<m_map, entries, scheduler, client, promise, counters>>

\* a queued callback starts: an event's Iterate, or set_value
Call(a) ==
    /\ pc[a] = "call"
    /\ \/ /\ callback[a].kind = "event"
          /\ BeginIterate(a) /\ UNCHANGED promise
       \/ /\ callback[a].kind = "promise"
          /\ promise' = [promise EXCEPT ![callback[a].owner] = "set"]
          /\ Goto(a, "finish") /\ UNCHANGED <<m_list, it>>
    /\ UNCHANGED <<m_map, entries, scheduler, client, delivered, counters>>

Register(l) ==
    /\ m_map[l] = 0 /\ entries < MaxEntries
    /\ entries' = entries + 1
    /\ m_list' = Append(m_list, [id |-> entries + 1, who |-> l, count |-> 1])
    /\ m_map' = [m_map EXCEPT ![l] = entries + 1]
    /\ UNCHANGED <<scheduler, client, pc, it, promise, delivered, counters>>

UnregisteredErases(l) == Erase(m_list, Position(m_map[l]))
Unregistered(l) == Drop(m_list, Position(m_map[l]))
Unregister(l) ==
    /\ m_map[l] # 0
    /\ m_list' = Unregistered(l)
    /\ m_map' = [m_map EXCEPT ![l] = 0]
    /\ UNCHANGED <<entries, scheduler, client, pc, it, promise, delivered, counters>>

-----------------------------------------------------------------------------
(* The producers.  CMainSignals' events are queued with cs_main held, so   *)
(* their numbers are the order in which validation generated them.         *)

QueueEvent(p) ==
    /\ pc[p] = "idle" /\ events < MaxEvents /\ pc[Main] = "up"
    /\ AddToProcessQueue(p, Event(events + 1))
    /\ events' = events + 1
    /\ UNCHANGED <<scheduler, list, it, promise, delivered, syncs, signals>>

\* BlockChecked and NewPoWValidBlock call the listeners themselves.
SignalNow(p) ==
    /\ pc[p] = "idle" /\ signals < MaxSignals /\ pc[Main] = "up"
    /\ BeginIterate(p)
    /\ signals' = signals + 1
    /\ UNCHANGED <<m_map, entries, scheduler, client, promise, delivered, events, syncs>>

SyncWithValidationInterfaceQueue(p) ==
    /\ pc[p] = "idle" /\ syncs < MaxSyncs /\ pc[Main] = "up"
    /\ AddToProcessQueue(p, Promise(p, events))
    /\ promise' = [promise EXCEPT ![p] = "waiting"]
    /\ syncs' = syncs + 1
    /\ UNCHANGED <<scheduler, list, it, delivered, events, signals>>

SyncReturn(p) ==
    /\ pc[p] = "blocked" /\ promise[p] = "set"
    /\ promise' = [promise EXCEPT ![p] = "none"]
    /\ Goto(p, "idle")
    /\ UNCHANGED <<scheduler, client, list, it, delivered, counters>>

-----------------------------------------------------------------------------
(* Shutdown.                                                               *)

\* scheduler->stop, once the threads of RPC and of the network have been joined
Stop ==
    /\ pc[Main] = "up" /\ \A p \in Producers : pc[p] = "idle"
    /\ stopRequested' = TRUE
    /\ pc' = [a \in Actors |-> IF a = Main THEN "join"
                               ELSE IF pc[a] \in {"waiting", "timed"} THEN "check" ELSE pc[a]]
    /\ UNCHANGED <<taskQueue, client, list, it, promise, delivered, counters>>

\* join_all; then ForceFlushStateToDisk queues ChainStateFlushed
JoinAll ==
    /\ pc[Main] = "join" /\ \A t \in Threads : pc[t] = "exit"
    /\ AddToProcessQueue(Main, Event(events + 1))
    /\ events' = events + 1
    /\ UNCHANGED <<scheduler, list, it, promise, delivered, syncs, signals>>

\* EmptyQueue's should_continue
ShouldContinueOnce == FALSE
ShouldContinue == pending # <<>>
EmptyQueue ==
    /\ pc[Main] = "more"
    /\ Goto(Main, IF ShouldContinue THEN "process" ELSE "flushed")
    /\ UNCHANGED <<scheduler, client, list, it, promise, delivered, counters>>

\* The indexes are gone, and Shutdown flushes the chain state once more.  Nobody else runs
\* now, so this is all of AddToProcessQueue; "any future callbacks will be dropped".
ForceFlushAgain ==
    /\ pc[Main] = "flushed"
    /\ pending' = Append(pending, Event(events + 1))
    /\ events' = events + 1
    /\ taskQueue' = IF running THEN taskQueue ELSE taskQueue + 1
    /\ Goto(Main, "dropped")
    /\ UNCHANGED <<stopRequested, running, callback, list, it, promise, delivered, syncs, signals>>

\* the entries of L at positions K
Listed(L, K) ==
    [j \in 1..Cardinality(K) |-> L[CHOOSE i \in K : Cardinality({k \in K : k <= i}) = j]]

\* UnregisterAllValidationInterfaces; what is queued still goes with the scheduler.
Clear ==
    /\ pc[Main] = "dropped"
    /\ LET referred == {i \in DOMAIN m_list : \E l \in Listeners : m_map[l] = m_list[i].id}
           dropped == [i \in DOMAIN m_list |->
                          IF i \in referred THEN [m_list[i] EXCEPT !.count = @ - 1] ELSE m_list[i]]
       IN  m_list' = Listed(dropped, {i \in DOMAIN m_list : dropped[i].count > 0})
    /\ m_map' = [l \in Listeners |-> 0]
    /\ Goto(Main, "exit")
    /\ UNCHANGED <<entries, scheduler, client, it, promise, delivered, counters>>

-----------------------------------------------------------------------------
Step(a) ==
    \/ MaybeScheduleProcessQueue(a) \/ Schedule(a) \/ ProcessQueue(a) \/ Finish(a)
    \/ Call(a) \/ ContinueIterate(a)
    \/ a \in Threads /\ (Check(a) \/ Exit(a) \/ TakeTask(a))
    \/ a \in Producers /\ SyncReturn(a)
    \/ a = Main /\ (JoinAll \/ EmptyQueue \/ ForceFlushAgain \/ Clear)

Done == pc[Main] = "exit" /\ UNCHANGED vars

Next ==
    \/ \E a \in Actors : Step(a)
    \/ \E t \in Threads : SpuriousWakeup(t)
    \/ \E p \in Producers :
          QueueEvent(p) \/ SignalNow(p) \/ SyncWithValidationInterfaceQueue(p)
    \/ pc[Main] # "exit" /\ \E l \in Listeners \ Residents : Register(l) \/ Unregister(l)
    \/ Stop
    \/ Done

\* Every thread goes on in the end; nobody has to queue an event, wake for no reason
\* or shut the node down.
Spec == Init /\ [][Next]_vars /\ \A a \in Actors : WF_vars(Step(a))

-----------------------------------------------------------------------------
InCallback(a) == callback[a] # None
Executing(id) == {a \in Actors : it[a] = id}

Places == {"check", "waiting", "timed", "process", "call", "iterate", "finish", "maybe",
           "schedule", "exit", "idle", "blocked", "up", "join", "more", "flushed",
           "dropped"}

\* Every variable has its type.
TypeOK ==
    /\ taskQueue \in Nat /\ stopRequested \in BOOLEAN /\ running \in BOOLEAN
    /\ pending \in Seq(Callbacks \cup {Event(MaxEvents + 1), Event(MaxEvents + 2)})
    /\ m_list \in Seq([id : 1..MaxEntries, who : Listeners, count : Nat])
    /\ m_map \in [Listeners -> 0..MaxEntries]
    /\ pc \in [Actors -> Places]
    /\ callback \in [Actors -> Callbacks \cup {None, Event(MaxEvents + 1)}]
    /\ it \in [Actors -> 0..MaxEntries]
    /\ promise \in [Producers -> {"none", "waiting", "set"}]
    /\ delivered \in [Listeners -> Seq(1..(MaxEvents + 1))]
    /\ events \in 0..(MaxEvents + 2) /\ syncs \in 0..MaxSyncs /\ signals \in 0..MaxSignals
    /\ entries \in 0..MaxEntries

\* No two queued callbacks run at the same time, and m_are_callbacks_running says whether one
\* does (SingleThreadedSchedulerClient).
OneCallbackAtATime ==
    /\ running <=> \E a \in Actors : InCallback(a)
    /\ \A a, b \in Actors : InCallback(a) /\ InCallback(b) => a = b

\* Whoever is idle, a queued callback has somebody on the way to it: a ProcessQueue in the
\* scheduler or a thread that will look at the queue again.  That two threads leave the
\* scheduling to one another is what m_are_callbacks_running must never lead to.
QueueAttended ==
    pending # <<>> =>
        \/ taskQueue > 0
        \/ \E a \in Actors : \/ InCallback(a)
                             \/ pc[a] \in {"maybe", "schedule", "process", "more"}

\* A listener receives events in the order validation generated them, and one that is
\* registered all the time receives each exactly once.  (One that registers again while an
\* event is being delivered has a new entry at the end of m_list, and may get it twice.)
DeliveredInOrder ==
    \A l \in Listeners :
        /\ \A i, j \in DOMAIN delivered[l] : i < j => delivered[l][i] <= delivered[l][j]
        /\ l \in Residents => \A i \in DOMAIN delivered[l] : delivered[l][i] = i

\* "The count is equal to the number of current executions of that entry, plus 1 if it's
\* registered.  It cannot be 0"; and what m_map or an Iterate points to is in the list.
CountsExact ==
    /\ \A i \in DOMAIN m_list :
          LET e == m_list[i]
          IN  /\ e.count = Cardinality(Executing(e.id)) + (IF m_map[e.who] = e.id THEN 1 ELSE 0)
              /\ e.count > 0
    /\ LET ids == {m_list[i].id : i \in DOMAIN m_list}
       IN  /\ \A l \in Listeners : m_map[l] \in ids \cup {0}
           /\ \A a \in Actors : it[a] \in ids \cup {0}

\* When the promise of SyncWithValidationInterfaceQueue is set, every event queued before
\* the call has been delivered.
SyncMeansDelivered ==
    \A a \in Actors : InCallback(a) /\ callback[a].kind = "promise" =>
        \A l \in Residents : Len(delivered[l]) >= callback[a].n

\* FlushBackgroundCallbacks leaves nothing behind: when it returns, every event queued so far,
\* the ChainStateFlushed of Shutdown's first flush included, has been delivered.  What is
\* dropped in the end is one event, that of the second flush.
FlushedAtShutdown ==
    /\ pc[Main] = "flushed" => pending = <<>> /\ \A l \in Residents : Len(delivered[l]) = events
    /\ pc[Main] \in {"dropped", "exit"} =>
          \A l \in Residents : Len(delivered[l]) = events - 1

\* Every event queued before FlushBackgroundCallbacks has returned reaches every resident
\* listener, whether or not the node shuts down.
EventuallyDelivered ==
    \A n \in 1..(MaxEvents + 1) : \A l \in Residents :
        events >= n /\ pc[Main] \notin {"dropped", "exit"} ~> Len(delivered[l]) >= n
=============================================================================
