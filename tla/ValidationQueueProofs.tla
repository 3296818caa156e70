----------------------- MODULE ValidationQueueProofs -----------------------
(***************************************************************************)
(* The validation queue for any number of service threads, producers and   *)
(* listeners.  QueueInv: callbacks run one at a time, and a queued one is  *)
(* never left without somebody on the way to it; it says where a thread is *)
(* while it runs a callback, since m_are_callbacks_running alone does not  *)
(* tell that the thread that resets it is the one that set it.  PlaceInv:  *)
(* who still runs while Shutdown proceeds.  ListInv: the reference counts  *)
(* of m_list.  OrderInv: the queue in order.  GotInv: what each listener   *)
(* has received, which the position of Iterate in m_list decides while an  *)
(* event is in delivery.                                                   *)
(***************************************************************************)
EXTENDS ValidationQueue, FiniteSetTheorems, TLAPS

\* The prover of a step that names no other.
USE ZenonT(120)

-----------------------------------------------------------------------------
(* Sequences.                                                              *)

\* A sequence is a function.
LEMMA LenProperties ==
    ASSUME NEW S, NEW s \in Seq(S)
    PROVE  Len(s) \in Nat /\ DOMAIN s = 1..Len(s) /\ s \in [1..Len(s) -> S]
BY SMTT(30)

\* And a function is a sequence.
LEMMA SeqOf ==
    ASSUME NEW S, NEW n \in Nat, NEW s \in [1..n -> S]
    PROVE  s \in Seq(S)
BY SMTT(30)

\* An element.
LEMMA ElementOfSeq ==
    ASSUME NEW S, NEW s \in Seq(S), NEW n \in 1..Len(s)
    PROVE  s[n] \in S
BY SMTT(30)

\* The empty sequence.
LEMMA EmptySeq ==
    ASSUME NEW S
    PROVE  /\ <<>> \in Seq(S) /\ Len(<<>>) = 0
           /\ \A s \in Seq(S) : s # <<>> => Len(s) \in Nat \ {0}
BY SMTT(30)

\* One element changes.
LEMMA ExceptSeq ==
    ASSUME NEW S, NEW s \in Seq(S), NEW i \in 1..Len(s), NEW e \in S
    PROVE  /\ [s EXCEPT ![i] = e] \in Seq(S) /\ Len([s EXCEPT ![i] = e]) = Len(s)
           /\ \A j \in 1..Len(s) : [s EXCEPT ![i] = e][j] = IF j = i THEN e ELSE s[j]
BY SMTT(30)

\* One more element.
LEMMA AppendProperties ==
    ASSUME NEW S, NEW s \in Seq(S), NEW e \in S
    PROVE  /\ Append(s, e) \in Seq(S) /\ Append(s, e) # <<>> /\ Len(Append(s, e)) = Len(s) + 1
           /\ \A i \in 1..Len(s) : Append(s, e)[i] = s[i]
           /\ Append(s, e)[Len(s) + 1] = e
BY SMTT(30)

\* The first element, and the others.
LEMMA HeadTailProperties ==
    ASSUME NEW S, NEW s \in Seq(S), s # <<>>
    PROVE  /\ Head(s) \in S /\ Tail(s) \in Seq(S) /\ Len(Tail(s)) = Len(s) - 1
           /\ \A i \in 1..Len(Tail(s)) : Tail(s)[i] = s[i + 1]
BY SMTT(30)

\* One sequence behind another.
LEMMA ConcatProperties ==
    ASSUME NEW S, NEW s \in Seq(S), NEW t \in Seq(S)
    PROVE  /\ s \o t \in Seq(S) /\ Len(s \o t) = Len(s) + Len(t)
           /\ \A i \in 1..(Len(s) + Len(t)) :
                 (s \o t)[i] = IF i <= Len(s) THEN s[i] ELSE t[i - Len(s)]
BY SMTT(30)

-----------------------------------------------------------------------------
(* One callback at a time.                                                 *)

Queued == {Event(n) : n \in Nat} \cup {Promise(p, n) : p \in Producers, n \in Nat}

QueueInv ==
    /\ taskQueue \in Nat /\ events \in Nat /\ running \in BOOLEAN
    /\ pending \in Seq(Queued)
    /\ pc \in [Actors -> Places]
    /\ callback \in [Actors -> Queued \cup {None}]
    /\ \A a \in Actors : pc[a] \in {"call", "finish"} => InCallback(a)
    /\ \A a \in Actors : InCallback(a) => pc[a] \in {"call", "iterate", "finish"}
    /\ OneCallbackAtATime
    /\ QueueAttended

\* A queued callback is a callback.
LEMMA QueuedNotNone == None \notin Queued
<1>1. ASSUME NEW n \in Nat PROVE Event(n) # None
  BY DEF Event, None
<1>2. ASSUME NEW n \in Nat, NEW p \in Producers PROVE Promise(p, n) # None
  BY DEF Promise, None
<1> QED
  BY <1>1, <1>2, SMTT(30) DEF Queued

\* notify_one moves at most one thread, from its wait to the head of serviceQueue's loop.
LEMMA WakeOneMoves ==
    ASSUME NEW p \in [Actors -> Places], NEW q \in WakeOne(p)
    PROVE  /\ q \in [Actors -> Places]
           /\ \A a \in Actors : q[a] = p[a] \/ (p[a] \in {"waiting", "timed"} /\ q[a] = "check")
<1> DEFINE asleep == {t \in Threads : p[t] \in {"waiting", "timed"}}
<1>1. CASE asleep = {}
  BY <1>1 DEF WakeOne
<1>2. CASE asleep # {}
  <2>1. PICK t \in asleep : q = [p EXCEPT ![t] = "check"]
    BY <1>2 DEF WakeOne
  <2>2. t \in Actors /\ p[t] \in {"waiting", "timed"}
    BY <2>1 DEF Actors
  <2> QED
    BY <2>1, <2>2 DEF Places
<1> QED
  BY <1>1, <1>2

\* What a step must show when it leaves the queue and the callbacks alone: threads move
\* between places that mean nothing for them.
LEMMA PcStep ==
    ASSUME QueueInv, UNCHANGED <<pending, running, callback>>,
           taskQueue' \in Nat, events' \in Nat, pc' \in [Actors -> Places],
           \A a \in Actors : pc'[a] \in {"call", "finish"} => InCallback(a),
           \A a \in Actors : InCallback(a) => pc'[a] \in {"call", "iterate", "finish"},
           QueueAttended'
    PROVE  QueueInv'
BY DEF QueueInv, OneCallbackAtATime, InCallback

\* The initial state: nothing is queued, nobody runs a callback.
LEMMA QueueInit == Init => QueueInv
<1> SUFFICES ASSUME Init PROVE QueueInv
  OBVIOUS
<1>1. \A a \in Actors : callback[a] = None /\ pc[a] \in {"check", "up", "idle"}
  BY DEF Init
<1>2. pc \in [Actors -> Places] /\ callback \in [Actors -> Queued \cup {None}]
  BY DEF Init, Places
<1>3. taskQueue \in Nat /\ events \in Nat /\ running = FALSE /\ pending = <<>>
  BY DEF Init
<1>4. OneCallbackAtATime /\ QueueAttended
  BY <1>1, <1>3 DEF OneCallbackAtATime, QueueAttended, InCallback
<1>5. pending \in Seq(Queued)
  BY <1>3, SMTT(30)
<1>6. running \in BOOLEAN
  BY <1>3
<1> QED
  BY <1>1, <1>2, <1>3, <1>4, <1>5, <1>6 DEF QueueInv, InCallback
\* Where a thread goes on, it runs no callback.
LEMMA AfterPlaces == \A a \in Actors : After(a) \in {"check", "more", "idle", "blocked"}
BY DEF After

-----------------------------------------------------------------------------
\* A service thread's own steps.
LEMMA ServiceSteps ==
    ASSUME QueueInv, NEW t \in Threads,
           Check(t) \/ Exit(t) \/ TakeTask(t) \/ SpuriousWakeup(t)
    PROVE  QueueInv'
<1> USE DEF scheduler, client, counters
<1>0. t \in Actors /\ taskQueue \in Nat /\ events \in Nat /\ pc \in [Actors -> Places]
  BY DEF QueueInv, Actors
<1>1. UNCHANGED <<pending, running, callback, events>>
  BY DEF Check, Exit, TakeTask, SpuriousWakeup
<1>2. CASE Check(t) \/ SpuriousWakeup(t)
  <2>1. taskQueue' = taskQueue /\ pc[t] \in {"check", "waiting"}
        /\ \E w \in {"check", "waiting", "timed"} : pc' = [pc EXCEPT ![t] = w]
    BY <1>2 DEF Check, SpuriousWakeup, Goto
  <2>2. QueueAttended'
    BY <1>0, <1>1, <2>1 DEF QueueInv, QueueAttended, InCallback
  <2>3. pc' \in [Actors -> Places]
    BY <1>0, <2>1 DEF Places
  <2> QED
    BY <1>0, <1>1, <2>1, <2>2, <2>3, PcStep DEF QueueInv
<1>3. CASE Exit(t)
  <2> DEFINE p == [pc EXCEPT ![t] = "exit"]
  <2>1. taskQueue' = taskQueue /\ pc[t] = "check" /\ pc' \in WakeOne(p) /\ p \in [Actors -> Places]
    BY <1>0, <1>3 DEF Exit, Places
  <2>2. pc' \in [Actors -> Places]
        /\ \A a \in Actors : pc'[a] = pc[a] \/ (pc[a] \in {"check", "waiting", "timed"}
                                                /\ pc'[a] \in {"check", "exit"})
    <3>1. /\ pc' \in [Actors -> Places]
          /\ \A a \in Actors : pc'[a] = p[a] \/ (p[a] \in {"waiting", "timed"} /\ pc'[a] = "check")
      BY <2>1, WakeOneMoves
    <3>2. \A a \in Actors : p[a] = IF a = t THEN "exit" ELSE pc[a]
      BY <1>0
    <3> QED
      BY <2>1, <3>1, <3>2
  <2>3. QueueAttended'
    BY <1>0, <1>1, <2>1, <2>2 DEF QueueInv, QueueAttended, InCallback
  <2> QED
    BY <1>0, <1>1, <2>1, <2>2, <2>3, PcStep DEF QueueInv
<1>4. CASE TakeTask(t)
  <2>1. pc[t] = "timed" /\ taskQueue' \in Nat
        /\ \/ pc' = [pc EXCEPT ![t] = "process"]
           \/ pc' = [pc EXCEPT ![t] = "check"] /\ taskQueue' = taskQueue
    BY <1>0, <1>4, SMTT(30) DEF TakeTask, TaskLeft, Goto
  <2>2. QueueAttended'
    BY <1>0, <1>1, <2>1 DEF QueueInv, QueueAttended, InCallback
  <2>3. pc' \in [Actors -> Places]
    BY <1>0, <2>1 DEF Places
  <2> QED
    BY <1>0, <1>1, <2>1, <2>2, <2>3, PcStep DEF QueueInv
<1> QED
  BY <1>2, <1>3, <1>4

\* MaybeScheduleProcessQueue leaves the queue to the callback that is running, or to the task
\* it schedules.
LEMMA MaybeScheduleStep ==
    ASSUME QueueInv, NEW a \in Actors, MaybeScheduleProcessQueue(a)
    PROVE  QueueInv'
<1> USE DEF scheduler, client, counters
<1>1. UNCHANGED <<pending, running, callback, events, taskQueue>> /\ pc[a] = "maybe"
  BY DEF MaybeScheduleProcessQueue
<1>2. \E w \in {"schedule", "check", "more", "idle", "blocked"} : pc' = [pc EXCEPT ![a] = w]
  BY AfterPlaces DEF MaybeScheduleProcessQueue, Goto
<1>3. pc' \in [Actors -> Places]
  BY <1>2 DEF QueueInv, Places
<1>4. QueueAttended'
  <2>1. CASE MayRun
    <3>1. pc' = [pc EXCEPT ![a] = "schedule"]
      BY <2>1 DEF MaybeScheduleProcessQueue, Goto
    <3> QED
      BY <3>1 DEF QueueInv, QueueAttended
  <2>2. CASE ~MayRun
    BY <1>1, <2>2 DEF QueueInv, OneCallbackAtATime, QueueAttended, InCallback, MayRun
  <2> QED
    BY <2>1, <2>2
<1> QED
  BY <1>1, <1>2, <1>3, <1>4, PcStep DEF QueueInv

\* CScheduler::schedule.
LEMMA ScheduleStep ==
    ASSUME QueueInv, NEW a \in Actors, Schedule(a)
    PROVE  QueueInv'
<1> USE DEF scheduler, client, counters
<1> DEFINE p == [pc EXCEPT ![a] = After(a)]
<1>1. /\ UNCHANGED <<pending, running, callback, events>> /\ taskQueue' = taskQueue + 1
      /\ taskQueue \in Nat /\ events \in Nat /\ pc[a] = "schedule" /\ pc \in [Actors -> Places]
  BY DEF Schedule, QueueInv
<1>2. p \in [Actors -> Places] /\ pc' \in WakeOne(p)
  BY <1>1, AfterPlaces DEF Schedule, Places
<1>3. /\ pc' \in [Actors -> Places]
      /\ \A b \in Actors : pc'[b] = p[b] \/ (p[b] \in {"waiting", "timed"} /\ pc'[b] = "check")
  BY <1>2, WakeOneMoves
<1>4. \A b \in Actors : pc'[b] = pc[b] \/ (pc[b] \in {"schedule", "waiting", "timed"}
                                          /\ pc'[b] \in {"check", "more", "idle", "blocked"})
  BY <1>1, <1>3, AfterPlaces
<1>5. QueueAttended'
  BY <1>1, SMTT(30) DEF QueueAttended
<1> QED
  BY <1>1, <1>3, <1>4, <1>5, PcStep, SMTT(30) DEF QueueInv
\* ProcessQueue takes a callback only if none is running.
LEMMA ProcessQueueStep ==
    ASSUME QueueInv, NEW a \in Actors, ProcessQueue(a)
    PROVE  QueueInv'
<1> USE DEF scheduler, client, counters
<1>0. UNCHANGED <<taskQueue, events>> /\ pc[a] = "process" /\ pc \in [Actors -> Places]
  BY DEF ProcessQueue, QueueInv
<1>1. CASE MayRun
  <2>1. /\ running' = TRUE /\ callback' = [callback EXCEPT ![a] = Head(pending)]
        /\ pending' = Tail(pending) /\ pc' = [pc EXCEPT ![a] = "call"]
    BY <1>1 DEF ProcessQueue, Goto
  <2>2. Head(pending) \in Queued /\ Tail(pending) \in Seq(Queued)
    BY <1>1, SMTT(30) DEF MayRun, QueueInv
  <2>3. \A b \in Actors : ~InCallback(b)
    BY <1>1 DEF MayRun, QueueInv, OneCallbackAtATime
  <2>4. \A b \in Actors : InCallback(b)' <=> b = a
    BY <2>1, <2>2, <2>3, QueuedNotNone DEF InCallback, QueueInv
  <2>5. /\ pc' \in [Actors -> Places] /\ callback' \in [Actors -> Queued \cup {None}]
        /\ pending' \in Seq(Queued) /\ running' \in BOOLEAN
    BY <1>0, <2>1, <2>2 DEF QueueInv, Places
  <2>6. \A b \in Actors : pc'[b] = IF b = a THEN "call" ELSE pc[b]
    BY <1>0, <2>1
  <2>7. OneCallbackAtATime' /\ QueueAttended'
    BY <2>1, <2>4 DEF OneCallbackAtATime, QueueAttended
  <2>8. \A b \in Actors : pc[b] \notin {"call", "finish"}
    BY <2>3 DEF QueueInv
  <2> QED
    BY <1>0, <2>4, <2>5, <2>6, <2>7, <2>8 DEF QueueInv
<1>2. CASE ~MayRun
  <2>1. UNCHANGED <<pending, running, callback>>
        /\ \E w \in {"check", "more", "idle", "blocked"} : pc' = [pc EXCEPT ![a] = w]
    BY <1>2, AfterPlaces DEF ProcessQueue, Goto
  <2>2. QueueAttended'
    BY <1>2, <2>1 DEF QueueInv, OneCallbackAtATime, QueueAttended, InCallback, MayRun
  <2>3. pc' \in [Actors -> Places]
    BY <1>0, <2>1 DEF Places
  <2> QED
    BY <1>0, <2>1, <2>2, <2>3, PcStep DEF QueueInv
<1> QED
  BY <1>1, <1>2

\* ~RAIICallbacksRunning: the thread that ends the callback is the one that runs it, and it
\* looks at the queue again.
LEMMA FinishStep ==
    ASSUME QueueInv, NEW a \in Actors, Finish(a)
    PROVE  QueueInv'
<1> USE DEF scheduler, client, counters
<1>1. /\ UNCHANGED <<pending, taskQueue, events>> /\ running' = FALSE
      /\ callback' = [callback EXCEPT ![a] = None] /\ pc' = [pc EXCEPT ![a] = "maybe"]
      /\ pc[a] = "finish"
  BY DEF Finish, Goto, AfterCallback
<1>2. InCallback(a)
  BY <1>1 DEF QueueInv
<1>3. \A b \in Actors : callback'[b] = None
  BY <1>1, <1>2 DEF QueueInv, OneCallbackAtATime, InCallback
<1>4. \A b \in Actors : pc'[b] = IF b = a THEN "maybe" ELSE pc[b]
  BY <1>1 DEF QueueInv
<1>5. \A b \in Actors : pc'[b] \notin {"call", "finish"}
  BY <1>2, <1>4 DEF QueueInv, OneCallbackAtATime
<1>6. pc' \in [Actors -> Places] /\ callback' \in [Actors -> Queued \cup {None}]
  BY <1>1 DEF QueueInv, Places
<1>7. OneCallbackAtATime'
  BY <1>1, <1>3 DEF OneCallbackAtATime, InCallback
<1>8. QueueAttended'
  BY <1>4 DEF QueueAttended
<1>9. running' \in BOOLEAN
  BY <1>1
<1> QED
  BY <1>1, <1>3, <1>5, <1>6, <1>7, <1>8, <1>9 DEF QueueInv, InCallback

\* The listeners' callbacks within a queued callback, and a promise being set.
LEMMA CallSteps ==
    ASSUME QueueInv, NEW a \in Actors, Call(a) \/ ContinueIterate(a)
    PROVE  QueueInv'
<1> USE DEF scheduler, client, counters
<1>1. UNCHANGED <<pending, running, callback, taskQueue, events>> /\ pc[a] \in {"call", "iterate"}
  BY DEF Call, ContinueIterate
<1>2. \/ pc' = [pc EXCEPT ![a] = "iterate"]
      \/ pc' = [pc EXCEPT ![a] = AfterIterate(a)]
      \/ pc[a] = "call" /\ pc' = [pc EXCEPT ![a] = "finish"]
  BY DEF Call, ContinueIterate, BeginIterate, Goto
<1>3. pc[a] = "call" => InCallback(a)
  BY DEF QueueInv
<1>4. \E w \in {"iterate", "finish", "idle"} :
        /\ pc' = [pc EXCEPT ![a] = w]
        /\ w = "finish" => InCallback(a)
        /\ w = "idle" => ~InCallback(a)
  BY <1>2, <1>3 DEF AfterIterate, InCallback
<1>5. pc' \in [Actors -> Places]
  BY <1>4 DEF QueueInv, Places
<1>6. QueueAttended'
  BY <1>1, <1>4 DEF QueueInv, QueueAttended, InCallback
<1> QED
  BY <1>1, <1>4, <1>5, <1>6, PcStep DEF QueueInv

\* AddToProcessQueue: whoever queues a callback goes on to MaybeScheduleProcessQueue.
LEMMA AddStep ==
    ASSUME QueueInv, NEW a \in Actors, NEW c \in Queued, AddToProcessQueue(a, c),
           pc[a] \notin {"call", "iterate", "finish"}, UNCHANGED taskQueue, events' \in Nat
    PROVE  QueueInv'
<1>1. /\ pending' = Append(pending, c) /\ UNCHANGED <<running, callback>>
      /\ pc' = [pc EXCEPT ![a] = "maybe"]
  BY DEF AddToProcessQueue, Goto
<1>2. pending' \in Seq(Queued)
  BY <1>1, SMTT(30) DEF QueueInv
<1>3. pc' \in [Actors -> Places] /\ \A b \in Actors : pc'[b] = IF b = a THEN "maybe" ELSE pc[b]
  BY <1>1 DEF QueueInv, Places
<1>4. QueueAttended'
  BY <1>3 DEF QueueAttended
<1> QED
  BY <1>1, <1>2, <1>3, <1>4 DEF QueueInv, OneCallbackAtATime, InCallback
\* The producers: CMainSignals' events and SyncWithValidationInterfaceQueue.
LEMMA ProducerSteps ==
    ASSUME QueueInv, NEW p \in Producers,
           \/ QueueEvent(p) \/ SignalNow(p)
           \/ SyncWithValidationInterfaceQueue(p) \/ SyncReturn(p)
    PROVE  QueueInv'
<1> USE DEF scheduler, client, counters
<1>0. p \in Actors /\ events \in Nat /\ pc \in [Actors -> Places]
  BY DEF Actors, QueueInv
<1>1. CASE QueueEvent(p)
  <2>1. Event(events + 1) \in Queued /\ events + 1 \in Nat
    BY <1>0, SMTT(30) DEF Queued
  <2> QED
    BY <1>0, <1>1, <2>1, AddStep DEF QueueEvent
<1>2. CASE SyncWithValidationInterfaceQueue(p)
  <2>1. Promise(p, events) \in Queued
    BY <1>0, SMTT(30) DEF Queued
  <2> QED
    BY <1>0, <1>2, <2>1, AddStep DEF SyncWithValidationInterfaceQueue
<1>3. CASE SignalNow(p) \/ SyncReturn(p)
  <2>1. UNCHANGED <<pending, running, callback, taskQueue, events>> /\ pc[p] \in {"idle", "blocked"}
    BY <1>3 DEF SignalNow, SyncReturn
  <2>2. ~InCallback(p)
    BY <1>0, <2>1 DEF QueueInv
  <2>3. \E w \in {"iterate", "idle"} : pc' = [pc EXCEPT ![p] = w]
    BY <1>3, <2>2 DEF SignalNow, SyncReturn, BeginIterate, AfterIterate, InCallback, Goto
  <2>4. pc' \in [Actors -> Places]
    BY <1>0, <2>3 DEF Places
  <2>5. QueueAttended'
    BY <1>0, <2>1, <2>3 DEF QueueInv, QueueAttended, InCallback
  <2> QED
    BY <1>0, <2>1, <2>2, <2>3, <2>4, <2>5, PcStep DEF QueueInv
<1> QED
  BY <1>1, <1>2, <1>3

\* Shutdown: stop, join_all and FlushBackgroundCallbacks.
LEMMA ShutdownSteps ==
    ASSUME QueueInv, Stop \/ JoinAll \/ EmptyQueue \/ ForceFlushAgain \/ Clear
    PROVE  QueueInv'
<1> USE DEF scheduler, client, counters
<1>0. Main \in Actors /\ events \in Nat /\ taskQueue \in Nat /\ pc \in [Actors -> Places]
  BY DEF Actors, QueueInv
<1>1. CASE JoinAll
  <2>1. Event(events + 1) \in Queued /\ events + 1 \in Nat
    BY <1>0, SMTT(30) DEF Queued
  <2> QED
    BY <1>0, <1>1, <2>1, AddStep DEF JoinAll
<1>2. CASE Stop
  <2>1. UNCHANGED <<pending, running, callback, taskQueue, events>> /\ pc[Main] = "up"
    BY <1>2 DEF Stop
  <2>2. pc' = [a \in Actors |-> IF a = Main THEN "join"
                                ELSE IF pc[a] \in {"waiting", "timed"} THEN "check" ELSE pc[a]]
    BY <1>2 DEF Stop
  <2>3. pc' \in [Actors -> Places]
    BY <1>0, <2>2 DEF Places
  <2>4. \A a \in Actors : pc'[a] = pc[a] \/ (pc[a] \in {"up", "waiting", "timed"}
                                            /\ pc'[a] \in {"join", "check"})
    BY <2>1, <2>2
  <2>5. QueueAttended'
    BY <2>1, <2>4 DEF QueueInv, QueueAttended, InCallback
  <2> QED
    BY <1>0, <2>1, <2>3, <2>4, <2>5, PcStep DEF QueueInv
<1>3. CASE EmptyQueue \/ Clear
  <2>1. UNCHANGED <<pending, running, callback, taskQueue, events>>
        /\ pc[Main] \in {"more", "dropped"}
    BY <1>3 DEF EmptyQueue, Clear
  <2>2. \E w \in {"process", "flushed", "exit"} :
          /\ pc' = [pc EXCEPT ![Main] = w]
          /\ w = "process" \/ pending = <<>> \/ pc[Main] = "dropped"
    BY <1>3 DEF EmptyQueue, Clear, ShouldContinue, Goto
  <2>3. pc' \in [Actors -> Places]
    BY <1>0, <2>2 DEF Places
  <2>4. QueueAttended'
    BY <1>0, <2>1, <2>2 DEF QueueInv, QueueAttended, InCallback
  <2> QED
    BY <1>0, <2>1, <2>2, <2>3, <2>4, PcStep DEF QueueInv
<1>4. CASE ForceFlushAgain
  <2> DEFINE c == Event(events + 1)
  <2>1. c \in Queued /\ events + 1 \in Nat /\ taskQueue + 1 \in Nat
    BY <1>0, SMTT(30) DEF Queued
  <2>2. /\ pending' = Append(pending, c) /\ events' = events + 1 /\ UNCHANGED <<running, callback>>
        /\ taskQueue' = IF running THEN taskQueue ELSE taskQueue + 1
        /\ pc[Main] = "flushed" /\ pc' = [pc EXCEPT ![Main] = "dropped"]
    BY <1>4 DEF ForceFlushAgain, Goto
  <2> HIDE DEF c
  <2>3. pending' \in Seq(Queued)
    BY <2>1, <2>2, AppendProperties DEF QueueInv
  <2>4. pc' \in [Actors -> Places]
        /\ \A b \in Actors : pc'[b] = IF b = Main THEN "dropped" ELSE pc[b]
    BY <1>0, <2>2 DEF Places
  <2>5. ~running => taskQueue' > 0
    BY <1>0, <2>2, SMTT(30)
  <2>6. QueueAttended'
    BY <2>2, <2>5 DEF QueueInv, QueueAttended, OneCallbackAtATime, InCallback
  <2> QED
    BY <1>0, <2>1, <2>2, <2>3, <2>4, <2>6 DEF QueueInv, OneCallbackAtATime, InCallback
<1> QED
  BY <1>1, <1>2, <1>3, <1>4

\* Every step keeps the invariant.
LEMMA QueueNext == QueueInv /\ [Next]_vars => QueueInv'
<1> SUFFICES ASSUME QueueInv, [Next]_vars PROVE QueueInv'
  OBVIOUS
<1>1. ASSUME NEW a \in Actors, Step(a) PROVE QueueInv'
  BY <1>1, ServiceSteps, MaybeScheduleStep, ScheduleStep, ProcessQueueStep, FinishStep,
     CallSteps, ProducerSteps, ShutdownSteps DEF Step
<1>2. ASSUME NEW t \in Threads, SpuriousWakeup(t) PROVE QueueInv'
  BY <1>2, ServiceSteps
<1>3. ASSUME NEW p \in Producers,
             QueueEvent(p) \/ SignalNow(p) \/ SyncWithValidationInterfaceQueue(p)
      PROVE  QueueInv'
  BY <1>3, ProducerSteps
<1>4. ASSUME UNCHANGED <<scheduler, client, pc, counters>> PROVE QueueInv'
  BY <1>4 DEF scheduler, client, counters, QueueInv, OneCallbackAtATime, QueueAttended, InCallback
<1>5. ASSUME NEW l \in Listeners, Register(l) \/ Unregister(l) PROVE QueueInv'
  BY <1>4, <1>5 DEF Register, Unregister
<1>6. CASE UNCHANGED vars
  BY <1>4, <1>6 DEF vars
<1> QED
  BY <1>1, <1>2, <1>3, <1>5, <1>6, ShutdownSteps DEF Next, Done

\* For any number of service threads, producers, listeners and events: whenever a callback is
\* queued somebody is on the way to it, so no wakeup of MaybeScheduleProcessQueue is ever lost.
THEOREM QueueSafe == Spec => []QueueAttended
<1>1. QueueInv => QueueAttended
  BY DEF QueueInv
<1> QED
  BY <1>1, QueueInit, QueueNext, PTL DEF Spec

\* SingleThreadedSchedulerClient runs one callback at a time, however many scheduler threads
\* there are, and m_are_callbacks_running says whether one runs.
THEOREM CallbacksSerial == Spec => []OneCallbackAtATime
<1>1. QueueInv => OneCallbackAtATime
  BY DEF QueueInv
<1> QED
  BY <1>1, QueueInit, QueueNext, PTL DEF Spec

-----------------------------------------------------------------------------
(* Where each kind of thread can be, and what Shutdown has waited for.     *)

ThreadPlaces == {"check", "waiting", "timed", "process", "call", "iterate", "finish", "maybe",
                 "schedule", "exit"}
ProducerPlaces == {"idle", "maybe", "schedule", "blocked", "iterate"}
FlushPlaces == {"maybe", "schedule", "more", "process", "call", "iterate", "finish", "flushed",
                "dropped", "exit"}

PlaceInv ==
    /\ \A t \in Threads : pc[t] \in ThreadPlaces
    /\ \A p \in Producers : pc[p] \in ProducerPlaces /\ ~InCallback(p)
    /\ pc[Main] \in {"up", "join"} \cup FlushPlaces
    /\ pc[Main] # "up" => \A p \in Producers : pc[p] = "idle"
    /\ pc[Main] \in FlushPlaces => \A t \in Threads : pc[t] = "exit"
    /\ pc[Main] = "flushed" => pending = <<>>
    /\ \A a \in Threads \cup {Main} : pc[a] = "iterate" => InCallback(a)

\* A thread that runs, a producer while the node is up, and Main after join_all.
Moves(b) ==
    \/ b \in Threads /\ pc[b] # "exit" /\ pc'[b] \in ThreadPlaces
    \/ b \in Producers /\ pc[Main] = "up" /\ pc'[b] \in ProducerPlaces
    \/ b = Main /\ pc[b] \in FlushPlaces /\ pc'[b] \in FlushPlaces

\* What a step must show.
LEMMA PlaceStep ==
    ASSUME PlaceInv,
           \A b \in Actors : pc'[b] = pc[b] \/ Moves(b),
           \A p \in Producers : ~InCallback(p)',
           \A b \in Threads \cup {Main} : pc'[b] = "iterate" => InCallback(b)',
           pc'[Main] = "flushed" => pending' = <<>>
    PROVE  PlaceInv'
<1>0. /\ Main \in Actors /\ Threads \subseteq Actors /\ Producers \subseteq Actors
      /\ \A t \in Threads : t \notin Producers /\ t # Main
      /\ \A p \in Producers : p # Main
  BY ValidationQueueAssumption DEF Actors
<1>1. \A t \in Threads : pc'[t] = pc[t] \/ (pc[t] # "exit" /\ pc'[t] \in ThreadPlaces)
  BY <1>0 DEF Moves
<1>2. \A p \in Producers : pc'[p] = pc[p] \/ (pc[Main] = "up" /\ pc'[p] \in ProducerPlaces)
  BY <1>0 DEF Moves
<1>3. pc'[Main] = pc[Main] \/ (pc[Main] \in FlushPlaces /\ pc'[Main] \in FlushPlaces)
  BY <1>0 DEF Moves
<1>4. pc[Main] \in FlushPlaces => pc[Main] \notin {"up", "join"}
  BY DEF FlushPlaces
<1>5. pc'[Main] \in {"up", "join"} \cup FlushPlaces
  BY <1>3 DEF PlaceInv
<1>6. \A t \in Threads : pc'[t] \in ThreadPlaces
  BY <1>1 DEF PlaceInv
<1>7. \A p \in Producers : pc'[p] \in ProducerPlaces
  BY <1>2 DEF PlaceInv
<1>8. pc'[Main] # "up" => \A p \in Producers : pc'[p] = "idle"
  BY <1>2, <1>3, <1>4 DEF PlaceInv
<1>9. pc'[Main] \in FlushPlaces => \A t \in Threads : pc'[t] = "exit"
  BY <1>1, <1>3 DEF PlaceInv
<1> QED
  BY <1>5, <1>6, <1>7, <1>8, <1>9 DEF PlaceInv

\* At first every thread is at the head of its loop.
LEMMA PlaceInit == Init => PlaceInv
<1> SUFFICES ASSUME Init PROVE PlaceInv
  OBVIOUS
<1>0. /\ Main \in Actors /\ Threads \subseteq Actors /\ Producers \subseteq Actors
      /\ \A t \in Threads : t \notin Producers /\ t # Main
      /\ \A p \in Producers : p # Main
  BY ValidationQueueAssumption DEF Actors
<1>1. \A a \in Actors : callback[a] = None
  BY DEF Init
<1>2. /\ \A t \in Threads : pc[t] = "check"
      /\ \A p \in Producers : pc[p] = "idle"
      /\ pc[Main] = "up"
  BY <1>0, ValidationQueueAssumption DEF Init
<1> QED
  BY <1>0, <1>1, <1>2 DEF PlaceInv, InCallback, ThreadPlaces, ProducerPlaces, FlushPlaces

\* Where After leads.
LEMMA AfterMoves ==
    ASSUME NEW a \in Actors
    PROVE  /\ a \in Threads => After(a) = "check"
           /\ a \in Producers => After(a) \in {"idle", "blocked"}
           /\ a = Main => After(a) = "more"
BY ValidationQueueAssumption DEF After

\* A step of one thread that leaves the callbacks and the queue alone.
LEMMA PlaceMove ==
    ASSUME PlaceInv, QueueInv, NEW a \in Actors, UNCHANGED <<pending, callback>>,
           NEW w, pc' = [pc EXCEPT ![a] = w],
           \/ a \in Threads /\ pc[a] # "exit" /\ w \in ThreadPlaces
           \/ a \in Producers /\ (pc[a] # "idle" \/ pc[Main] = "up") /\ w \in ProducerPlaces
           \/ a = Main /\ pc[a] \in FlushPlaces /\ w \in FlushPlaces,
           w = "iterate" /\ a \notin Producers => InCallback(a),
           a = Main /\ w = "flushed" => pending = <<>>
    PROVE  PlaceInv'
<1>0. Main \in Actors /\ Threads \subseteq Actors /\ Producers \subseteq Actors
  BY DEF Actors
<1>1. \A b \in Actors : pc'[b] = IF b = a THEN w ELSE pc[b]
  BY DEF QueueInv
<1>2. \A b \in Actors : pc'[b] = pc[b] \/ Moves(b)
  BY <1>1 DEF PlaceInv, Moves
<1>3. \A b \in Actors : InCallback(b)' <=> InCallback(b)
  BY DEF InCallback
<1>4. \A p \in Producers : ~InCallback(p)'
  BY <1>0, <1>3 DEF PlaceInv
<1>5. \A b \in Threads \cup {Main} : pc'[b] = "iterate" => InCallback(b)'
  <2>1. \A b \in Threads \cup {Main} : b \in Actors /\ b \notin Producers
    BY <1>0, ValidationQueueAssumption
  <2> QED
    BY <1>1, <1>3, <2>1 DEF PlaceInv
<1>6. pc'[Main] = "flushed" => pending' = <<>>
  BY <1>0, <1>1 DEF PlaceInv
<1> QED
  BY <1>2, <1>4, <1>5, <1>6, PlaceStep

\* The same with notify_one.
LEMMA PlaceWake ==
    ASSUME PlaceInv, QueueInv, NEW a \in Actors, UNCHANGED <<pending, callback>>,
           NEW w \in Places, pc' \in WakeOne([pc EXCEPT ![a] = w]),
           \/ a \in Threads /\ pc[a] # "exit" /\ w \in ThreadPlaces
           \/ a \in Producers /\ (pc[a] # "idle" \/ pc[Main] = "up") /\ w \in ProducerPlaces
           \/ a = Main /\ pc[a] \in FlushPlaces /\ w \in FlushPlaces,
           w \notin {"iterate", "flushed", "exit"} \/ (a \in Threads /\ w = "exit")
    PROVE  PlaceInv'
<1> DEFINE p == [pc EXCEPT ![a] = w]
<1>0. Main \in Actors /\ Threads \subseteq Actors /\ Producers \subseteq Actors
      /\ pc \in [Actors -> Places] /\ p \in [Actors -> Places]
  BY DEF Actors, QueueInv
<1>1. \A b \in Actors : p[b] = IF b = a THEN w ELSE pc[b]
  BY <1>0
<1>2. \A b \in Actors : pc'[b] = p[b] \/ (p[b] \in {"waiting", "timed"} /\ pc'[b] = "check")
  BY <1>0, WakeOneMoves
<1> HIDE DEF p
<1>3. ASSUME NEW b \in Actors, pc[b] \in {"waiting", "timed"} PROVE b \in Threads
  <2>1. b \in Producers => pc[b] \in ProducerPlaces
    BY DEF PlaceInv
  <2>2. b = Main => pc[b] \in {"up", "join"} \cup FlushPlaces
    BY DEF PlaceInv
  <2> QED
    BY <1>3, <2>1, <2>2 DEF ProducerPlaces, FlushPlaces, Actors
<1>4. ASSUME NEW b \in Actors PROVE pc'[b] = pc[b] \/ Moves(b)
  <2>1. CASE b = a
    <3>1. pc'[b] = w \/ (w \in {"waiting", "timed"} /\ pc'[b] = "check")
      BY <1>1, <1>2, <2>1
    <3>2. CASE pc'[b] = w
      BY <2>1, <3>2 DEF PlaceInv, Moves
    <3>3. CASE w \in {"waiting", "timed"} /\ pc'[b] = "check"
      <4>1. w \notin ProducerPlaces /\ w \notin FlushPlaces
        BY <3>3 DEF ProducerPlaces, FlushPlaces
      <4> QED
        BY <2>1, <3>3, <4>1 DEF Moves, ThreadPlaces
    <3> QED
      BY <3>1, <3>2, <3>3
  <2>2. CASE b # a
    <3>1. pc'[b] = pc[b] \/ (pc[b] \in {"waiting", "timed"} /\ pc'[b] = "check")
      BY <1>1, <1>2, <2>2
    <3> QED
      BY <1>3, <3>1 DEF Moves, ThreadPlaces
  <2> QED
    BY <2>1, <2>2
<1>5. \A b \in Actors : InCallback(b)' <=> InCallback(b)
  BY DEF InCallback
<1>6. \A b \in Producers : ~InCallback(b)'
  BY <1>0, <1>5 DEF PlaceInv
<1>7. \A b \in Threads \cup {Main} : pc'[b] = "iterate" => InCallback(b)'
  BY <1>0, <1>1, <1>2, <1>5 DEF PlaceInv
<1>8. pc'[Main] = "flushed" => pending' = <<>>
  <2>1. Main \notin Threads
    BY ValidationQueueAssumption
  <2> QED
    BY <1>0, <1>1, <1>2, <2>1 DEF PlaceInv
<1> QED
  BY <1>4, <1>6, <1>7, <1>8, PlaceStep

\* The scheduler's threads.
LEMMA PlaceService ==
    ASSUME PlaceInv, QueueInv, NEW t \in Threads,
           Check(t) \/ Exit(t) \/ TakeTask(t) \/ SpuriousWakeup(t)
    PROVE  PlaceInv'
<1> USE DEF scheduler, client, counters
<1>0. t \in Actors /\ t # Main /\ t \notin Producers
  BY ValidationQueueAssumption DEF Actors
<1>1. UNCHANGED <<pending, callback>> /\ pc[t] \in {"check", "timed", "waiting"}
  BY DEF Check, Exit, TakeTask, SpuriousWakeup
<1>2. CASE Exit(t)
  <2>1. pc' \in WakeOne([pc EXCEPT ![t] = "exit"]) /\ "exit" \in Places /\ "exit" \in ThreadPlaces
    BY <1>2 DEF Exit, Places, ThreadPlaces
  <2> QED
    BY <1>0, <1>1, <2>1, PlaceWake
<1>3. CASE Check(t) \/ TakeTask(t) \/ SpuriousWakeup(t)
  <2>1. PICK w \in {"check", "waiting", "timed", "process"} : pc' = [pc EXCEPT ![t] = w]
    BY <1>3 DEF Check, TakeTask, SpuriousWakeup, Goto
  <2>2. w \in ThreadPlaces /\ w # "iterate"
    BY <2>1 DEF ThreadPlaces
  <2> QED
    BY <1>0, <1>1, <2>1, <2>2, PlaceMove
<1> QED
  BY <1>2, <1>3

\* MaybeScheduleProcessQueue and schedule.
LEMMA PlaceSchedule ==
    ASSUME PlaceInv, QueueInv, NEW a \in Actors, MaybeScheduleProcessQueue(a) \/ Schedule(a)
    PROVE  PlaceInv'
<1> USE DEF scheduler, client, counters
<1>1. UNCHANGED <<pending, callback>> /\ pc[a] \in {"maybe", "schedule"}
  BY DEF MaybeScheduleProcessQueue, Schedule
<1>2. ASSUME NEW w, w \in {After(a), "schedule"}
      PROVE  /\ \/ a \in Threads /\ pc[a] # "exit" /\ w \in ThreadPlaces
                \/ a \in Producers /\ (pc[a] # "idle" \/ pc[Main] = "up") /\ w \in ProducerPlaces
                \/ a = Main /\ pc[a] \in FlushPlaces /\ w \in FlushPlaces
             /\ w \in Places /\ w \notin {"iterate", "flushed", "exit"}
  <2>1. CASE a \in Threads
    <3>1. w \in {"check", "schedule"}
      BY <1>2, <2>1, AfterMoves
    <3> QED
      BY <1>1, <2>1, <3>1 DEF ThreadPlaces, Places
  <2>2. CASE a \in Producers
    <3>1. w \in {"idle", "blocked", "schedule"}
      BY <1>2, <2>2, AfterMoves
    <3> QED
      BY <1>1, <2>2, <3>1 DEF ProducerPlaces, Places
  <2>3. CASE a = Main
    <3>1. w \in {"more", "schedule"}
      BY <1>2, <2>3, AfterMoves
    <3> QED
      BY <1>1, <2>3, <3>1 DEF FlushPlaces, Places
  <2> QED
    BY <2>1, <2>2, <2>3 DEF Actors
<1>3. CASE MaybeScheduleProcessQueue(a)
  <2>1. PICK w \in {After(a), "schedule"} : pc' = [pc EXCEPT ![a] = w]
    BY <1>3 DEF MaybeScheduleProcessQueue, Goto
  <2> QED
    BY <1>1, <1>2, <2>1, PlaceMove
<1>4. CASE Schedule(a)
  <2> DEFINE w == After(a)
  <2>1. pc' \in WakeOne([pc EXCEPT ![a] = w]) /\ w \in {After(a), "schedule"}
    BY <1>4 DEF Schedule
  <2> HIDE DEF w
  <2> QED
    BY <1>1, <1>2, <2>1, PlaceWake
<1> QED
  BY <1>3, <1>4

\* ProcessQueue and ~RAIICallbacksRunning.
LEMMA PlaceProcess ==
    ASSUME PlaceInv, QueueInv, NEW a \in Actors, ProcessQueue(a) \/ Finish(a)
    PROVE  PlaceInv'
<1> USE DEF scheduler, client, counters
<1>0. pc[a] \in {"process", "finish"}
  BY DEF ProcessQueue, Finish
<1>1. a \notin Producers
  BY <1>0 DEF PlaceInv, ProducerPlaces
<1>2. \/ a \in Threads /\ pc[a] # "exit" /\ a # Main
      \/ a = Main /\ pc[a] \in FlushPlaces /\ a \notin Threads
  BY <1>0, <1>1, ValidationQueueAssumption DEF Actors, FlushPlaces
<1>3. CASE ProcessQueue(a) /\ ~MayRun
  <2>1. pc' = [pc EXCEPT ![a] = After(a)] /\ UNCHANGED <<pending, callback>>
    BY <1>3 DEF ProcessQueue, Goto
  <2>2. CASE a \in Threads
    <3>1. After(a) = "check" /\ "check" \in ThreadPlaces
      BY <2>2, AfterMoves DEF ThreadPlaces
    <3> QED
      BY <1>2, <2>1, <2>2, <3>1, PlaceMove
  <2>3. CASE a = Main
    <3>1. After(a) = "more" /\ "more" \in FlushPlaces
      BY <2>3, AfterMoves DEF FlushPlaces
    <3> QED
      BY <1>2, <2>1, <2>3, <3>1, PlaceMove
  <2> QED
    BY <1>2, <2>2, <2>3
<1>4. CASE Finish(a) \/ (ProcessQueue(a) /\ MayRun)
  <2>1. PICK w \in {"maybe", "call"} : pc' = [pc EXCEPT ![a] = w]
    BY <1>4 DEF Finish, ProcessQueue, Goto, AfterCallback
  <2>2. \A b \in Actors : pc'[b] = IF b = a THEN w ELSE pc[b]
    BY <2>1 DEF QueueInv
  <2>3. \A b \in Actors \ {a} : InCallback(b)' <=> InCallback(b)
    BY <1>4 DEF Finish, ProcessQueue, InCallback, QueueInv
  <2>4. w \in ThreadPlaces /\ w \in FlushPlaces /\ w # "iterate"
    BY <2>1 DEF ThreadPlaces, FlushPlaces
  <2>5. \A b \in Actors : pc'[b] = pc[b] \/ Moves(b)
    BY <1>2, <2>2, <2>4 DEF Moves
  <2>6. \A p \in Producers : p \in Actors \ {a}
    BY <1>1 DEF Actors
  <2>7. \A p \in Producers : ~InCallback(p)'
    BY <2>3, <2>6 DEF PlaceInv
  <2>8. \A b \in Threads \cup {Main} : pc'[b] = "iterate" => InCallback(b)'
    BY <2>2, <2>3, <2>4 DEF PlaceInv, Actors
  <2>9. pc'[Main] = "flushed" => pending' = <<>>
    <3>1. CASE a = Main
      BY <2>1, <2>2, <3>1 DEF Actors
    <3>2. CASE a # Main
      <4>1. pc'[Main] = pc[Main] /\ a \in Threads /\ pc[a] # "exit"
        BY <1>2, <2>2, <3>2 DEF Actors
      <4> QED
        BY <4>1 DEF PlaceInv, FlushPlaces
    <3> QED
      BY <3>1, <3>2
  <2> QED
    BY <2>5, <2>7, <2>8, <2>9, PlaceStep
<1> QED
  BY <1>3, <1>4

\* A callback's Iterate, and set_value.
LEMMA PlaceCall ==
    ASSUME PlaceInv, QueueInv, NEW a \in Actors, Call(a) \/ ContinueIterate(a)
    PROVE  PlaceInv'
<1> USE DEF scheduler, client, counters
<1>1. UNCHANGED <<pending, callback>> /\ pc[a] \in {"call", "iterate"}
  BY DEF Call, ContinueIterate
<1>2. \/ pc' = [pc EXCEPT ![a] = "iterate"]
      \/ pc' = [pc EXCEPT ![a] = AfterIterate(a)]
      \/ pc[a] = "call" /\ pc' = [pc EXCEPT ![a] = "finish"]
  BY DEF Call, ContinueIterate, BeginIterate, Goto
<1>3. CASE a \in Producers
  <2>1. ~InCallback(a) /\ pc[a] = "iterate"
    BY <1>1, <1>3 DEF PlaceInv, ProducerPlaces
  <2>2. PICK w \in {"iterate", "idle"} : pc' = [pc EXCEPT ![a] = w]
    BY <1>2, <2>1 DEF AfterIterate, InCallback
  <2>3. w \in ProducerPlaces /\ a # Main
    BY <1>3, <2>2, ValidationQueueAssumption DEF ProducerPlaces
  <2> QED
    BY <1>1, <1>3, <2>1, <2>2, <2>3, PlaceMove
<1>4. CASE a \in Threads \cup {Main}
  <2>1. InCallback(a)
    BY <1>1, <1>4 DEF PlaceInv, QueueInv
  <2>2. PICK w \in {"iterate", "finish"} : pc' = [pc EXCEPT ![a] = w]
    BY <1>2, <2>1 DEF AfterIterate, InCallback
  <2>3. /\ w \in ThreadPlaces /\ w \in FlushPlaces /\ pc[a] \in FlushPlaces
        /\ w \notin {"flushed", "exit"}
    BY <1>1, <2>2 DEF ThreadPlaces, FlushPlaces
  <2> QED
    BY <1>1, <1>4, <2>1, <2>2, <2>3, PlaceMove
<1> QED
  BY <1>3, <1>4 DEF Actors

\* The producers, which Shutdown has joined before Main leaves "up".
LEMMA PlaceProducer ==
    ASSUME PlaceInv, QueueInv, NEW p \in Producers,
           \/ QueueEvent(p) \/ SignalNow(p)
           \/ SyncWithValidationInterfaceQueue(p) \/ SyncReturn(p)
    PROVE  PlaceInv'
<1> USE DEF scheduler, client, counters
<1>0. p \in Actors /\ p # Main /\ p \notin Threads /\ Main \in Actors
  BY ValidationQueueAssumption DEF Actors
<1>1. callback' = callback /\ pc[Main] = "up" /\ ~InCallback(p)
  BY DEF QueueEvent, SignalNow, SyncWithValidationInterfaceQueue, SyncReturn, AddToProcessQueue,
         PlaceInv
<1>2. PICK w \in {"maybe", "iterate", "idle"} : pc' = [pc EXCEPT ![p] = w]
  BY <1>1 DEF QueueEvent, SignalNow, SyncWithValidationInterfaceQueue, SyncReturn,
              AddToProcessQueue, BeginIterate, AfterIterate, InCallback, Goto
<1>3. \A b \in Actors : pc'[b] = IF b = p THEN w ELSE pc[b]
  BY <1>2 DEF QueueInv
<1>4. \A b \in Actors : InCallback(b)' <=> InCallback(b)
  BY <1>1 DEF InCallback
<1>5. w \in ProducerPlaces
  BY <1>2 DEF ProducerPlaces
<1>6. \A b \in Actors : pc'[b] = pc[b] \/ Moves(b)
  BY <1>1, <1>3, <1>5 DEF Moves
<1>7. \A b \in Producers : ~InCallback(b)'
  BY <1>4 DEF PlaceInv, Actors
<1>8. \A b \in Threads \cup {Main} : pc'[b] = "iterate" => InCallback(b)'
  BY <1>0, <1>3, <1>4 DEF PlaceInv, Actors
<1>9. pc'[Main] = "up"
  BY <1>0, <1>1, <1>3
<1> QED
  BY <1>6, <1>7, <1>8, <1>9, PlaceStep

\* Shutdown.
LEMMA PlaceShutdown ==
    ASSUME PlaceInv, QueueInv, Stop \/ JoinAll \/ EmptyQueue \/ ForceFlushAgain \/ Clear
    PROVE  PlaceInv'
<1> USE DEF scheduler, client, counters
<1>0. /\ Main \in Actors /\ Threads \subseteq Actors /\ Producers \subseteq Actors
      /\ Main \notin Threads /\ Main \notin Producers /\ \A t \in Threads : t \notin Producers
  BY ValidationQueueAssumption DEF Actors
<1>1. CASE Stop
  <2>1. /\ pc[Main] = "up" /\ \A p \in Producers : pc[p] = "idle"
        /\ UNCHANGED <<pending, callback>>
        /\ pc' = [a \in Actors |-> IF a = Main THEN "join"
                               ELSE IF pc[a] \in {"waiting", "timed"} THEN "check" ELSE pc[a]]
    BY <1>1 DEF Stop
  <2>2. \A t \in Threads : pc'[t] = pc[t] \/ pc'[t] = "check"
    BY <1>0, <2>1
  <2>3. \A p \in Producers : pc'[p] = "idle"
    BY <1>0, <2>1
  <2>4. pc'[Main] = "join"
    BY <1>0, <2>1
  <2>5. \A t \in Threads : pc'[t] = "iterate" => pc[t] = "iterate"
    BY <2>2
  <2>6. \A b \in Actors : InCallback(b)' <=> InCallback(b)
    BY <2>1 DEF InCallback
  <2>7. \A b \in Threads \cup {Main} : pc'[b] = "iterate" => InCallback(b)'
    BY <1>0, <2>4, <2>5, <2>6 DEF PlaceInv
  <2>8. \A t \in Threads : pc'[t] \in ThreadPlaces
    BY <2>2 DEF PlaceInv, ThreadPlaces
  <2>9. \A p \in Producers : pc'[p] \in ProducerPlaces /\ ~InCallback(p)'
    BY <1>0, <2>3, <2>6 DEF PlaceInv, ProducerPlaces
  <2> QED
    BY <2>3, <2>4, <2>7, <2>8, <2>9 DEF PlaceInv, FlushPlaces
<1>2. CASE JoinAll
  <2>1. /\ pc[Main] = "join" /\ \A t \in Threads : pc[t] = "exit"
        /\ callback' = callback /\ pc' = [pc EXCEPT ![Main] = "maybe"]
    BY <1>2 DEF JoinAll, AddToProcessQueue, Goto
  <2>2. \A b \in Actors : pc'[b] = IF b = Main THEN "maybe" ELSE pc[b]
    BY <2>1 DEF QueueInv
  <2>3. \A b \in Actors : InCallback(b)' <=> InCallback(b)
    BY <2>1 DEF InCallback
  <2>4. \A t \in Threads : pc'[t] = "exit"
    BY <1>0, <2>1, <2>2
  <2>5. \A p \in Producers : pc'[p] = "idle" /\ ~InCallback(p)'
    BY <1>0, <2>1, <2>2, <2>3 DEF PlaceInv
  <2>6. pc'[Main] = "maybe"
    BY <1>0, <2>2
  <2> QED
    BY <2>4, <2>5, <2>6 DEF PlaceInv, ThreadPlaces, ProducerPlaces, FlushPlaces
<1>3. CASE EmptyQueue \/ Clear
  <2>1. UNCHANGED <<pending, callback>> /\ pc[Main] \in {"more", "dropped"}
    BY <1>3 DEF EmptyQueue, Clear
  <2>2. PICK w \in {"process", "flushed", "exit"} :
          /\ pc' = [pc EXCEPT ![Main] = w]
          /\ w = "flushed" => pending = <<>>
    BY <1>3 DEF EmptyQueue, Clear, ShouldContinue, Goto
  <2>3. w \in FlushPlaces /\ pc[Main] \in FlushPlaces /\ w # "iterate"
    BY <2>1, <2>2 DEF FlushPlaces
  <2> QED
    BY <1>0, <2>1, <2>2, <2>3, PlaceMove
<1>4. CASE ForceFlushAgain
  <2>1. callback' = callback /\ pc[Main] = "flushed" /\ pc' = [pc EXCEPT ![Main] = "dropped"]
    BY <1>4 DEF ForceFlushAgain, Goto
  <2>2. \A b \in Actors : pc'[b] = IF b = Main THEN "dropped" ELSE pc[b]
    BY <2>1 DEF QueueInv
  <2>3. \A b \in Actors : InCallback(b)' <=> InCallback(b)
    BY <2>1 DEF InCallback
  <2>4. \A b \in Actors : pc'[b] = pc[b] \/ Moves(b)
    BY <2>1, <2>2 DEF Moves, FlushPlaces
  <2>5. \A b \in Threads \cup {Main} : pc'[b] = "iterate" => InCallback(b)'
    BY <1>0, <2>2, <2>3 DEF PlaceInv
  <2>6. pc'[Main] = "dropped" /\ \A b \in Producers : ~InCallback(b)'
    BY <1>0, <2>2, <2>3 DEF PlaceInv
  <2> QED
    BY <2>4, <2>5, <2>6, PlaceStep
<1> QED
  BY <1>1, <1>2, <1>3, <1>4

\* Every step keeps the places.
LEMMA PlaceNext == PlaceInv /\ QueueInv /\ [Next]_vars => PlaceInv'
<1> SUFFICES ASSUME PlaceInv, QueueInv, [Next]_vars PROVE PlaceInv'
  OBVIOUS
<1>1. ASSUME NEW a \in Actors, Step(a) PROVE PlaceInv'
  BY <1>1, PlaceService, PlaceSchedule, PlaceProcess, PlaceCall, PlaceProducer, PlaceShutdown
     DEF Step
<1>2. ASSUME NEW t \in Threads, SpuriousWakeup(t) PROVE PlaceInv'
  BY <1>2, PlaceService
<1>3. ASSUME NEW p \in Producers,
             QueueEvent(p) \/ SignalNow(p) \/ SyncWithValidationInterfaceQueue(p)
      PROVE  PlaceInv'
  BY <1>3, PlaceProducer
<1>4. ASSUME UNCHANGED <<pending, callback, pc>> PROVE PlaceInv'
  BY <1>4 DEF PlaceInv, InCallback
<1>5. ASSUME NEW l \in Listeners, Register(l) \/ Unregister(l) PROVE PlaceInv'
  BY <1>4, <1>5 DEF Register, Unregister, client
<1>6. CASE UNCHANGED vars
  BY <1>4, <1>6 DEF vars, client
<1> QED
  BY <1>1, <1>2, <1>3, <1>5, <1>6, PlaceShutdown DEF Next, Done

-----------------------------------------------------------------------------
(* MainSignalsInstance's list: a lemma for each way its counts change.     *)

Entry == [id : Nat, who : Listeners, count : Nat]

\* How often entry e is referred to: by each Iterate that calls it, and by m_map.
Refs(M, I, e) ==
    Cardinality({a \in Actors : I[a] = e.id}) + (IF M[e.who] = e.id THEN 1 ELSE 0)

\* The books of a list L with map M, while Iterate is at I[a] on each thread a; E entries
\* have been made so far.
Books(L, M, I, E) ==
    /\ L \in Seq(Entry) /\ M \in [Listeners -> Nat] /\ I \in [Actors -> Nat]
    /\ \A i, j \in 1..Len(L) : i < j => L[i].id < L[j].id
    /\ \A i \in 1..Len(L) : /\ L[i].id \in 1..E
                            /\ L[i].count = Refs(M, I, L[i]) /\ L[i].count > 0
                            /\ L[i].who \in Residents => M[L[i].who] = L[i].id
    /\ \A l \in Listeners : M[l] # 0 => \E i \in 1..Len(L) : L[i].id = M[l] /\ L[i].who = l
    /\ \A a \in Actors : I[a] # 0 => \E i \in 1..Len(L) : L[i].id = I[a]

\* There are finitely many threads.
LEMMA ActorsFinite == IsFiniteSet(Actors)
<1>1. IsFiniteSet(Threads \cup Producers)
  BY ValidationQueueAssumption, FS_Union
<1> QED
  BY <1>1, FS_AddElement DEF Actors

\* An entry that is referred to has references.
LEMMA RefsType ==
    ASSUME NEW M, NEW I, NEW e
    PROVE  /\ Refs(M, I, e) \in Nat
           /\ (M[e.who] = e.id \/ \E a \in Actors : I[a] = e.id) => Refs(M, I, e) > 0
<1> DEFINE A == {a \in Actors : I[a] = e.id}
<1>1. IsFiniteSet(A)
  BY ActorsFinite, FS_Subset
<1>2. Cardinality(A) \in Nat /\ (Cardinality(A) = 0 => A = {})
  BY <1>1, FS_CardinalityType, FS_EmptySet
<1>3. (\E a \in Actors : I[a] = e.id) => A # {}
  OBVIOUS
<1> HIDE DEF A
<1>4. Refs(M, I, e) = Cardinality(A) + (IF M[e.who] = e.id THEN 1 ELSE 0)
  BY DEF Refs, A
<1> QED
  BY <1>2, <1>3, <1>4, SMTT(30)

\* The list without the entry at i.
LEMMA EraseProperties ==
    ASSUME NEW S, NEW L \in Seq(S), NEW i \in 1..Len(L)
    PROVE  /\ Erase(L, i) \in Seq(S) /\ Len(Erase(L, i)) = Len(L) - 1
           /\ \A k \in 1..(Len(L) - 1) : Erase(L, i)[k] = L[IF k < i THEN k ELSE k + 1]
<1> DEFINE A == SubSeq(L, 1, i - 1)
           B == SubSeq(L, i + 1, Len(L))
<1>0. Len(L) \in Nat /\ i - 1 \in Int /\ i + 1 \in Int
      /\ (\A j \in 1..(i - 1) : L[j] \in S) /\ (\A j \in (i + 1)..Len(L) : L[j] \in S)
  BY SMTT(30)
<1>1. /\ A \in Seq(S)
      /\ Len(A) = IF 1 <= i - 1 THEN i - 1 - 1 + 1 ELSE 0
      /\ \A k \in 1..(i - 1 - 1 + 1) : A[k] = L[1 + k - 1]
  BY <1>0, SMTT(30)
<1>2. /\ B \in Seq(S)
      /\ Len(B) = IF i + 1 <= Len(L) THEN Len(L) - (i + 1) + 1 ELSE 0
      /\ \A k \in 1..(Len(L) - (i + 1) + 1) : B[k] = L[i + 1 + k - 1]
  BY <1>0, SMTT(30)
<1>3. /\ A \o B \in Seq(S) /\ Len(A \o B) = Len(A) + Len(B)
      /\ \A k \in 1..(Len(A) + Len(B)) : (A \o B)[k] = IF k <= Len(A) THEN A[k] ELSE B[k - Len(A)]
  BY <1>1, <1>2, ConcatProperties
<1>4. Erase(L, i) = A \o B
  BY DEF Erase
<1> HIDE DEF A, B
<1>5. Len(A) = i - 1 /\ Len(B) = Len(L) - i
  BY <1>0, <1>1, <1>2, SMTT(30)
<1>6. ASSUME NEW k \in 1..(Len(L) - 1) PROVE Erase(L, i)[k] = L[IF k < i THEN k ELSE k + 1]
  <2>0. k \in Int /\ i \in Int /\ k \in 1..(Len(A) + Len(B))
    BY <1>0, <1>5, SMTT(30)
  <2>1. CASE k < i
    <3>1. k <= Len(A) /\ k \in 1..(i - 1 - 1 + 1) /\ 1 + k - 1 = k
      BY <1>0, <1>5, <2>0, <2>1, SMTT(30)
    <3> QED
      BY <1>1, <1>3, <1>4, <2>0, <2>1, <3>1
  <2>2. CASE ~(k < i)
    <3>1. ~(k <= Len(A)) /\ k - Len(A) \in 1..(Len(L) - (i + 1) + 1)
          /\ i + 1 + (k - Len(A)) - 1 = k + 1
      BY <1>0, <1>5, <2>0, <2>2, SMTT(30)
    <3> QED
      BY <1>2, <1>3, <1>4, <2>0, <2>2, <3>1
  <2> QED
    BY <2>1, <2>2
<1>7. Len(Erase(L, i)) = Len(L) - 1
  BY <1>0, <1>3, <1>4, <1>5, SMTT(30)
<1> QED
  BY <1>3, <1>4, <1>6, <1>7

\* An entry of a list is replaced.
LEMMA SetAt ==
    ASSUME NEW S, NEW L \in Seq(S), NEW i \in 1..Len(L), NEW e \in S, NEW V,
           V = [L EXCEPT ![i] = e]
    PROVE  /\ V \in Seq(S) /\ Len(V) = Len(L)
           /\ \A k \in 1..Len(L) : V[k] = IF k = i THEN e ELSE L[k]
<1>1. [L EXCEPT ![i] = e] \in Seq(S) /\ Len([L EXCEPT ![i] = e]) = Len(L)
  BY ExceptSeq, SMTT(30)
<1>2. \A k \in 1..Len(L) : [L EXCEPT ![i] = e][k] = IF k = i THEN e ELSE L[k]
  BY LenProperties
<1> QED
  BY <1>1, <1>2

\* Drop, on a list of entries.
LEMMA DropProperties ==
    ASSUME NEW L \in Seq(Entry), NEW i \in 1..Len(L), L[i].count > 0
    PROVE  /\ Drop(L, i) \in Seq(Entry)
           /\ L[i].count = 1 =>
                 /\ Len(Drop(L, i)) = Len(L) - 1
                 /\ \A k \in 1..(Len(L) - 1) : Drop(L, i)[k] = L[IF k < i THEN k ELSE k + 1]
           /\ L[i].count # 1 =>
                 /\ Len(Drop(L, i)) = Len(L)
                 /\ \A k \in 1..Len(L) :
                       Drop(L, i)[k] = IF k = i THEN [L[i] EXCEPT !.count = @ - 1] ELSE L[k]
<1>1. CASE L[i].count = 1
  BY <1>1, EraseProperties DEF Drop
<1>2. CASE L[i].count # 1
  <2>1. L[i] \in Entry
    BY ElementOfSeq
  <2>2. L[i].count - 1 \in Nat
    BY <2>1, SMTT(30) DEF Entry
  <2> DEFINE e == [L[i] EXCEPT !.count = @ - 1]
  <2>3. e \in Entry
    BY <2>1, <2>2 DEF Entry
  <2>4. Drop(L, i) = [L EXCEPT ![i] = e]
    BY <1>2 DEF Drop
  <2> HIDE DEF e
  <2>5. /\ Drop(L, i) \in Seq(Entry) /\ Len(Drop(L, i)) = Len(L)
        /\ \A k \in 1..Len(L) : Drop(L, i)[k] = IF k = i THEN e ELSE L[k]
    BY <2>3, <2>4, SetAt, SMTT(30)
  <2>6. e = [L[i] EXCEPT !.count = @ - 1]
    BY DEF e
  <2> QED
    BY <1>2, <2>5, <2>6
<1> QED
  BY <1>1, <1>2

\* One reference to entry i goes: Unregister, or Iterate's loop tail.
LEMMA DropBooks ==
    ASSUME NEW L, NEW M, NEW I, NEW E, Books(L, M, I, E), NEW i \in 1..Len(L),
           NEW M2 \in [Listeners -> Nat], NEW I2 \in [Actors -> Nat],
           \A l \in Listeners : M2[l] = M[l] \/ (M2[l] = 0 /\ l \notin Residents),
           \A a \in Actors : I2[a] = I[a] \/ I2[a] = 0,
           \A j \in 1..Len(L) : Refs(M2, I2, L[j]) = Refs(M, I, L[j]) - (IF j = i THEN 1 ELSE 0)
    PROVE  Books(Drop(L, i), M2, I2, E)
<1> DEFINE D == Drop(L, i)
<1>0. /\ L \in Seq(Entry) /\ Len(L) \in Nat /\ \A k \in 1..Len(L) : L[k] \in Entry
      /\ \A k \in 1..Len(L) : L[k].id \in Nat /\ L[k].count \in Nat /\ L[k].who \in Listeners
  <2>1. L \in Seq(Entry)
    BY DEF Books
  <2>2. Len(L) \in Nat /\ \A k \in 1..Len(L) : L[k] \in Entry
    BY <2>1, LenProperties, ElementOfSeq
  <2> QED
    BY <2>1, <2>2 DEF Entry
<1>1. /\ \A k \in 1..Len(L) : L[k].count > 0 /\ L[k].count = Refs(M, I, L[k]) /\ L[k].id \in 1..E
      /\ \A k \in 1..Len(L) : L[k].who \in Residents => M[L[k].who] = L[k].id
      /\ \A j, k \in 1..Len(L) : j < k => L[j].id < L[k].id
  BY DEF Books
<1>2. /\ D \in Seq(Entry)
      /\ L[i].count = 1 =>
                 /\ Len(D) = Len(L) - 1
                 /\ \A k \in 1..(Len(L) - 1) : D[k] = L[IF k < i THEN k ELSE k + 1]
      /\ L[i].count # 1 =>
                 /\ Len(D) = Len(L)
                 /\ \A k \in 1..Len(L) :
                       D[k] = IF k = i THEN [L[i] EXCEPT !.count = @ - 1] ELSE L[k]
  <2>1. L \in Seq(Entry) /\ i \in 1..Len(L) /\ L[i].count > 0
    BY <1>0, <1>1
  <2> QED
    BY <2>1, DropProperties
<1> HIDE DEF D
<1> DEFINE from(k) == IF L[i].count = 1 /\ k >= i THEN k + 1 ELSE k
<1>3. \A k \in 1..Len(D) : /\ from(k) \in 1..Len(L) /\ D[k].id = L[from(k)].id
                           /\ D[k].who = L[from(k)].who
                           /\ L[i].count = 1 => from(k) # i
                           /\ D[k].count = L[from(k)].count - (IF from(k) = i THEN 1 ELSE 0)
  <2> SUFFICES ASSUME NEW k \in 1..Len(D)
               PROVE  /\ from(k) \in 1..Len(L) /\ D[k].id = L[from(k)].id
                      /\ D[k].who = L[from(k)].who
                      /\ L[i].count = 1 => from(k) # i
                      /\ D[k].count = L[from(k)].count - (IF from(k) = i THEN 1 ELSE 0)
    OBVIOUS
  <2>1. CASE L[i].count = 1
    <3>1. k \in 1..(Len(L) - 1) /\ from(k) \in 1..Len(L) /\ from(k) # i
          /\ from(k) = IF k < i THEN k ELSE k + 1
      BY <1>0, <1>2, <2>1, SMTT(30)
    <3>2. D[k] = L[from(k)]
      BY <1>2, <2>1, <3>1
    <3>3. L[from(k)].count = L[from(k)].count - (IF from(k) = i THEN 1 ELSE 0)
      BY <1>0, <3>1, SMTT(30)
    <3> HIDE DEF from
    <3> QED
      BY <3>1, <3>2, <3>3
  <2>2. CASE L[i].count # 1
    <3>1. k \in 1..Len(L) /\ from(k) = k
      BY <1>2, <2>2
    <3>2. D[k] = IF k = i THEN [L[i] EXCEPT !.count = @ - 1] ELSE L[k]
      BY <1>2, <2>2, <3>1
    <3>3. CASE k = i
      <4>1. D[k] = [L[k] EXCEPT !.count = L[k].count - 1] /\ L[k] \in Entry
        BY <1>0, <3>1, <3>2, <3>3
      <4>2. D[k].id = L[k].id /\ D[k].who = L[k].who /\ D[k].count = L[k].count - 1
        BY <4>1, SMTT(30) DEF Entry
      <4> QED
        BY <2>2, <3>1, <3>3, <4>2
    <3>4. CASE k # i
      <4>1. L[k].count = L[k].count - 0
        BY <1>0, <3>1, SMTT(30)
      <4> QED
        BY <2>2, <3>1, <3>2, <3>4, <4>1
    <3> QED
      BY <3>3, <3>4
  <2> QED
    BY <2>1, <2>2
<1>4. \A j \in 1..Len(L) : (L[i].count # 1 \/ j # i) => \E k \in 1..Len(D) : from(k) = j
  <2> SUFFICES ASSUME NEW j \in 1..Len(L), L[i].count # 1 \/ j # i
               PROVE  \E k \in 1..Len(D) : from(k) = j
    OBVIOUS
  <2>1. CASE L[i].count # 1
    BY <1>2, <2>1
  <2>2. CASE L[i].count = 1 /\ j < i
    <3>1. j \in 1..Len(D) /\ from(j) = j
      BY <1>0, <1>2, <2>2, SMTT(30)
    <3> QED
      BY <3>1
  <2>3. CASE L[i].count = 1 /\ ~(j < i)
    <3>1. j - 1 \in 1..Len(D) /\ from(j - 1) = j
      BY <1>0, <1>2, <2>3, SMTT(30)
    <3> QED
      BY <3>1
  <2> QED
    BY <2>1, <2>2, <2>3
<1>5. \A j, k \in 1..Len(D) : j < k => from(j) < from(k)
  <2>1. Len(D) \in Nat
    BY <1>2, LenProperties
  <2> QED
    BY <2>1, SMTT(30)
<1> HIDE DEF from
<1>6. \A j, k \in 1..Len(D) : j < k => D[j].id < D[k].id
  <2> SUFFICES ASSUME NEW j \in 1..Len(D), NEW k \in 1..Len(D), j < k PROVE D[j].id < D[k].id
    OBVIOUS
  <2>1. from(j) < from(k) /\ from(j) \in 1..Len(L) /\ from(k) \in 1..Len(L)
    BY <1>3, <1>5
  <2>2. L[from(j)].id < L[from(k)].id
    BY <1>1, <2>1
  <2> QED
    BY <1>3, <2>2
<1>7. \A k \in 1..Len(D) : Refs(M2, I2, D[k]) = Refs(M2, I2, L[from(k)])
  <2> SUFFICES ASSUME NEW k \in 1..Len(D) PROVE Refs(M2, I2, D[k]) = Refs(M2, I2, L[from(k)])
    OBVIOUS
  <2>1. D[k].id = L[from(k)].id /\ D[k].who = L[from(k)].who
    BY <1>3
  <2> QED
    BY <2>1 DEF Refs
<1>8. \A k \in 1..Len(D) : /\ D[k].id \in 1..E /\ D[k].count = Refs(M2, I2, D[k])
                           /\ D[k].count > 0
  <2> SUFFICES ASSUME NEW k \in 1..Len(D)
               PROVE  D[k].id \in 1..E /\ D[k].count = Refs(M2, I2, D[k]) /\ D[k].count > 0
    OBVIOUS
  <2>1. D[k].count = Refs(M2, I2, D[k]) /\ D[k].id \in 1..E
    BY <1>1, <1>3, <1>7
  <2>2. L[from(k)].count \in Nat /\ L[from(k)].count > 0
        /\ (from(k) = i => L[from(k)].count # 1)
    BY <1>0, <1>1, <1>3
  <2>3. D[k].count > 0
    BY <1>3, <2>2, SMTT(30)
  <2> QED
    BY <2>1, <2>3
<1>9. \A k \in 1..Len(D) : D[k].who \in Residents => M2[D[k].who] = D[k].id
  BY <1>0, <1>1, <1>3
<1>10. L[i].count = 1 => /\ M2[L[i].who] # L[i].id
                         /\ \A a \in Actors : I2[a] # L[i].id
  <2>1. L[i].count = 1 => Refs(M2, I2, L[i]) = 0
    BY <1>1, SMTT(30)
  <2>2. Refs(M2, I2, L[i]) = 0 => ~(Refs(M2, I2, L[i]) > 0)
    BY SMTT(30)
  <2> QED
    BY <2>1, <2>2, RefsType
<1>11. \A l \in Listeners : M2[l] # 0 => \E k \in 1..Len(D) : D[k].id = M2[l] /\ D[k].who = l
  <2> SUFFICES ASSUME NEW l \in Listeners, M2[l] # 0
               PROVE  \E k \in 1..Len(D) : D[k].id = M2[l] /\ D[k].who = l
    OBVIOUS
  <2>1. PICK j \in 1..Len(L) : L[j].id = M2[l] /\ L[j].who = l
    BY DEF Books
  <2>2. L[i].count # 1 \/ j # i
    BY <1>10, <2>1
  <2>3. PICK k \in 1..Len(D) : from(k) = j
    BY <1>4, <2>2
  <2> QED
    BY <1>3, <2>1, <2>3
<1>12. \A a \in Actors : I2[a] # 0 => \E k \in 1..Len(D) : D[k].id = I2[a]
  <2> SUFFICES ASSUME NEW a \in Actors, I2[a] # 0
               PROVE  \E k \in 1..Len(D) : D[k].id = I2[a]
    OBVIOUS
  <2>1. PICK j \in 1..Len(L) : L[j].id = I2[a]
    BY DEF Books
  <2>2. L[i].count # 1 \/ j # i
    BY <1>10, <2>1
  <2>3. PICK k \in 1..Len(D) : from(k) = j
    BY <1>4, <2>2
  <2> QED
    BY <1>3, <2>1, <2>3
<1> QED
  BY <1>2, <1>6, <1>8, <1>9, <1>11, <1>12 DEF Books, D

\* One reference to an entry comes: Iterate's loop head at position i, on thread a.
LEMMA VisitBooks ==
    ASSUME NEW L, NEW M, NEW I, NEW E, Books(L, M, I, E), NEW i \in Nat \ {0},
           NEW a \in Actors, I[a] = 0,
           NEW J, J = [b \in Actors |-> IF b = a THEN Visit(L, i).at ELSE I[b]]
    PROVE  Books(Visit(L, i).list, M, J, E)
<1>0. /\ L \in Seq(Entry) /\ Len(L) \in Nat /\ I \in [Actors -> Nat] /\ M \in [Listeners -> Nat]
      /\ \A k \in 1..Len(L) : L[k] \in Entry
  BY LenProperties, ElementOfSeq DEF Books
<1>3. /\ \A j, k \in 1..Len(L) : j < k => L[j].id < L[k].id
      /\ \A k \in 1..Len(L) : L[k].id \in 1..E /\ L[k].count = Refs(M, I, L[k]) /\ L[k].count > 0
      /\ \A k \in 1..Len(L) : L[k].who \in Residents => M[L[k].who] = L[k].id
  BY DEF Books
<1>4. /\ \A l \in Listeners : M[l] # 0 => \E k \in 1..Len(L) : L[k].id = M[l] /\ L[k].who = l
      /\ \A b \in Actors : I[b] # 0 => \E k \in 1..Len(L) : L[k].id = I[b]
  BY DEF Books
<1>1. CASE i <= Len(L)
  <2> DEFINE e == [L[i] EXCEPT !.count = @ + 1]
             V == [L EXCEPT ![i] = e]
  <2>0. i \in 1..Len(L) /\ L[i].id \in Nat /\ L[i].count \in Nat
    <3>1. i \in 1..Len(L)
      BY <1>0, <1>1, SMTT(30)
    <3> QED
      BY <1>0, <3>1 DEF Entry
  <2>1. e \in Entry /\ e.id = L[i].id /\ e.who = L[i].who /\ e.count = L[i].count + 1
    <3>1. L[i].count + 1 \in Nat /\ L[i] \in Entry
      BY <1>0, <2>0, SMTT(30)
    <3> QED
      BY <3>1 DEF Entry
  <2>2. Visit(L, i).list = V /\ Visit(L, i).at = L[i].id
    BY <1>1 DEF Visit
  <2> HIDE DEF e
  <2>3. /\ V \in Seq(Entry) /\ Len(V) = Len(L)
        /\ \A k \in 1..Len(L) : V[k] = IF k = i THEN e ELSE L[k]
    BY <1>0, <2>0, <2>1, SetAt, SMTT(30)
  <2>4. J \in [Actors -> Nat] /\ \A b \in Actors : J[b] = IF b = a THEN L[i].id ELSE I[b]
    BY <1>0, <2>0, <2>2
  <2> HIDE DEF V
  <2>5. \A k \in 1..Len(L) : V[k].id = L[k].id /\ V[k].who = L[k].who
    BY <2>1, <2>3
  <2>6. \A j, k \in 1..Len(L) : V[j].id = V[k].id => j = k
    <3>1. \A k \in 1..Len(L) : L[k].id \in Nat
      BY <1>0 DEF Entry
    <3> QED
      BY <1>0, <1>3, <2>5, <3>1, SMTT(30)
  <2>7. ASSUME NEW k \in 1..Len(L)
        PROVE  Refs(M, J, V[k]) = Refs(M, I, L[k]) + (IF k = i THEN 1 ELSE 0)
    <3> DEFINE A == {b \in Actors : I[b] = L[k].id}
               B == {b \in Actors : J[b] = V[k].id}
    <3>1. IsFiniteSet(A) /\ L[k].id # 0
      <4>1. L[k].id \in 1..E => L[k].id # 0
        BY SMTT(30)
      <4> QED
        BY <1>3, <4>1, ActorsFinite, FS_Subset
    <3>2. CASE k = i
      <4>1. B = A \cup {a} /\ a \notin A
        BY <2>4, <2>5, <3>1, <3>2
      <4>2. Cardinality(B) = Cardinality(A) + 1 /\ Cardinality(A) \in Nat
        BY <3>1, <4>1, FS_AddElement, FS_CardinalityType
      <4> HIDE DEF A, B
      <4>3. Refs(M, J, V[k]) = Cardinality(B) + (IF M[L[k].who] = L[k].id THEN 1 ELSE 0)
        BY <2>5 DEF Refs, B
      <4>4. Refs(M, I, L[k]) = Cardinality(A) + (IF M[L[k].who] = L[k].id THEN 1 ELSE 0)
        BY DEF Refs, A
      <4> QED
        BY <3>2, <4>2, <4>3, <4>4, SMTT(30)
    <3>3. CASE k # i
      <4>1. V[i].id = L[i].id /\ V[k].id # L[i].id
        BY <2>0, <2>5, <2>6, <3>3
      <4>2. B = A
        BY <2>4, <2>5, <3>1, <4>1
      <4> HIDE DEF A, B
      <4>3. Refs(M, J, V[k]) = Cardinality(B) + (IF M[L[k].who] = L[k].id THEN 1 ELSE 0)
        BY <2>5 DEF Refs, B
      <4>4. Refs(M, I, L[k]) = Cardinality(A) + (IF M[L[k].who] = L[k].id THEN 1 ELSE 0)
        BY DEF Refs, A
      <4>5. Refs(M, I, L[k]) \in Nat
        BY RefsType
      <4> QED
        BY <3>3, <4>2, <4>3, <4>4, <4>5, SMTT(30)
    <3> QED
      BY <3>2, <3>3
  <2>8. \A k \in 1..Len(L) :
          V[k].count = L[k].count + (IF k = i THEN 1 ELSE 0) /\ L[k].count \in Nat
    <3>1. \A k \in 1..Len(L) : L[k].count \in Nat /\ L[k].count = L[k].count + 0
      BY <1>0, SMTT(30) DEF Entry
    <3> QED
      BY <2>1, <2>3, <3>1
  <2>9. \A k \in 1..Len(L) : /\ V[k].id \in 1..E /\ V[k].count = Refs(M, J, V[k]) /\ V[k].count > 0
                             /\ V[k].who \in Residents => M[V[k].who] = V[k].id
    <3> SUFFICES ASSUME NEW k \in 1..Len(L)
                 PROVE  /\ V[k].id \in 1..E /\ V[k].count = Refs(M, J, V[k]) /\ V[k].count > 0
                        /\ V[k].who \in Residents => M[V[k].who] = V[k].id
      OBVIOUS
    <3>1. /\ L[k].id \in 1..E /\ L[k].count = Refs(M, I, L[k]) /\ L[k].count > 0
          /\ L[k].who \in Residents => M[L[k].who] = L[k].id
      BY <1>3
    <3>2. V[k].count = Refs(M, J, V[k])
      BY <2>7, <2>8, <3>1
    <3>3. V[k].count > 0
      BY <2>8, <3>1, SMTT(30)
    <3> QED
      BY <2>5, <3>1, <3>2, <3>3
  <2>10. \A j, k \in 1..Len(L) : j < k => V[j].id < V[k].id
    BY <1>3, <2>5
  <2>11. \A l \in Listeners : M[l] # 0 => \E k \in 1..Len(L) : V[k].id = M[l] /\ V[k].who = l
    BY <1>4, <2>5, SMTT(30)
  <2>12. \A b \in Actors : J[b] # 0 => \E k \in 1..Len(L) : V[k].id = J[b]
    BY <1>4, <2>0, <2>4, <2>5, SMTT(30)
  <2>13. Books(V, M, J, E)
    BY <1>0, <2>3, <2>4, <2>9, <2>10, <2>11, <2>12 DEF Books
  <2> QED
    BY <2>2, <2>13 DEF V
<1>2. CASE ~(i <= Len(L))
  <2>1. Visit(L, i).list = L /\ Visit(L, i).at = 0
    BY <1>2 DEF Visit
  <2>2. J = I
    BY <1>0, <2>1
  <2> QED
    BY <2>1, <2>2
<1> QED
  BY <1>1, <1>2

\* m_map and Iterate hold iterators into m_list.
LEMMA PositionOf ==
    ASSUME NEW M, NEW I, NEW E, Books(m_list, M, I, E), NEW id,
           \E i \in 1..Len(m_list) : m_list[i].id = id
    PROVE  Position(id) \in 1..Len(m_list) /\ m_list[Position(id)].id = id
<1>1. DOMAIN m_list = 1..Len(m_list)
  BY LenProperties DEF Books
<1> QED
  BY <1>1 DEF Position

\* No two entries have the same id.
LEMMA IdsDiffer ==
    ASSUME NEW L, NEW M, NEW I, NEW E, Books(L, M, I, E),
           NEW i \in 1..Len(L), NEW j \in 1..Len(L), L[i].id = L[j].id
    PROVE  i = j
<1>1. L \in Seq(Entry) /\ L[i].id \in 1..E /\ L[j].id \in 1..E
      /\ (i < j => L[i].id < L[j].id) /\ (j < i => L[j].id < L[i].id)
  BY DEF Books
<1>2. Len(L) \in Nat /\ L[i] \in Entry /\ L[j] \in Entry
  BY <1>1, LenProperties, ElementOfSeq
<1>3. L[i].id \in Nat /\ L[j].id \in Nat
  BY <1>2 DEF Entry
<1> QED
  BY <1>1, <1>2, <1>3, SMTT(30)

\* The entry that Iterate leaves loses one reference.
LEMMA RefsLeft ==
    ASSUME NEW L, NEW M, NEW I, NEW E, Books(L, M, I, E), NEW a \in Actors,
           NEW J, \A b \in Actors : J[b] = IF b = a THEN 0 ELSE I[b],
           NEW i \in 1..Len(L), I[a] = L[i].id, NEW j \in 1..Len(L)
    PROVE  Refs(M, J, L[j]) = Refs(M, I, L[j]) - (IF j = i THEN 1 ELSE 0)
<1> DEFINE A == {b \in Actors : I[b] = L[j].id}
           B == {b \in Actors : J[b] = L[j].id}
           m == IF M[L[j].who] = L[j].id THEN 1 ELSE 0
<1>2. IsFiniteSet(A) /\ L[j].id # 0
  <2>1. L[j].id \in 1..E => L[j].id # 0
    BY SMTT(30)
  <2> QED
    BY <2>1, ActorsFinite, FS_Subset DEF Books
<1>3. Refs(M, J, L[j]) = Cardinality(B) + m /\ Refs(M, I, L[j]) = Cardinality(A) + m
  BY DEF Refs
<1>4. Cardinality(A) \in Nat /\ m \in Nat
  BY <1>2, FS_CardinalityType
<1>5. CASE j = i
  <2>1. B = A \ {a} /\ a \in A
    BY <1>2, <1>5
  <2>2. Cardinality(B) = Cardinality(A) - 1
    BY <1>2, <2>1, FS_RemoveElement
  <2> HIDE DEF A, B, m
  <2>3. Refs(M, J, L[j]) = Refs(M, I, L[j]) - 1
    BY <1>3, <1>4, <2>2, SMTT(30)
  <2> QED
    BY <1>5, <2>3
<1>6. CASE j # i
  <2>1. L[j].id # L[i].id
    BY <1>6, IdsDiffer
  <2>2. B = A
    BY <1>2, <2>1
  <2> HIDE DEF A, B, m
  <2>3. Refs(M, J, L[j]) = Refs(M, I, L[j]) - 0
    BY <1>3, <1>4, <2>2, SMTT(30)
  <2> QED
    BY <1>6, <2>3
<1> QED
  BY <1>5, <1>6

\* Iterate calls the entries one after the other, also when it removes the one it leaves.
LEMMA NextEntry ==
    ASSUME NEW M, NEW I, NEW E, Books(m_list, M, I, E), NEW i \in 1..Len(m_list)
    PROVE  NextVisit(i).at = IF i < Len(m_list) THEN m_list[i + 1].id ELSE 0
<1> DEFINE L == m_list
           D == Drop(L, i)
           n == IF L[i].count = 1 THEN i ELSE i + 1
<1>0. L \in Seq(Entry) /\ Len(L) \in Nat /\ L[i].count > 0
  BY LenProperties DEF Books
<1>1. /\ L[i].count = 1 =>
                 /\ Len(D) = Len(L) - 1
                 /\ \A k \in 1..(Len(L) - 1) : D[k] = L[IF k < i THEN k ELSE k + 1]
      /\ L[i].count # 1 =>
                 /\ Len(D) = Len(L)
                 /\ \A k \in 1..Len(L) :
                       D[k] = IF k = i THEN [L[i] EXCEPT !.count = @ - 1] ELSE L[k]
  BY <1>0, DropProperties
<1>2. NextVisit(i) = Visit(D, n)
  BY DEF NextVisit
<1> HIDE DEF D
<1>3. CASE i < Len(L)
  <2>1. n <= Len(D)
    BY <1>0, <1>1, <1>3, SMTT(30)
  <2>2. D[n] = L[i + 1]
    <3>1. CASE L[i].count = 1
      <4>1. i \in 1..(Len(L) - 1) /\ ~(i < i)
        BY <1>0, <1>3, SMTT(30)
      <4> QED
        BY <1>1, <3>1, <4>1
    <3>2. CASE L[i].count # 1
      <4>1. i + 1 \in 1..Len(L) /\ i + 1 # i
        BY <1>0, <1>3, SMTT(30)
      <4> QED
        BY <1>1, <3>2, <4>1
    <3> QED
      BY <3>1, <3>2
  <2> HIDE DEF n
  <2>3. Visit(D, n).at = D[n].id
    BY <2>1 DEF Visit
  <2> QED
    BY <1>2, <1>3, <2>2, <2>3
<1>4. CASE ~(i < Len(L))
  <2>1. ~(n <= Len(D))
    BY <1>0, <1>1, <1>4, SMTT(30)
  <2> HIDE DEF n
  <2>2. Visit(D, n).at = 0
    BY <2>1 DEF Visit
  <2> QED
    BY <1>2, <1>4, <2>2
<1> QED
  BY <1>3, <1>4

\* Iterate from one listener's callback to the next one's.
LEMMA NextVisitBooks ==
    ASSUME Books(m_list, m_map, it, entries), NEW a \in Actors, NEW i \in 1..Len(m_list),
           it[a] = m_list[i].id,
           NEW J, J = [b \in Actors |-> IF b = a THEN NextVisit(i).at ELSE it[b]]
    PROVE  Books(NextVisit(i).list, m_map, J, entries)
<1> DEFINE K == [b \in Actors |-> IF b = a THEN 0 ELSE it[b]]
           n == IF m_list[i].count = 1 THEN i ELSE i + 1
<1>1. /\ m_map \in [Listeners -> Nat] /\ it \in [Actors -> Nat] /\ K \in [Actors -> Nat]
      /\ \A b \in Actors : K[b] = it[b] \/ K[b] = 0
      /\ \A b \in Actors : K[b] = IF b = a THEN 0 ELSE it[b]
      /\ K[a] = 0
  BY DEF Books
<1> HIDE DEF K
<1>2. \A j \in 1..Len(m_list) :
        Refs(m_map, K, m_list[j]) = Refs(m_map, it, m_list[j]) - (IF j = i THEN 1 ELSE 0)
  <2> SUFFICES ASSUME NEW j \in 1..Len(m_list)
               PROVE  Refs(m_map, K, m_list[j])
                        = Refs(m_map, it, m_list[j]) - (IF j = i THEN 1 ELSE 0)
    OBVIOUS
  <2>1. \A b \in Actors : K[b] = IF b = a THEN 0 ELSE it[b]
    BY <1>1
  <2> QED
    BY <2>1, RefsLeft, SMTT(30)
<1>3. Books(Drop(m_list, i), m_map, K, entries)
  BY <1>1, <1>2, DropBooks
<1>4. n \in Nat \ {0}
  <2>1. m_list \in Seq(Entry)
    BY DEF Books
  <2>2. Len(m_list) \in Nat
    BY <2>1, LenProperties
  <2> QED
    BY <2>2, SMTT(30)
<1>5. NextVisit(i) = Visit(Drop(m_list, i), n)
  BY DEF NextVisit
<1> HIDE DEF n
<1>6. J = [b \in Actors |-> IF b = a THEN Visit(Drop(m_list, i), n).at ELSE K[b]]
  BY <1>1, <1>5
<1>7. Books(Visit(Drop(m_list, i), n).list, m_map, J, entries)
  BY <1>1, <1>3, <1>4, <1>6, VisitBooks
<1> QED
  BY <1>5, <1>7

\* Register appends an entry that only m_map refers to.
LEMMA RegisterBooks ==
    ASSUME Books(m_list, m_map, it, entries), entries \in Nat,
           NEW l \in Listeners, l \notin Residents, m_map[l] = 0
    PROVE  Books(Append(m_list, [id |-> entries + 1, who |-> l, count |-> 1]),
                 [m_map EXCEPT ![l] = entries + 1], it, entries + 1)
<1> DEFINE e == [id |-> entries + 1, who |-> l, count |-> 1]
           L == Append(m_list, e)
           M == [m_map EXCEPT ![l] = entries + 1]
           n == Len(m_list)
<1>0. /\ m_list \in Seq(Entry) /\ n \in Nat
      /\ it \in [Actors -> Nat] /\ m_map \in [Listeners -> Nat]
      /\ \A k \in 1..n : m_list[k] \in Entry
  BY LenProperties, ElementOfSeq DEF Books
<1>1. /\ \A j, k \in 1..n : j < k => m_list[j].id < m_list[k].id
      /\ \A k \in 1..n : /\ m_list[k].id \in 1..entries /\ m_list[k].count > 0
                         /\ m_list[k].count = Refs(m_map, it, m_list[k])
      /\ \A k \in 1..n : m_list[k].who \in Residents => m_map[m_list[k].who] = m_list[k].id
  BY DEF Books
<1>2. /\ \A x \in Listeners : m_map[x] # 0 =>
             \E k \in 1..n : m_list[k].id = m_map[x] /\ m_list[k].who = x
      /\ \A b \in Actors : it[b] # 0 => \E k \in 1..n : m_list[k].id = it[b]
  BY DEF Books
<1>3. /\ M \in [Listeners -> Nat]
      /\ \A x \in Listeners : M[x] = IF x = l THEN entries + 1 ELSE m_map[x]
      /\ entries + 1 \in Nat
  <2>1. entries + 1 \in Nat
    BY SMTT(30)
  <2> QED
    BY <1>0, <2>1
<1>4. e \in Entry /\ e.id = entries + 1 /\ e.who = l /\ e.count = 1
  BY <1>3 DEF Entry
<1> HIDE DEF e, M
<1>5. /\ L \in Seq(Entry) /\ Len(L) = n + 1
      /\ \A k \in 1..n : L[k] = m_list[k]
      /\ L[n + 1] = e
  <2>1. m_list \in Seq(Entry) /\ e \in Entry
    BY <1>0, <1>4
  <2> QED
    BY <2>1, AppendProperties, SMTT(30)
<1> HIDE DEF L
<1>6. \A k \in 1..(n + 1) : (k \in 1..n /\ L[k] = m_list[k]) \/ (k = n + 1 /\ L[k] = e)
  BY <1>0, <1>5, SMTT(30)
<1>7. \A j, k \in 1..(n + 1) : j < k => L[j].id < L[k].id
  BY <1>0, <1>1, <1>4, <1>6, SMTT(30)
<1>8. \A k \in 1..n : /\ m_list[k].who \in Listeners
                       /\ m_list[k].id \in Nat /\ m_list[k].id # entries + 1
                      /\ m_list[k].id # 0
  <2>1. \A k \in 1..n : m_list[k].who \in Listeners /\ m_list[k].id \in Nat
    BY <1>0 DEF Entry
  <2> QED
    BY <1>1, <2>1, SMTT(30)
<1>9. \A k \in 1..n : Refs(M, it, m_list[k]) = Refs(m_map, it, m_list[k])
  <2> SUFFICES ASSUME NEW k \in 1..n
               PROVE  Refs(M, it, m_list[k]) = Refs(m_map, it, m_list[k])
    OBVIOUS
  <2>1. M[m_list[k].who] = m_list[k].id <=> m_map[m_list[k].who] = m_list[k].id
    BY <1>3, <1>8
  <2> QED
    BY <2>1 DEF Refs
<1>10. Refs(M, it, e) = 1
  <2>1. {b \in Actors : it[b] = e.id} = {}
    <3>1. \A b \in Actors : it[b] # entries + 1
      <4>1. entries + 1 # 0
        BY SMTT(30)
      <4>2. ASSUME NEW b \in Actors, it[b] = entries + 1 PROVE FALSE
        <5>1. PICK k \in 1..n : m_list[k].id = it[b]
          BY <1>2, <4>1, <4>2
        <5> QED
          BY <1>8, <4>2, <5>1
      <4> QED
        BY <4>2
    <3> QED
      BY <1>4, <3>1
  <2>2. M[e.who] = e.id
    BY <1>3, <1>4
  <2>3. Refs(M, it, e) = 0 + 1
    BY <2>1, <2>2, FS_EmptySet DEF Refs
  <2> QED
    BY <2>3, SMTT(30)
<1>11. \A k \in 1..(n + 1) : /\ L[k].id \in 1..(entries + 1) /\ L[k].count = Refs(M, it, L[k])
                             /\ L[k].count > 0
  <2>1. ASSUME NEW k \in 1..n
        PROVE  m_list[k].id \in 1..(entries + 1)
    BY <1>1, <1>8, SMTT(30)
  <2>2. entries + 1 \in 1..(entries + 1) /\ 1 > 0
    BY SMTT(30)
  <2>3. ASSUME NEW k \in 1..(n + 1), k \in 1..n, L[k] = m_list[k]
        PROVE  L[k].id \in 1..(entries + 1) /\ L[k].count = Refs(M, it, L[k]) /\ L[k].count > 0
    BY <1>1, <1>9, <2>1, <2>3
  <2>4. ASSUME NEW k \in 1..(n + 1), L[k] = e
        PROVE  L[k].id \in 1..(entries + 1) /\ L[k].count = Refs(M, it, L[k]) /\ L[k].count > 0
    BY <1>4, <1>10, <2>2, <2>4
  <2> QED
    BY <1>6, <2>3, <2>4
<1>12. \A k \in 1..(n + 1) : L[k].who \in Residents => M[L[k].who] = L[k].id
  <2>1. ASSUME NEW k \in 1..n, m_list[k].who \in Residents
        PROVE  M[m_list[k].who] = m_list[k].id
    BY <1>1, <1>3, <1>8, <2>1
  <2> QED
    BY <1>4, <1>6, <2>1
<1>13. 1..n \subseteq 1..(n + 1) /\ n + 1 \in 1..(n + 1)
  BY <1>0, SMTT(30)
<1>14. \A x \in Listeners : M[x] # 0 => \E k \in 1..(n + 1) : L[k].id = M[x] /\ L[k].who = x
  <2> SUFFICES ASSUME NEW x \in Listeners, M[x] # 0
               PROVE  \E k \in 1..(n + 1) : L[k].id = M[x] /\ L[k].who = x
    OBVIOUS
  <2>1. CASE x = l
    BY <1>3, <1>4, <1>5, <1>13, <2>1
  <2>2. CASE x # l
    <3>1. PICK k \in 1..n : m_list[k].id = m_map[x] /\ m_list[k].who = x
      BY <1>2, <1>3, <2>2
    <3> QED
      BY <1>3, <1>5, <1>13, <2>2, <3>1
  <2> QED
    BY <2>1, <2>2
<1>15. \A b \in Actors : it[b] # 0 => \E k \in 1..(n + 1) : L[k].id = it[b]
  <2> SUFFICES ASSUME NEW b \in Actors, it[b] # 0 PROVE \E k \in 1..(n + 1) : L[k].id = it[b]
    OBVIOUS
  <2>1. PICK k \in 1..n : m_list[k].id = it[b]
    BY <1>2
  <2> QED
    BY <1>5, <1>13, <2>1
<1>16. Books(L, M, it, entries + 1)
  BY <1>0, <1>3, <1>5, <1>7, <1>11, <1>12, <1>14, <1>15 DEF Books
<1> QED
  BY <1>16 DEF L, M, e

\* Unregister takes m_map's reference away.
LEMMA UnregisterBooks ==
    ASSUME Books(m_list, m_map, it, entries), NEW l \in Listeners, l \notin Residents, m_map[l] # 0
    PROVE  Books(Unregistered(l), [m_map EXCEPT ![l] = 0], it, entries)
<1> DEFINE M == [m_map EXCEPT ![l] = 0]
           i == Position(m_map[l])
<1>1. /\ m_map \in [Listeners -> Nat] /\ it \in [Actors -> Nat] /\ M \in [Listeners -> Nat]
      /\ \A x \in Listeners : M[x] = IF x = l THEN 0 ELSE m_map[x]
  BY DEF Books
<1>2. PICK k \in 1..Len(m_list) : m_list[k].id = m_map[l] /\ m_list[k].who = l
  BY DEF Books
<1>3. i \in 1..Len(m_list) /\ m_list[i].id = m_map[l]
  BY <1>2, PositionOf
<1>4. i = k
  BY <1>2, <1>3, IdsDiffer
<1> HIDE DEF M, i
<1>5. ASSUME NEW j \in 1..Len(m_list)
      PROVE  Refs(M, it, m_list[j]) = Refs(m_map, it, m_list[j]) - (IF j = i THEN 1 ELSE 0)
  <2> DEFINE c == Cardinality({b \in Actors : it[b] = m_list[j].id})
  <2>1. /\ Refs(M, it, m_list[j]) = c + (IF M[m_list[j].who] = m_list[j].id THEN 1 ELSE 0)
        /\ Refs(m_map, it, m_list[j]) = c + (IF m_map[m_list[j].who] = m_list[j].id THEN 1 ELSE 0)
    BY DEF Refs
  <2>2. c \in Nat
    BY ActorsFinite, FS_Subset, FS_CardinalityType
  <2> HIDE DEF c
  <2>3. m_list[j].id # 0 /\ m_list[j].who \in Listeners
    <3>1. m_list[j].id \in 1..entries => m_list[j].id # 0
      BY SMTT(30)
    <3>2. m_list \in Seq(Entry) /\ m_list[j].id \in 1..entries
      BY DEF Books
    <3>3. m_list[j] \in Entry
      BY <3>2, ElementOfSeq
    <3> QED
      BY <3>1, <3>2, <3>3 DEF Entry
  <2>4. CASE j = i
    <3>1. m_map[m_list[j].who] = m_list[j].id /\ M[m_list[j].who] # m_list[j].id
      BY <1>1, <1>2, <1>3, <1>4, <2>3, <2>4
    <3>2. Refs(M, it, m_list[j]) = c + 0 /\ Refs(m_map, it, m_list[j]) = c + 1
      BY <2>1, <3>1
    <3> QED
      BY <2>2, <2>4, <3>2, SMTT(30)
  <2>5. CASE j # i
    <3>1. m_list[j].id # m_map[l]
      BY <1>3, <2>5, IdsDiffer
    <3>2. M[m_list[j].who] = m_list[j].id <=> m_map[m_list[j].who] = m_list[j].id
      BY <1>1, <2>3, <3>1
    <3>3. Refs(M, it, m_list[j]) = Refs(m_map, it, m_list[j]) /\ Refs(M, it, m_list[j]) \in Nat
      BY <2>1, <3>2, RefsType
    <3> QED
      BY <2>5, <3>3, SMTT(30)
  <2> QED
    BY <2>4, <2>5
<1>6. Books(Drop(m_list, i), M, it, entries)
  BY <1>1, <1>3, <1>5, DropBooks
<1> QED
  BY <1>6 DEF Unregistered, M, i

-----------------------------------------------------------------------------
(* The listeners' list over the whole run.                                 *)

ListInv ==
    /\ entries \in Nat
    /\ Books(m_list, m_map, it, entries)
    /\ \A a \in Actors : it[a] # 0 <=> pc[a] = "iterate"
    /\ pc[Main] # "exit" => \A l \in Residents : m_map[l] # 0

\* The counts as the code states them.
LEMMA ListCounts == ListInv => CountsExact
<1> SUFFICES ASSUME ListInv PROVE CountsExact
  OBVIOUS
<1>0. /\ m_list \in Seq(Entry) /\ m_map \in [Listeners -> Nat] /\ it \in [Actors -> Nat]
      /\ \A i \in 1..Len(m_list) : /\ m_list[i].count = Refs(m_map, it, m_list[i])
                                   /\ m_list[i].count > 0
      /\ \A l \in Listeners : m_map[l] # 0 => \E i \in 1..Len(m_list) : m_list[i].id = m_map[l]
      /\ \A a \in Actors : it[a] # 0 => \E i \in 1..Len(m_list) : m_list[i].id = it[a]
  BY DEF ListInv, Books
<1>1. DOMAIN m_list = 1..Len(m_list)
  BY <1>0, LenProperties
<1> DEFINE ids == {m_list[i].id : i \in DOMAIN m_list}
<1>2. \A l \in Listeners : m_map[l] \in ids \cup {0}
  BY <1>0, <1>1
<1>3. \A a \in Actors : it[a] \in ids \cup {0}
  BY <1>0, <1>1
<1>4. \A i \in DOMAIN m_list :
        LET e == m_list[i]
        IN  /\ e.count = Cardinality(Executing(e.id)) + (IF m_map[e.who] = e.id THEN 1 ELSE 0)
            /\ e.count > 0
  BY <1>0, <1>1 DEF Refs, Executing
<1> QED
  BY <1>2, <1>3, <1>4 DEF CountsExact

\* The books of the next state are the books of the next list.
LEMMA BooksPrime ==
    ASSUME Books(m_list', m_map', it', entries')
    PROVE  Books(m_list, m_map, it, entries)'
BY DEF Books, Refs

\* A step that neither enters nor leaves an Iterate.
LEMMA ListFrame ==
    ASSUME ListInv, UNCHANGED <<list, it>>,
           \A a \in Actors : pc'[a] = "iterate" <=> pc[a] = "iterate",
           pc[Main] = "exit" => pc'[Main] = "exit"
    PROVE  ListInv'
<1>1. UNCHANGED <<m_list, m_map, entries, it>>
  BY DEF list
<1>2. Books(m_list', m_map', it', entries')
  BY <1>1 DEF ListInv
<1> QED
  BY <1>1, <1>2, BooksPrime DEF ListInv

\* Iterate begins: Call of an event, or SignalNow.
LEMMA ListBegin ==
    ASSUME ListInv, QueueInv, NEW a \in Actors, BeginIterate(a), UNCHANGED <<m_map, entries>>,
           pc[a] \in {"call", "idle"}
    PROVE  ListInv'
<1> DEFINE v == Visit(m_list, 1)
<1>1. /\ m_list' = v.list /\ it' = [it EXCEPT ![a] = v.at]
      /\ pc' = [pc EXCEPT ![a] = IF v.at = 0 THEN AfterIterate(a) ELSE "iterate"]
  BY DEF BeginIterate, Goto
<1>2. it[a] = 0 /\ it \in [Actors -> Nat]
  BY DEF ListInv, Books
<1>3. it' = [b \in Actors |-> IF b = a THEN v.at ELSE it[b]]
  BY <1>1, <1>2
<1>4. 1 \in Nat \ {0}
  BY SMTT(30)
<1>5. Books(m_list, m_map, it, entries)
  BY DEF ListInv
<1>6. Books(v.list, m_map, it', entries)
  BY <1>2, <1>3, <1>4, <1>5, VisitBooks
<1>7. Books(m_list, m_map, it, entries)'
  <2>1. Books(m_list', m_map', it', entries')
    BY <1>1, <1>6
  <2> QED
    BY <2>1, BooksPrime
<1>8. \A b \in Actors : it'[b] # 0 <=> pc'[b] = "iterate"
  <2>1. \A b \in Actors : it'[b] = IF b = a THEN v.at ELSE it[b]
    BY <1>3
  <2>2. AfterIterate(a) # "iterate"
    BY DEF AfterIterate
  <2>3. \A b \in Actors : pc'[b] = IF b = a THEN IF v.at = 0 THEN AfterIterate(a) ELSE "iterate"
                                   ELSE pc[b]
    BY <1>1 DEF QueueInv
  <2> HIDE DEF v
  <2> QED
    BY <2>1, <2>2, <2>3 DEF ListInv
<1>9. pc'[Main] # "exit" => pc[Main] # "exit"
  <2>1. Main \in Actors /\ AfterIterate(a) # "exit"
    BY DEF Actors, AfterIterate
  <2> QED
    BY <1>1, <2>1 DEF QueueInv
<1> QED
  BY <1>7, <1>8, <1>9 DEF ListInv

\* Iterate goes on.
LEMMA ListContinue ==
    ASSUME ListInv, QueueInv, NEW a \in Actors, ContinueIterate(a)
    PROVE  ListInv'
<1> DEFINE i == Position(it[a])
           v == NextVisit(i)
<1>1. /\ m_list' = v.list /\ it' = [it EXCEPT ![a] = v.at] /\ UNCHANGED <<m_map, entries>>
      /\ pc' = [pc EXCEPT ![a] = IF v.at = 0 THEN AfterIterate(a) ELSE "iterate"]
      /\ pc[a] = "iterate"
  BY DEF ContinueIterate, Goto
<1>2. it[a] # 0 /\ it \in [Actors -> Nat] /\ Books(m_list, m_map, it, entries)
  BY <1>1 DEF ListInv, Books
<1>3. i \in 1..Len(m_list) /\ m_list[i].id = it[a]
  <2>1. \E k \in 1..Len(m_list) : m_list[k].id = it[a]
    BY <1>2 DEF Books
  <2> QED
    BY <1>2, <2>1, PositionOf
<1>4. it' = [b \in Actors |-> IF b = a THEN v.at ELSE it[b]]
  BY <1>1, <1>2
<1> HIDE DEF i
<1>5. Books(v.list, m_map, it', entries)
  BY <1>2, <1>3, <1>4, NextVisitBooks
<1> HIDE DEF v
<1>6. Books(m_list, m_map, it, entries)'
  <2>1. Books(m_list', m_map', it', entries')
    BY <1>1, <1>5
  <2> QED
    BY <2>1, BooksPrime
<1>7. \A b \in Actors : it'[b] # 0 <=> pc'[b] = "iterate"
  <2>1. \A b \in Actors : it'[b] = IF b = a THEN v.at ELSE it[b]
    BY <1>4
  <2>2. AfterIterate(a) # "iterate"
    BY DEF AfterIterate
  <2>3. \A b \in Actors : pc'[b] = IF b = a THEN IF v.at = 0 THEN AfterIterate(a) ELSE "iterate"
                                   ELSE pc[b]
    BY <1>1 DEF QueueInv
  <2> QED
    BY <2>1, <2>2, <2>3 DEF ListInv
<1>8. pc'[Main] # "exit" => pc[Main] # "exit"
  <2>1. Main \in Actors /\ AfterIterate(a) # "exit"
    BY DEF Actors, AfterIterate
  <2> QED
    BY <1>1, <2>1 DEF QueueInv
<1> QED
  BY <1>1, <1>6, <1>7, <1>8 DEF ListInv

\* The entries that AppInitMain has registered.
LEMMA ListInit == Init => ListInv
<1> SUFFICES ASSUME Init PROVE ListInv
  OBVIOUS
<1> DEFINE n == Cardinality(Listeners)
           who(i) == CHOOSE l \in Listeners : m_map[l] = i
<1>0. n \in Nat /\ IsFiniteSet(1..n) /\ Cardinality(1..n) = n
  <2>1. n \in Nat
    BY ValidationQueueAssumption, FS_CardinalityType
  <2>2. 1 \in Int /\ n \in Int /\ IF 1 > n THEN 0 = n ELSE n - 1 + 1 = n
    BY <2>1, SMTT(30)
  <2> QED
    BY <2>1, <2>2, FS_Interval
<1>1. /\ m_map \in [Listeners -> 1..n] /\ entries = n
      /\ \A k, l \in Listeners : m_map[k] = m_map[l] => k = l
      /\ it = [a \in Actors |-> 0]
      /\ m_list = [i \in 1..n |-> [id |-> i, who |-> who(i), count |-> 1]]
      /\ pc = [a \in Actors |-> IF a \in Threads THEN "check"
                                ELSE IF a = Main THEN "up" ELSE "idle"]
  BY DEF Init
<1>2. \A i \in 1..n : \E l \in Listeners : m_map[l] = i
  <2>1. m_map \in Injection(Listeners, 1..n)
    BY <1>1, SMTT(30) DEF Injection, IsInjective
  <2>2. m_map \in Surjection(Listeners, 1..n)
    BY <1>0, <2>1, FS_Injection
  <2> QED
    BY <2>2 DEF Surjection
<1>3. \A i \in 1..n : who(i) \in Listeners /\ m_map[who(i)] = i
  BY <1>2
<1> HIDE DEF n, who
<1>4. \A l \in Listeners : m_map[l] \in 1..n /\ who(m_map[l]) = l
  <2>1. \A l \in Listeners : m_map[l] \in 1..n
    BY <1>1
  <2> QED
    BY <1>1, <1>3, <2>1
<1>5. \A i \in 1..n : i \in Nat /\ i # 0
  BY <1>0, SMTT(30)
<1>6. /\ m_list \in [1..n -> Entry]
      /\ \A i \in 1..n : m_list[i].id = i /\ m_list[i].who = who(i) /\ m_list[i].count = 1
  <2>1. 1 \in Nat
    BY SMTT(30)
  <2> QED
    BY <1>1, <1>3, <1>5, <2>1 DEF Entry
<1>7. m_list \in Seq(Entry) /\ Len(m_list) = n
  <2>1. m_list \in Seq(Entry)
    BY <1>0, <1>6, SeqOf
  <2>2. DOMAIN m_list = 1..n /\ DOMAIN m_list = 1..Len(m_list) /\ Len(m_list) \in Nat
    BY <1>6, <2>1, LenProperties
  <2> QED
    BY <1>0, <2>1, <2>2, SMTT(30)
<1>8. \A i \in 1..n : Refs(m_map, it, m_list[i]) = 1
  <2> SUFFICES ASSUME NEW i \in 1..n PROVE Refs(m_map, it, m_list[i]) = 1
    OBVIOUS
  <2>1. {a \in Actors : it[a] = m_list[i].id} = {}
    BY <1>1, <1>5, <1>6
  <2>2. m_map[m_list[i].who] = m_list[i].id
    BY <1>3, <1>6
  <2>3. Refs(m_map, it, m_list[i]) = 0 + 1
    BY <2>1, <2>2, FS_EmptySet DEF Refs
  <2> QED
    BY <2>3, SMTT(30)
<1>9. m_map \in [Listeners -> Nat] /\ it \in [Actors -> Nat] /\ \A a \in Actors : it[a] = 0
  <2>1. 0 \in Nat
    BY SMTT(30)
  <2> QED
    BY <1>1, <1>5, <2>1
<1>10. Books(m_list, m_map, it, entries)
  <2>1. \A i, j \in 1..Len(m_list) : i < j => m_list[i].id < m_list[j].id
    BY <1>6, <1>7
  <2>2. 1 > 0
    BY SMTT(30)
  <2>3. \A i \in 1..Len(m_list) : /\ m_list[i].id \in 1..entries
                                  /\ m_list[i].count = Refs(m_map, it, m_list[i])
                                  /\ m_list[i].count > 0
                                  /\ m_map[m_list[i].who] = m_list[i].id
    BY <1>1, <1>3, <1>6, <1>7, <1>8, <2>2
  <2>4. \A l \in Listeners : \E i \in 1..Len(m_list) : m_list[i].id = m_map[l] /\ m_list[i].who = l
    BY <1>4, <1>6, <1>7, SMTT(30)
  <2> QED
    BY <1>7, <1>9, <2>1, <2>3, <2>4 DEF Books
<1>11. \A a \in Actors : pc[a] # "iterate"
  BY <1>1
<1>12. \A l \in Residents : m_map[l] # 0
  BY <1>4, <1>5, ValidationQueueAssumption
<1> QED
  BY <1>0, <1>1, <1>9, <1>10, <1>11, <1>12 DEF ListInv

\* Register and Unregister.
LEMMA ListRegister ==
    ASSUME ListInv, NEW l \in Listeners \ Residents, Register(l) \/ Unregister(l)
    PROVE  ListInv'
<1>0. l \in Listeners /\ l \notin Residents /\ entries \in Nat /\ m_map \in [Listeners -> Nat]
      /\ Books(m_list, m_map, it, entries)
  BY DEF ListInv, Books
<1>1. UNCHANGED <<pc, it>>
  BY DEF Register, Unregister
<1>2. /\ Books(m_list', m_map', it', entries') /\ entries' \in Nat
      /\ \A x \in Residents : m_map'[x] = m_map[x]
  <2>1. CASE Register(l)
    <3>1. entries + 1 \in Nat
      BY <1>0, SMTT(30)
    <3>2. Books(m_list', m_map', it', entries')
      BY <1>0, <1>1, <2>1, RegisterBooks DEF Register
    <3> QED
      BY <1>0, <2>1, <3>1, <3>2, ValidationQueueAssumption DEF Register
  <2>2. CASE Unregister(l)
    <3>1. Books(m_list', m_map', it', entries')
      BY <1>0, <1>1, <2>2, UnregisterBooks DEF Unregister
    <3> QED
      BY <1>0, <2>2, <3>1, ValidationQueueAssumption DEF Unregister
  <2> QED
    BY <2>1, <2>2
<1>3. Books(m_list, m_map, it, entries)'
  BY <1>2, BooksPrime
<1> QED
  BY <1>1, <1>2, <1>3 DEF ListInv

\* Clear: nobody is in an Iterate any more, so no entry is left.
LEMMA ListClear ==
    ASSUME ListInv, PlaceInv, QueueInv, Clear
    PROVE  ListInv'
<1> DEFINE referred == {i \in DOMAIN m_list : \E l \in Listeners : m_map[l] = m_list[i].id}
           dropped == [i \in DOMAIN m_list |->
                          IF i \in referred THEN [m_list[i] EXCEPT !.count = @ - 1] ELSE m_list[i]]
           K == {i \in DOMAIN m_list : dropped[i].count > 0}
<1>0. /\ m_list' = Listed(dropped, K) /\ m_map' = [l \in Listeners |-> 0]
      /\ pc' = [pc EXCEPT ![Main] = "exit"] /\ UNCHANGED <<it, entries>> /\ pc[Main] = "dropped"
  BY DEF Clear, Goto
<1>1. \A a \in Actors : pc[a] # "iterate" /\ it[a] = 0
  <2>1. \A t \in Threads : pc[t] = "exit"
    BY <1>0 DEF PlaceInv, FlushPlaces
  <2>2. \A p \in Producers : pc[p] = "idle"
    BY <1>0 DEF PlaceInv
  <2>3. \A a \in Actors : pc[a] # "iterate"
    BY <1>0, <2>1, <2>2 DEF Actors
  <2> QED
    BY <2>3 DEF ListInv
<1>2. /\ m_list \in Seq(Entry) /\ it \in [Actors -> Nat] /\ entries \in Nat
      /\ \A i \in 1..Len(m_list) : /\ m_list[i].id \in 1..entries /\ m_list[i].count > 0
                                   /\ m_list[i].count = Refs(m_map, it, m_list[i])
  BY DEF ListInv, Books
<1>3. DOMAIN m_list = 1..Len(m_list) /\ \A i \in 1..Len(m_list) : m_list[i] \in Entry
  BY <1>2, LenProperties, ElementOfSeq
<1>4. ASSUME NEW i \in 1..Len(m_list)
      PROVE  i \in referred /\ m_list[i].count = 1
  <2>0. m_list[i].who \in Listeners /\ m_list[i].count \in Nat
    BY <1>3 DEF Entry
  <2>1. m_list[i].id # 0
    <3>1. m_list[i].id \in 1..entries => m_list[i].id # 0
      BY SMTT(30)
    <3> QED
      BY <1>2, <3>1
  <2>2. {a \in Actors : it[a] = m_list[i].id} = {}
    BY <1>1, <2>1
  <2>3. m_list[i].count = 0 + (IF m_map[m_list[i].who] = m_list[i].id THEN 1 ELSE 0)
    BY <1>2, <2>2, FS_EmptySet DEF Refs
  <2>4. m_map[m_list[i].who] = m_list[i].id /\ m_list[i].count = 1
    BY <1>2, <2>0, <2>3, SMTT(30)
  <2> QED
    BY <1>3, <2>0, <2>4
<1>5. ASSUME NEW i \in 1..Len(m_list) PROVE ~(dropped[i].count > 0)
  <2>1. dropped[i] = [m_list[i] EXCEPT !.count = @ - 1] /\ m_list[i] \in Entry
    BY <1>3, <1>4
  <2>2. dropped[i].count = m_list[i].count - 1
    BY <2>1 DEF Entry
  <2> QED
    BY <1>4, <2>2, SMTT(30)
<1>6. K = {}
  BY <1>3, <1>5
<1> HIDE DEF K, dropped
<1>7. m_list' \in Seq(Entry) /\ Len(m_list') = 0
  <2>1. Cardinality(K) = 0
    BY <1>6, FS_EmptySet
  <2>2. 1..0 = {}
    BY SMTT(30)
  <2>3. m_list' \in [1..0 -> Entry] /\ 0 \in Nat
    BY <1>0, <2>1, <2>2, SMTT(30) DEF Listed
  <2>4. m_list' \in Seq(Entry) /\ DOMAIN m_list' = {}
    BY <2>2, <2>3, SeqOf
  <2>5. DOMAIN m_list' = 1..Len(m_list') /\ Len(m_list') \in Nat
    BY <2>4, LenProperties
  <2> QED
    BY <2>4, <2>5, SMTT(30)
<1>8. 1..Len(m_list') = {} /\ 0 \in Nat
  BY <1>7, SMTT(30)
<1>9. m_map' \in [Listeners -> Nat] /\ \A l \in Listeners : m_map'[l] = 0
  BY <1>0, <1>8
<1>10. Books(m_list', m_map', it', entries')
  BY <1>0, <1>1, <1>2, <1>7, <1>8, <1>9 DEF Books
<1>11. Books(m_list, m_map, it, entries)'
  BY <1>10, BooksPrime
<1>12. pc'[Main] = "exit" /\ \A a \in Actors : pc'[a] # "iterate"
  BY <1>0, <1>1 DEF QueueInv, Actors
<1> QED
  BY <1>0, <1>1, <1>2, <1>11, <1>12 DEF ListInv

\* A thread moves on outside Iterate.
LEMMA ListMove ==
    ASSUME ListInv, QueueInv, UNCHANGED <<list, it>>, NEW a \in Actors, NEW w,
           pc' = [pc EXCEPT ![a] = w], pc[a] \notin {"iterate", "exit"}, w # "iterate"
    PROVE  ListInv'
<1>1. \A b \in Actors : pc'[b] = IF b = a THEN w ELSE pc[b]
  BY DEF QueueInv
<1> QED
  BY <1>1, ListFrame DEF Actors

\* The same with notify_one.
LEMMA ListWake ==
    ASSUME ListInv, QueueInv, UNCHANGED <<list, it>>, NEW a \in Actors, NEW w \in Places,
           pc' \in WakeOne([pc EXCEPT ![a] = w]), pc[a] \notin {"iterate", "exit"}, w # "iterate"
    PROVE  ListInv'
<1> DEFINE p == [pc EXCEPT ![a] = w]
<1>0. pc \in [Actors -> Places] /\ p \in [Actors -> Places] /\ Main \in Actors
  BY DEF QueueInv, Actors
<1>1. \A b \in Actors : pc'[b] = p[b] \/ (p[b] \in {"waiting", "timed"} /\ pc'[b] = "check")
  BY <1>0, WakeOneMoves
<1>2. \A b \in Actors : p[b] = IF b = a THEN w ELSE pc[b]
  BY <1>0
<1> HIDE DEF p
<1>3. \A b \in Actors : pc'[b] = "iterate" <=> pc[b] = "iterate"
  BY <1>1, <1>2
<1>4. pc[Main] = "exit" => pc'[Main] = "exit"
  BY <1>0, <1>1, <1>2
<1> QED
  BY <1>3, <1>4, ListFrame

\* The steps of the scheduler and of its client.
LEMMA ListClient ==
    ASSUME ListInv, QueueInv, NEW a \in Actors,
           \/ MaybeScheduleProcessQueue(a) \/ Schedule(a) \/ ProcessQueue(a) \/ Finish(a)
           \/ Check(a) \/ Exit(a) \/ TakeTask(a) \/ SpuriousWakeup(a)
    PROVE  ListInv'
<1>1. UNCHANGED <<list, it>>
  BY DEF MaybeScheduleProcessQueue, Schedule, ProcessQueue, Finish, Check, Exit, TakeTask,
         SpuriousWakeup
<1>2. pc[a] \notin {"iterate", "exit"}
  BY DEF MaybeScheduleProcessQueue, Schedule, ProcessQueue, Finish, Check, Exit, TakeTask,
         SpuriousWakeup
<1>3. After(a) \in Places /\ After(a) # "iterate"
  BY AfterPlaces DEF Places
<1>4. CASE Schedule(a)
  BY <1>1, <1>2, <1>3, <1>4, ListWake DEF Schedule
<1>5. CASE Exit(a)
  <2>1. "exit" \in Places
    BY DEF Places
  <2> QED
    BY <1>1, <1>2, <1>5, <2>1, ListWake DEF Exit
<1>6. CASE \/ MaybeScheduleProcessQueue(a) \/ ProcessQueue(a) \/ Finish(a)
           \/ Check(a) \/ TakeTask(a) \/ SpuriousWakeup(a)
  <2>1. \E w \in {After(a), "schedule", "call", "maybe", "waiting", "timed", "process", "check"} :
            pc' = [pc EXCEPT ![a] = w]
    BY <1>6 DEF MaybeScheduleProcessQueue, ProcessQueue, Finish, Check, TakeTask, SpuriousWakeup,
                AfterCallback, Goto
  <2> QED
    BY <1>1, <1>2, <1>3, <2>1, ListMove
<1> QED
  BY <1>4, <1>5, <1>6

\* A queued callback is called.
LEMMA ListCall ==
    ASSUME ListInv, QueueInv, NEW a \in Actors, Call(a)
    PROVE  ListInv'
<1>1. pc[a] = "call" /\ UNCHANGED <<m_map, entries>>
  BY DEF Call
<1>2. CASE BeginIterate(a)
  BY <1>1, <1>2, ListBegin
<1>3. CASE Goto(a, "finish") /\ UNCHANGED <<m_list, it>>
  BY <1>1, <1>3, ListMove DEF Goto, list
<1> QED
  BY <1>2, <1>3 DEF Call

\* The producers and Shutdown.
LEMMA ListProducer ==
    ASSUME ListInv, QueueInv, NEW p \in Producers,
           \/ QueueEvent(p) \/ SignalNow(p)
           \/ SyncWithValidationInterfaceQueue(p) \/ SyncReturn(p)
    PROVE  ListInv'
<1>0. p \in Actors
  BY DEF Actors
<1>1. CASE SignalNow(p)
  BY <1>0, <1>1, ListBegin DEF SignalNow
<1>2. CASE QueueEvent(p) \/ SyncWithValidationInterfaceQueue(p) \/ SyncReturn(p)
  <2>1. UNCHANGED <<list, it>> /\ pc[p] \in {"idle", "blocked"}
        /\ \E w \in {"maybe", "idle"} : pc' = [pc EXCEPT ![p] = w]
    BY <1>2 DEF QueueEvent, SyncWithValidationInterfaceQueue, SyncReturn, AddToProcessQueue, Goto
  <2> QED
    BY <1>0, <2>1, ListMove
<1> QED
  BY <1>1, <1>2

\* Shutdown.
LEMMA ListShutdown ==
    ASSUME ListInv, PlaceInv, QueueInv, Stop \/ JoinAll \/ EmptyQueue \/ ForceFlushAgain \/ Clear
    PROVE  ListInv'
<1>0. Main \in Actors
  BY DEF Actors
<1>1. CASE Stop
  <2>1. UNCHANGED <<list, it>> /\ pc[Main] = "up"
        /\ pc' = [a \in Actors |-> IF a = Main THEN "join"
                               ELSE IF pc[a] \in {"waiting", "timed"} THEN "check" ELSE pc[a]]
    BY <1>1 DEF Stop
  <2>2. \A a \in Actors : pc'[a] = "iterate" <=> pc[a] = "iterate"
    BY <2>1
  <2> QED
    BY <2>1, <2>2, ListFrame
<1>2. CASE JoinAll \/ EmptyQueue \/ ForceFlushAgain
  <2>1. UNCHANGED <<list, it>> /\ pc[Main] \in {"join", "more", "flushed"}
        /\ \E w \in {"maybe", "process", "flushed", "dropped"} : pc' = [pc EXCEPT ![Main] = w]
    BY <1>2 DEF JoinAll, EmptyQueue, ForceFlushAgain, AddToProcessQueue, Goto
  <2> QED
    BY <1>0, <2>1, ListMove
<1>3. CASE Clear
  BY <1>3, ListClear
<1> QED
  BY <1>1, <1>2, <1>3

\* Every step keeps the books.
LEMMA ListNext == ListInv /\ PlaceInv /\ QueueInv /\ [Next]_vars => ListInv'
<1> SUFFICES ASSUME ListInv, PlaceInv, QueueInv, [Next]_vars PROVE ListInv'
  OBVIOUS
<1>1. ASSUME NEW a \in Actors, Step(a) PROVE ListInv'
  BY <1>1, ListClient, ListCall, ListContinue, ListProducer, ListShutdown DEF Step
<1>2. ASSUME NEW t \in Threads, SpuriousWakeup(t) PROVE ListInv'
  BY <1>2, ListClient DEF Actors
<1>3. ASSUME NEW p \in Producers,
             QueueEvent(p) \/ SignalNow(p) \/ SyncWithValidationInterfaceQueue(p)
      PROVE  ListInv'
  BY <1>3, ListProducer
<1>4. ASSUME NEW l \in Listeners \ Residents, Register(l) \/ Unregister(l) PROVE ListInv'
  BY <1>4, ListRegister
<1>5. CASE UNCHANGED vars
  BY <1>5, ListFrame DEF vars
<1> QED
  BY <1>1, <1>2, <1>3, <1>4, <1>5, ListShutdown DEF Next, Done

\* For any listeners and threads: "The count is equal to the number of current executions of
\* that entry, plus 1 if it's registered", and no Iterate and no entry of m_map is left with an
\* iterator to an entry that has been erased.
THEOREM CountsSafe == Spec => []CountsExact
BY QueueInit, QueueNext, PlaceInit, PlaceNext, ListInit, ListNext, ListCounts, PTL DEF Spec

-----------------------------------------------------------------------------
(* The order of the queue.  Callbacks are taken in the order in which they *)
(* were queued, so the number of the next one tells how many events have   *)
(* been taken.                                                             *)

Stride(c) == IF c.kind = "event" THEN 1 ELSE 0

\* s holds the callbacks from after event m up to event n.
Numbered(s, m, n) ==
    /\ \A i \in 1..Len(s) : s[i].n = (IF i = 1 THEN m ELSE s[i - 1].n) + Stride(s[i])
    /\ n = IF s = <<>> THEN m ELSE s[Len(s)].n

\* where s starts, if it ends at event n
Start(s, n) == IF s = <<>> THEN n ELSE s[1].n - Stride(s[1])

\* how many events have been taken from the queue
Taken == Start(pending, events)

OrderInv ==
    /\ Taken \in Nat
    /\ Numbered(pending, Taken, events)
    /\ \A a \in Actors : InCallback(a) => callback[a].n = Taken
    /\ \A a \in Actors : InCallback(a) /\ callback[a].kind = "event" => Taken > 0

\* What a queued callback is.
LEMMA QueuedType ==
    /\ \A c \in Queued : c.n \in Nat /\ Stride(c) \in {0, 1} /\ c.kind \in {"event", "promise"}
    /\ \A n \in Nat : Event(n) \in Queued /\ Event(n).n = n /\ Event(n).kind = "event"
    /\ \A p \in Producers, n \in Nat :
          Promise(p, n) \in Queued /\ Promise(p, n).n = n /\ Promise(p, n).kind = "promise"
<1>1. \A n \in Nat : Event(n) \in Queued /\ Event(n).n = n /\ Event(n).kind = "event"
  BY SMTT(30) DEF Event, Queued
<1>2. \A p \in Producers, n \in Nat :
          Promise(p, n) \in Queued /\ Promise(p, n).n = n /\ Promise(p, n).kind = "promise"
  BY SMTT(30) DEF Promise, Queued
<1>3. ASSUME NEW c \in Queued
      PROVE  (\E n \in Nat : c = Event(n)) \/ (\E p \in Producers, n \in Nat : c = Promise(p, n))
  BY SMTT(30) DEF Queued
<1>4. ASSUME NEW c \in Queued
      PROVE  c.n \in Nat /\ Stride(c) \in {0, 1} /\ c.kind \in {"event", "promise"}
  <2>1. c.n \in Nat /\ c.kind \in {"event", "promise"}
    BY <1>3, SMTT(30) DEF Event, Promise
  <2> QED
    BY <2>1 DEF Stride
<1> QED
  BY <1>1, <1>2, <1>4

\* The numbers of a queue tell where it starts.
LEMMA NumberedTaken ==
    ASSUME NEW s \in Seq(Queued), NEW m \in Nat, NEW n, Numbered(s, m, n)
    PROVE  Start(s, n) = m
<1>1. CASE s = <<>>
  BY <1>1 DEF Start, Numbered
<1>2. CASE s # <<>>
  <2>1. 1 \in 1..Len(s)
    BY <1>2, EmptySeq, SMTT(30)
  <2>2. s[1].n = m + Stride(s[1])
    BY <2>1 DEF Numbered
  <2>3. Stride(s[1]) \in Nat
    BY DEF Stride
  <2>4. s[1].n - Stride(s[1]) = m
    BY <2>2, <2>3, SMTT(30)
  <2> QED
    BY <1>2, <2>4 DEF Start
<1> QED
  BY <1>1, <1>2

\* A callback is queued behind the others.
LEMMA NumberedAppend ==
    ASSUME NEW s \in Seq(Queued), NEW m \in Nat, NEW n \in Nat, Numbered(s, m, n),
           NEW c \in Queued, c.n = n + Stride(c)
    PROVE  Numbered(Append(s, c), m, c.n)
<1> DEFINE t == Append(s, c)
<1>1. /\ Len(s) \in Nat /\ t # <<>> /\ Len(t) = Len(s) + 1
      /\ \A i \in 1..Len(s) : t[i] = s[i]
      /\ t[Len(s) + 1] = c
  BY LenProperties, AppendProperties, SMTT(30)
<1>2. s = <<>> <=> Len(s) = 0
  BY EmptySeq, SMTT(30)
<1> HIDE DEF t
<1>3. ASSUME NEW i \in 1..Len(t) PROVE t[i].n = (IF i = 1 THEN m ELSE t[i - 1].n) + Stride(t[i])
  <2>1. CASE i \in 1..Len(s)
    <3>1. t[i] = s[i] /\ s[i].n = (IF i = 1 THEN m ELSE s[i - 1].n) + Stride(s[i])
      BY <1>1, <2>1 DEF Numbered
    <3>2. i # 1 => i - 1 \in 1..Len(s)
      BY <1>1, <2>1, SMTT(30)
    <3>3. i # 1 => t[i - 1] = s[i - 1]
      BY <1>1, <3>2
    <3> QED
      BY <3>1, <3>3
  <2>2. CASE i = Len(s) + 1
    <3>1. CASE s = <<>>
      <4>1. i = 1 /\ n = m
        BY <1>2, <2>2, <3>1, SMTT(30) DEF Numbered
      <4> QED
        BY <1>1, <2>2, <4>1
    <3>2. CASE s # <<>>
      <4>1. i # 1 /\ i - 1 = Len(s) /\ Len(s) \in 1..Len(s)
        BY <1>1, <1>2, <2>2, <3>2, SMTT(30)
      <4>2. n = s[Len(s)].n /\ t[i - 1] = s[Len(s)] /\ t[i] = c
        BY <1>1, <2>2, <3>2, <4>1 DEF Numbered
      <4> QED
        BY <4>1, <4>2
    <3> QED
      BY <3>1, <3>2
  <2> QED
    BY <1>1, <2>1, <2>2, SMTT(30)
<1>4. t[Len(t)] = c
  BY <1>1
<1> QED
  BY <1>1, <1>3, <1>4 DEF Numbered, t

\* The first callback is taken.
LEMMA NumberedTail ==
    ASSUME NEW s \in Seq(Queued), s # <<>>, NEW m \in Nat, NEW n \in Nat, Numbered(s, m, n)
    PROVE  Head(s).n = m + Stride(Head(s)) /\ Numbered(Tail(s), Head(s).n, n)
<1> DEFINE t == Tail(s)
<1>0. Head(s) = s[1]
  BY SMTT(30)
<1>1. /\ Len(s) \in Nat \ {0} /\ t \in Seq(Queued) /\ Len(t) = Len(s) - 1
      /\ \A i \in 1..Len(t) : t[i] = s[i + 1]
  BY EmptySeq, HeadTailProperties
<1>2. t = <<>> <=> Len(t) = 0
  <2>1. t # <<>> => Len(t) \in Nat \ {0}
    BY <1>1, EmptySeq
  <2>2. t = <<>> => Len(t) = 0
    BY EmptySeq
  <2> QED
    BY <2>1, <2>2, SMTT(30)
<1>3. 1 \in 1..Len(s)
  BY <1>1, SMTT(30)
<1>4. s[1].n = m + Stride(s[1])
  BY <1>3 DEF Numbered
<1> HIDE DEF t
<1>5. ASSUME NEW i \in 1..Len(t)
      PROVE  t[i].n = (IF i = 1 THEN s[1].n ELSE t[i - 1].n) + Stride(t[i])
  <2>1. i + 1 \in 1..Len(s) /\ i + 1 # 1 /\ (i + 1) - 1 = i
        /\ (i # 1 => i - 1 \in 1..Len(t) /\ (i - 1) + 1 = i)
    BY <1>1, SMTT(30)
  <2>2. s[i + 1].n = s[i].n + Stride(s[i + 1])
    BY <2>1 DEF Numbered
  <2>3. t[i] = s[i + 1] /\ (i # 1 => t[i - 1] = s[i])
    BY <1>1, <2>1
  <2> QED
    BY <2>2, <2>3
<1>6. n = IF t = <<>> THEN s[1].n ELSE t[Len(t)].n
  <2>1. n = s[Len(s)].n
    BY DEF Numbered
  <2>2. CASE t = <<>>
    <3>1. Len(s) = 1
      BY <1>1, <1>2, <2>2, SMTT(30)
    <3> QED
      BY <2>1, <2>2, <3>1
  <2>3. CASE t # <<>>
    <3>1. Len(t) \in 1..Len(t) /\ Len(t) + 1 = Len(s)
      BY <1>1, <1>2, <2>3, SMTT(30)
    <3> QED
      BY <1>1, <2>1, <2>3, <3>1
  <2> QED
    BY <2>2, <2>3
<1>7. Numbered(t, s[1].n, n)
  BY <1>5, <1>6 DEF Numbered
<1> QED
  BY <1>0, <1>4, <1>7 DEF t

\* A step that leaves the queue alone.
LEMMA OrderFrame ==
    ASSUME OrderInv, UNCHANGED <<pending, events>>,
           \A a \in Actors : callback'[a] = callback[a] \/ callback'[a] = None
    PROVE  OrderInv' /\ Taken' = Taken
<1>1. Taken' = Taken
  BY DEF Taken
<1>2. Numbered(pending, Taken, events)'
  BY <1>1 DEF OrderInv, Numbered
<1>3. \A a \in Actors : InCallback(a)' => InCallback(a) /\ callback'[a] = callback[a]
  BY DEF InCallback
<1> QED
  BY <1>1, <1>2, <1>3 DEF OrderInv

\* AddToProcessQueue.
LEMMA OrderAdd ==
    ASSUME OrderInv, QueueInv, NEW c \in Queued, c.n = events + Stride(c),
           pending' = Append(pending, c), events' = c.n, UNCHANGED callback
    PROVE  OrderInv' /\ Taken' = Taken
<1>1. /\ pending \in Seq(Queued) /\ Taken \in Nat /\ events \in Nat
      /\ Numbered(pending, Taken, events)
  BY DEF OrderInv, QueueInv
<1>2. Numbered(Append(pending, c), Taken, c.n)
  BY <1>1, NumberedAppend
<1>3. pending' \in Seq(Queued)
  BY <1>1, AppendProperties, SMTT(30)
<1>4. Numbered(pending', Taken, events')
  BY <1>2
<1>5. Taken' = Taken
  <2>1. Start(pending', events') = Taken
    BY <1>1, <1>3, <1>4, NumberedTaken
  <2> QED
    BY <2>1 DEF Taken, Start
<1>6. Numbered(pending, Taken, events)'
  BY <1>4, <1>5 DEF Numbered
<1>7. \A a \in Actors : InCallback(a)' <=> InCallback(a)
  BY DEF InCallback
<1> QED
  BY <1>5, <1>6, <1>7 DEF OrderInv

\* ProcessQueue takes the first callback.
LEMMA OrderTake ==
    ASSUME OrderInv, QueueInv, NEW a \in Actors, ProcessQueue(a), MayRun
    PROVE  /\ OrderInv' /\ Taken' = Taken + Stride(Head(pending))
           /\ \A b \in Actors : ~InCallback(b) /\ (InCallback(b)' => b = a)
           /\ callback'[a] = Head(pending) /\ Head(pending) \in Queued /\ pc'[a] = "call"
<1> DEFINE c == Head(pending)
<1>1. /\ pending \in Seq(Queued) /\ pending # <<>> /\ Taken \in Nat /\ events \in Nat
      /\ callback \in [Actors -> Queued \cup {None}] /\ ~running
      /\ Numbered(pending, Taken, events)
  BY DEF OrderInv, QueueInv, MayRun
<1>2. /\ pending' = Tail(pending) /\ callback' = [callback EXCEPT ![a] = c]
      /\ pc' = [pc EXCEPT ![a] = "call"] /\ events' = events
  BY DEF ProcessQueue, Goto, counters
<1>3. c \in Queued /\ Tail(pending) \in Seq(Queued)
  BY <1>1, HeadTailProperties
<1>4. c.n = Taken + Stride(c) /\ Numbered(Tail(pending), c.n, events)
  BY <1>1, NumberedTail
<1>5. c.n \in Nat
  BY <1>3, QueuedType
<1>6. \A b \in Actors : callback'[b] = IF b = a THEN c ELSE callback[b]
  BY <1>1, <1>2
<1>7. \A b \in Actors : ~InCallback(b) /\ (InCallback(b)' => b = a)
  BY <1>1, <1>6 DEF QueueInv, OneCallbackAtATime, InCallback
<1>8. pc'[a] = "call"
  BY <1>2 DEF QueueInv
<1> HIDE DEF c
<1>9. Taken' = c.n
  <2>1. Start(pending', events') = c.n
    BY <1>2, <1>3, <1>4, <1>5, NumberedTaken
  <2> QED
    BY <2>1 DEF Taken, Start
<1>10. Numbered(pending, Taken, events)'
  <2>1. Numbered(pending', c.n, events')
    BY <1>2, <1>4
  <2> QED
    BY <1>9, <2>1 DEF Numbered
<1>11. c.kind = "event" => Taken' > 0
  <2>1. c.kind = "event" => Stride(c) = 1
    BY DEF Stride
  <2> QED
    BY <1>1, <1>4, <1>9, <2>1, SMTT(30)
<1>12. OrderInv'
  BY <1>5, <1>6, <1>7, <1>9, <1>10, <1>11 DEF OrderInv
<1> QED
  BY <1>3, <1>4, <1>6, <1>7, <1>8, <1>9, <1>12 DEF c

-----------------------------------------------------------------------------
(* What the listeners have received.  The event in delivery has reached    *)
(* the entries before the one Iterate is at, and no other.                 *)

\* an event is in delivery on thread a
Active(a) ==
    InCallback(a) /\ (pc[a] = "iterate" \/ (pc[a] = "call" /\ callback[a].kind = "event"))

\* the event in delivery has not reached l
Waiting(l) == \E a \in Actors : Active(a) /\ (pc[a] = "iterate" => m_map[l] >= it[a])

\* s ascends, up to n
Rising(s, n) ==
    \A i \in 1..Len(s) : s[i] <= n /\ \A j \in 1..Len(s) : i < j => s[i] <= s[j]

GotInv ==
    /\ \A a \in Actors : Active(a) => callback[a].kind = "event"
    /\ delivered \in [Listeners -> Seq(Nat)]
    /\ \A l \in Listeners : Rising(delivered[l], Taken)
    /\ \A l \in Residents : /\ Len(delivered[l]) = IF Waiting(l) THEN Taken - 1 ELSE Taken
                            /\ \A i \in 1..Len(delivered[l]) : delivered[l][i] = i

\* A thread that a step does not move in its delivery.
Same(b) ==
    \/ callback'[b] = callback[b] /\ pc'[b] = pc[b] /\ it'[b] = it[b]
    \/ ~Active(b) /\ ~Active(b)'

\* A step outside the delivery of an event.
LEMMA GotFrame ==
    ASSUME GotInv, UNCHANGED delivered, Taken' = Taken, \A b \in Actors : Same(b),
           \A b \in Actors, l \in Residents : Active(b) => m_map'[l] = m_map[l]
    PROVE  GotInv'
<1>1. \A b \in Actors : Active(b)' <=> Active(b)
  BY DEF Same, Active, InCallback
<1>2. \A b \in Actors : Active(b) => callback'[b] = callback[b] /\ pc'[b] = pc[b] /\ it'[b] = it[b]
  BY DEF Same
<1>3. ASSUME NEW l \in Residents PROVE Waiting(l)' <=> Waiting(l)
  BY <1>1, <1>2 DEF Waiting
<1>4. \A l \in Listeners : Rising(delivered[l], Taken)'
  BY DEF GotInv, Rising
<1> QED
  BY <1>1, <1>2, <1>3, <1>4 DEF GotInv

\* The same with what it leaves of the queue.
LEMMA EventFrame ==
    ASSUME OrderInv, GotInv, UNCHANGED <<pending, events, delivered, m_map>>,
           \A a \in Actors : callback'[a] = callback[a] \/ callback'[a] = None,
           \A b \in Actors : Same(b)
    PROVE  OrderInv' /\ GotInv'
BY OrderFrame, GotFrame

\* One thread moves, and may wake others.
LEMMA SameMove ==
    ASSUME NEW a \in Actors, ~Active(a), ~Active(a)',
           \A b \in Actors \ {a} :
               /\ callback'[b] = callback[b] /\ it'[b] = it[b]
               /\ \/ pc'[b] = pc[b]
                  \/ pc[b] \in {"waiting", "timed"} /\ pc'[b] = "check"
    PROVE  \A b \in Actors : Same(b)
<1>1. ASSUME NEW b \in Actors, b # a PROVE Same(b)
  BY <1>1 DEF Same, Active
<1> QED
  BY <1>1 DEF Same

\* The same for a thread that goes to w.
LEMMA EventMove ==
    ASSUME OrderInv, GotInv, QueueInv, NEW a \in Actors, NEW w,
           UNCHANGED <<pending, events, delivered, m_map, it, callback>>,
           pc' = [pc EXCEPT ![a] = w], ~Active(a), w \notin {"call", "iterate"}
    PROVE  OrderInv' /\ GotInv'
<1>1. \A b \in Actors : pc'[b] = IF b = a THEN w ELSE pc[b]
  BY DEF QueueInv
<1>2. ~Active(a)'
  BY <1>1 DEF Active
<1>3. \A b \in Actors : Same(b)
  BY <1>1, <1>2, SameMove
<1> QED
  BY <1>3, EventFrame

\* The same with notify_one.
LEMMA EventWake ==
    ASSUME OrderInv, GotInv, QueueInv, NEW a \in Actors, NEW w \in Places,
           UNCHANGED <<pending, events, delivered, m_map, it, callback>>,
           pc' \in WakeOne([pc EXCEPT ![a] = w]), ~Active(a), w \notin {"call", "iterate"}
    PROVE  OrderInv' /\ GotInv'
<1> DEFINE p == [pc EXCEPT ![a] = w]
<1>0. p \in [Actors -> Places]
  BY DEF QueueInv
<1>1. \A b \in Actors : pc'[b] = p[b] \/ (p[b] \in {"waiting", "timed"} /\ pc'[b] = "check")
  BY <1>0, WakeOneMoves
<1>2. \A b \in Actors : p[b] = IF b = a THEN w ELSE pc[b]
  BY DEF QueueInv
<1> HIDE DEF p
<1>3. ~Active(a)'
  BY <1>1, <1>2 DEF Active
<1>4. \A b \in Actors : Same(b)
  BY <1>1, <1>2, <1>3, SameMove
<1> QED
  BY <1>4, EventFrame

\* The steps of the scheduler and of its client.
LEMMA EventClient ==
    ASSUME OrderInv, GotInv, QueueInv, NEW a \in Actors,
           \/ MaybeScheduleProcessQueue(a) \/ Schedule(a) \/ (ProcessQueue(a) /\ ~MayRun)
           \/ Check(a) \/ Exit(a) \/ TakeTask(a) \/ SpuriousWakeup(a)
    PROVE  OrderInv' /\ GotInv'
<1>1. UNCHANGED <<pending, events, delivered, m_map, it, callback>>
  BY DEF MaybeScheduleProcessQueue, Schedule, ProcessQueue, Check, Exit, TakeTask,
         SpuriousWakeup, client, list, counters
<1>2. ~Active(a)
  BY DEF MaybeScheduleProcessQueue, Schedule, ProcessQueue, Check, Exit, TakeTask,
         SpuriousWakeup, Active
<1>3. After(a) \in Places /\ After(a) \notin {"call", "iterate"}
  BY AfterPlaces DEF Places
<1>4. CASE Schedule(a)
  BY <1>1, <1>2, <1>3, <1>4, EventWake DEF Schedule
<1>5. CASE Exit(a)
  <2>1. "exit" \in Places
    BY DEF Places
  <2> QED
    BY <1>1, <1>2, <1>5, <2>1, EventWake DEF Exit
<1>6. CASE \/ MaybeScheduleProcessQueue(a) \/ (ProcessQueue(a) /\ ~MayRun)
           \/ Check(a) \/ TakeTask(a) \/ SpuriousWakeup(a)
  <2>1. \E w \in {After(a), "schedule", "waiting", "timed", "process", "check"} :
            pc' = [pc EXCEPT ![a] = w]
    BY <1>6 DEF MaybeScheduleProcessQueue, ProcessQueue, Check, TakeTask, SpuriousWakeup, Goto
  <2> QED
    BY <1>1, <1>2, <1>3, <2>1, EventMove
<1> QED
  BY <1>4, <1>5, <1>6

\* The callback has returned.
LEMMA EventFinish ==
    ASSUME OrderInv, GotInv, QueueInv, NEW a \in Actors, Finish(a)
    PROVE  OrderInv' /\ GotInv'
<1>1. /\ UNCHANGED <<pending, events, delivered, m_map, it>> /\ pc[a] = "finish"
      /\ callback' = [callback EXCEPT ![a] = None] /\ pc' = [pc EXCEPT ![a] = "maybe"]
  BY DEF Finish, AfterCallback, Goto, list, counters
<1>2. \A b \in Actors : /\ callback'[b] = IF b = a THEN None ELSE callback[b]
                        /\ pc'[b] = IF b = a THEN "maybe" ELSE pc[b]
  BY <1>1 DEF QueueInv
<1>3. ~Active(a) /\ ~Active(a)'
  <2>1. pc[a] = "finish" /\ pc'[a] = "maybe"
    BY <1>1, <1>2
  <2> QED
    BY <2>1 DEF Active
<1>4. \A b \in Actors \ {a} :
          callback'[b] = callback[b] /\ it'[b] = it[b] /\ pc'[b] = pc[b]
  BY <1>1, <1>2, SMTT(30)
<1>5. \A b \in Actors : Same(b)
  BY <1>3, <1>4, SameMove
<1> QED
  BY <1>1, <1>2, <1>5, EventFrame

\* One more event rises above the others.
LEMMA RisingHigher ==
    ASSUME NEW s \in Seq(Nat), NEW m \in Nat, NEW n \in Nat, m <= n, Rising(s, m)
    PROVE  Rising(s, n)
<1>1. \A i \in 1..Len(s) : s[i] \in Nat
  BY ElementOfSeq
<1>2. \A i \in 1..Len(s) : s[i] <= n
  <2>1. \A i \in 1..Len(s) : s[i] <= m
    BY DEF Rising
  <2> QED
    BY <1>1, <2>1, SMTT(30)
<1> QED
  BY <1>2 DEF Rising

\* An event is delivered behind the earlier ones.
LEMMA RisingAppend ==
    ASSUME NEW s \in Seq(Nat), NEW n \in Nat, Rising(s, n)
    PROVE  Rising(Append(s, n), n)
<1> DEFINE t == Append(s, n)
<1>1. /\ Len(s) \in Nat /\ Len(t) = Len(s) + 1
      /\ \A i \in 1..Len(s) : t[i] = s[i]
      /\ t[Len(s) + 1] = n
  BY LenProperties, AppendProperties, SMTT(30)
<1>2. \A i \in 1..Len(s) : s[i] <= n /\ \A j \in 1..Len(s) : i < j => s[i] <= s[j]
  BY DEF Rising
<1> HIDE DEF t
<1>3. ASSUME NEW i \in 1..Len(t)
      PROVE  t[i] <= n /\ \A j \in 1..Len(t) : i < j => t[i] <= t[j]
  BY <1>1, <1>2, SMTT(30)
<1> QED
  BY <1>3 DEF Rising, t

\* A callback is taken.  Nothing was in delivery, so every earlier event has arrived.
LEMMA EventTake ==
    ASSUME OrderInv, GotInv, QueueInv, NEW a \in Actors, ProcessQueue(a), MayRun
    PROVE  OrderInv' /\ GotInv'
<1> DEFINE c == Head(pending)
<1>1. /\ OrderInv' /\ Taken' = Taken + Stride(c)
      /\ \A b \in Actors : ~InCallback(b) /\ (InCallback(b)' => b = a)
      /\ callback'[a] = c /\ c \in Queued /\ pc'[a] = "call"
  BY OrderTake
<1>2. UNCHANGED delivered /\ Taken \in Nat /\ Taken' \in Nat
  BY <1>1 DEF ProcessQueue, OrderInv
<1> HIDE DEF c
<1>3. c # None /\ (c.kind # "event" => Stride(c) = 0) /\ (c.kind = "event" => Stride(c) = 1)
  BY <1>1, QueuedNotNone DEF Stride
<1>4. \A l \in Residents : ~Waiting(l)
  BY <1>1 DEF Waiting, Active
<1>5. \A b \in Actors : Active(b)' <=> (b = a /\ c.kind = "event")
  BY <1>1, <1>3 DEF Active, InCallback
<1>6. \A l \in Residents : Waiting(l)' <=> c.kind = "event"
  BY <1>1, <1>5 DEF Waiting
<1>7. \A l \in Listeners : Rising(delivered[l], Taken)'
  <2> SUFFICES ASSUME NEW l \in Listeners PROVE Rising(delivered[l], Taken)'
    OBVIOUS
  <2>1. Taken <= Taken' /\ delivered[l] \in Seq(Nat) /\ Rising(delivered[l], Taken)
    <3>1. Stride(c) \in Nat
      BY DEF Stride
    <3>2. Taken <= Taken'
      BY <1>1, <1>2, <3>1, SMTT(30)
    <3> QED
      BY <3>2 DEF GotInv
  <2>2. Rising(delivered[l], Taken')
    BY <1>2, <2>1, RisingHigher
  <2> QED
    BY <1>2, <2>2 DEF Rising
<1>8. ASSUME NEW l \in Residents
      PROVE  Len(delivered[l]) = IF Waiting(l)' THEN Taken' - 1 ELSE Taken'
  <2>1. Len(delivered[l]) = Taken
    BY <1>4 DEF GotInv
  <2>2. CASE c.kind = "event"
    <3>1. Taken' - 1 = Taken
      BY <1>1, <1>2, <1>3, <2>2, SMTT(30)
    <3> QED
      BY <1>6, <2>1, <2>2, <3>1
  <2>3. CASE c.kind # "event"
    <3>1. Taken' = Taken
      BY <1>1, <1>2, <1>3, <2>3, SMTT(30)
    <3> QED
      BY <1>6, <2>1, <2>3, <3>1
  <2> QED
    BY <2>2, <2>3
<1>9. GotInv'
  BY <1>1, <1>2, <1>5, <1>7, <1>8 DEF GotInv
<1> QED
  BY <1>1, <1>9

\* A queued callback is called: the first listener's turn, if it is an event.
LEMMA EventCall ==
    ASSUME OrderInv, GotInv, QueueInv, ListInv, PlaceInv, NEW a \in Actors, Call(a)
    PROVE  OrderInv' /\ GotInv'
<1>1. /\ pc[a] = "call" /\ InCallback(a)
      /\ UNCHANGED <<pending, events, delivered, m_map, callback>>
  BY DEF Call, client, counters, QueueInv
<1>2. CASE callback[a].kind = "promise"
  <2>1. UNCHANGED it /\ pc' = [pc EXCEPT ![a] = "finish"]
    BY <1>2 DEF Call, Goto
  <2>2. ~Active(a)
    BY <1>1, <1>2 DEF Active
  <2>3. "finish" \notin {"call", "iterate"}
    OBVIOUS
  <2> QED
    BY <1>1, <2>1, <2>2, <2>3, EventMove
<1>3. CASE callback[a].kind = "event"
  <2> DEFINE at == Visit(m_list, 1).at
             w == IF at = 0 THEN AfterIterate(a) ELSE "iterate"
  <2>1. it' = [it EXCEPT ![a] = at] /\ pc' = [pc EXCEPT ![a] = w]
    BY <1>3 DEF Call, BeginIterate, Goto
  <2>2. it \in [Actors -> Nat] /\ pc \in [Actors -> Places]
    BY DEF ListInv, Books, QueueInv
  <2> HIDE DEF at, w
  <2>3. \A b \in Actors : /\ it'[b] = IF b = a THEN at ELSE it[b]
                          /\ pc'[b] = IF b = a THEN w ELSE pc[b]
    BY <2>1, <2>2
  <2>4. \A b \in Actors : Active(b) => b = a
    BY <1>1 DEF Active, QueueInv, OneCallbackAtATime
  <2>5. Active(a) /\ (Active(a)' <=> w = "iterate")
    <3>1. w # "call"
      BY DEF w, AfterIterate
    <3> QED
      BY <1>1, <1>3, <2>3, <3>1 DEF Active, InCallback
  <2>6. \A b \in Actors : Active(b)' => b = a
    BY <1>1, <2>3, <2>4 DEF Active, InCallback
  <2>7. OrderInv' /\ Taken' = Taken
    BY <1>1, OrderFrame
  <2>8. ASSUME NEW l \in Residents PROVE Waiting(l) /\ Waiting(l)'
    <3>1. Waiting(l)
      BY <1>1, <2>5 DEF Waiting
    <3>2. pc[Main] # "exit"
      <4>1. a = Main \/ a \in Threads
        BY <1>1 DEF PlaceInv, Actors
      <4>2. a \in Threads => pc[Main] \notin FlushPlaces
        BY <1>1 DEF PlaceInv
      <4> QED
        BY <1>1, <4>1, <4>2 DEF FlushPlaces
    <3>3. l \in Listeners /\ m_map[l] # 0 /\ m_map[l] \in Nat
      BY <3>2, ValidationQueueAssumption DEF ListInv, Books
    <3>4. PICK i \in 1..Len(m_list) : m_list[i].id = m_map[l]
      BY <3>3 DEF ListInv, Books
    <3>5. /\ m_list \in Seq(Entry) /\ Len(m_list) \in Nat
          /\ \A j \in 1..Len(m_list) : m_list[j].id \in 1..entries
          /\ \A j, k \in 1..Len(m_list) : j < k => m_list[j].id < m_list[k].id
      BY LenProperties DEF ListInv, Books
    <3>6. 1 <= Len(m_list) /\ 1 \in 1..Len(m_list)
      BY <3>5, SMTT(30)
    <3>7. at = m_list[1].id
      BY <3>6 DEF at, Visit
    <3>8. at \in Nat /\ at # 0 /\ m_map[l] >= at
      <4>1. m_list[1].id \in 1..entries /\ m_list[i].id \in 1..entries
        BY <3>5, <3>6
      <4>2. i # 1 => m_list[1].id < m_list[i].id
        <5>1. i # 1 => 1 < i
          BY <3>5, SMTT(30)
        <5> QED
          BY <3>5, <3>6, <5>1
      <4>3. entries \in Nat
        BY DEF ListInv
      <4> QED
        BY <3>4, <3>7, <4>1, <4>2, <4>3, SMTT(30)
    <3>9. w = "iterate"
      BY <3>8 DEF w
    <3>10. Active(a)' /\ m_map'[l] >= it'[a]
      BY <1>1, <2>3, <2>5, <3>8, <3>9
    <3> QED
      BY <3>1, <3>10 DEF Waiting
  <2>9. GotInv'
    <3>1. \A b \in Actors : Active(b)' => callback'[b].kind = "event"
      BY <1>1, <1>3, <2>6
    <3>2. \A l \in Listeners : Rising(delivered[l], Taken)'
      BY <1>1, <2>7 DEF GotInv, Rising
    <3> QED
      BY <1>1, <2>7, <2>8, <3>1, <3>2 DEF GotInv
  <2> QED
    BY <2>7, <2>9
<1> QED
  BY <1>2, <1>3 DEF Call

\* A listener's callback has returned.  Of the residents it has reached exactly the one whose
\* entry this is; the next entry is the next one's.
LEMMA EventContinue ==
    ASSUME OrderInv, GotInv, QueueInv, ListInv, NEW a \in Actors, ContinueIterate(a)
    PROVE  OrderInv' /\ GotInv'
<1> DEFINE i == Position(it[a])
           at == NextVisit(i).at
           w == IF at = 0 THEN AfterIterate(a) ELSE "iterate"
           who == m_list[i].who
<1>1. /\ pc[a] = "iterate" /\ UNCHANGED <<pending, events, m_map, callback>>
      /\ it' = [it EXCEPT ![a] = at] /\ pc' = [pc EXCEPT ![a] = w]
      /\ delivered' = IF callback[a] = None THEN delivered
                      ELSE [delivered EXCEPT ![who] = Append(@, callback[a].n)]
  BY DEF ContinueIterate, Goto, client, counters
<1>2. /\ Books(m_list, m_map, it, entries) /\ it[a] # 0 /\ pc \in [Actors -> Places]
      /\ it \in [Actors -> Nat] /\ m_list \in Seq(Entry) /\ entries \in Nat
  BY <1>1 DEF ListInv, Books, QueueInv
<1>3. i \in 1..Len(m_list) /\ m_list[i].id = it[a]
  <2>1. \E k \in 1..Len(m_list) : m_list[k].id = it[a]
    BY <1>2 DEF Books
  <2> QED
    BY <1>2, <2>1, PositionOf
<1> HIDE DEF i
<1>4. at = IF i < Len(m_list) THEN m_list[i + 1].id ELSE 0
  BY <1>2, <1>3, NextEntry
<1>5. who \in Listeners
  <2>1. m_list[i] \in Entry
    BY <1>2, <1>3, ElementOfSeq
  <2> QED
    BY <2>1 DEF Entry
<1> HIDE DEF at, w, who
<1>6. \A b \in Actors : /\ it'[b] = IF b = a THEN at ELSE it[b]
                        /\ pc'[b] = IF b = a THEN w ELSE pc[b]
  BY <1>1, <1>2
<1>7. OrderInv' /\ Taken' = Taken
  BY <1>1, OrderFrame
<1>8. CASE callback[a] = None
  <2>1. ~Active(a) /\ ~Active(a)'
    BY <1>1, <1>8 DEF Active, InCallback
  <2>2. \A b \in Actors \ {a} :
            callback'[b] = callback[b] /\ it'[b] = it[b] /\ pc'[b] = pc[b]
    BY <1>1, <1>6, SMTT(30)
  <2>3. \A b \in Actors : Same(b)
    BY <2>1, <2>2, SameMove
  <2>4. UNCHANGED <<delivered, m_map>>
    BY <1>1, <1>8
  <2> QED
    BY <1>7, <2>3, <2>4, GotFrame
<1>9. CASE callback[a] # None
  <2>1. InCallback(a) /\ Active(a) /\ callback[a].n = Taken /\ Taken \in Nat /\ Taken > 0
        /\ callback[a].kind = "event"
    <3>1. InCallback(a) /\ Active(a)
      BY <1>1, <1>9 DEF InCallback, Active
    <3> QED
      BY <3>1 DEF GotInv, OrderInv
  <2>2. \A b \in Actors : Active(b) \/ Active(b)' => b = a
    <3>1. \A b \in Actors : InCallback(b)' => InCallback(b)
      BY <1>1 DEF InCallback
    <3> QED
      BY <2>1, <3>1 DEF Active, QueueInv, OneCallbackAtATime
  <2>3. Active(a)' <=> at # 0
    <3>1. w # "call" /\ (w = "iterate" <=> at # 0)
      BY DEF w, AfterIterate
    <3>2. InCallback(a)'
      BY <1>1, <1>9 DEF InCallback
    <3> QED
      BY <1>6, <3>1, <3>2 DEF Active
  <2>4. delivered \in [Listeners -> Seq(Nat)] /\ delivered[who] \in Seq(Nat)
    BY <1>5 DEF GotInv
  <2>5. \A l \in Listeners :
            delivered'[l] = IF l = who THEN Append(delivered[l], Taken) ELSE delivered[l]
    BY <1>1, <1>9, <2>1, <2>4
  <2>6. delivered' \in [Listeners -> Seq(Nat)]
    <3>1. Append(delivered[who], Taken) \in Seq(Nat)
      BY <2>1, <2>4, AppendProperties, SMTT(30)
    <3>2. delivered' = [delivered EXCEPT ![who] = Append(@, Taken)]
      BY <1>1, <1>9, <2>1
    <3> QED
      BY <1>5, <2>4, <3>1, <3>2
  <2>7. \A l \in Listeners : Rising(delivered[l], Taken)'
    <3> SUFFICES ASSUME NEW l \in Listeners PROVE Rising(delivered[l], Taken)'
      OBVIOUS
    <3>1. Rising(delivered[l], Taken) /\ delivered[l] \in Seq(Nat)
      BY DEF GotInv
    <3>2. Rising(Append(delivered[l], Taken), Taken)
      BY <2>1, <3>1, RisingAppend
    <3>3. Rising(delivered'[l], Taken)
      BY <2>5, <3>1, <3>2
    <3> QED
      BY <1>7, <3>3 DEF Rising
  <2>8. ASSUME NEW l \in Residents
        PROVE  /\ Len(delivered'[l]) = IF Waiting(l)' THEN Taken - 1 ELSE Taken
               /\ \A k \in 1..Len(delivered'[l]) : delivered'[l][k] = k
    <3>0. l \in Listeners
      BY ValidationQueueAssumption
    <3> DEFINE m == m_map[l]
    <3>1. Waiting(l) <=> m >= it[a]
      BY <1>1, <2>1, <2>2 DEF Waiting
    <3>2. Waiting(l)' <=> at # 0 /\ m >= at
      <4>1. at # 0 => pc'[a] = "iterate" /\ it'[a] = at /\ m_map'[l] = m
        BY <1>1, <1>6 DEF w
      <4> QED
        BY <2>2, <2>3, <4>1 DEF Waiting
    <3>3. /\ Len(delivered[l]) = IF Waiting(l) THEN Taken - 1 ELSE Taken
          /\ \A k \in 1..Len(delivered[l]) : delivered[l][k] = k
      BY DEF GotInv
    <3>4. /\ m \in Nat /\ it[a] \in Nat /\ Len(m_list) \in Nat
          /\ \A k \in 1..Len(m_list) : m_list[k].id \in 1..entries
          /\ \A j, k \in 1..Len(m_list) : j < k => m_list[j].id < m_list[k].id
      BY <1>2, <3>0, LenProperties DEF Books
    <3>5. i < Len(m_list) => i + 1 \in 1..Len(m_list) /\ i < i + 1
      BY <1>3, <3>4, SMTT(30)
    <3>6. at # 0 => at \in Nat /\ it[a] < at
      <4>1. CASE i < Len(m_list)
        <5>1. at \in 1..entries /\ it[a] < at
          BY <1>3, <1>4, <3>4, <3>5, <4>1
        <5> QED
          BY <1>2, <5>1, SMTT(30)
      <4> QED
        BY <1>4, <4>1
    <3>7. l = who <=> m = it[a]
      <4>1. ASSUME l = who PROVE m = it[a]
        BY <1>2, <1>3, <4>1 DEF Books, who
      <4>2. ASSUME m = it[a] PROVE l = who
        <5>1. PICK k \in 1..Len(m_list) : m_list[k].id = m /\ m_list[k].who = l
          BY <1>2, <3>0, <4>2 DEF Books
        <5>2. k = i
          BY <1>2, <1>3, <4>2, <5>1, IdsDiffer
        <5> QED
          BY <5>1, <5>2 DEF who
      <4> QED
        BY <4>1, <4>2
    <3>8. CASE m < it[a]
      <4>1. ~(m >= it[a]) /\ ~(at # 0 /\ m >= at) /\ m # it[a]
        BY <3>4, <3>6, <3>8, SMTT(30)
      <4> QED
        BY <2>5, <3>0, <3>1, <3>2, <3>3, <3>7, <4>1
    <3>9. CASE m = it[a]
      <4>1. m >= it[a] /\ ~(at # 0 /\ m >= at)
        BY <3>4, <3>6, <3>9, SMTT(30)
      <4>2. Len(delivered[l]) = Taken - 1 /\ ~Waiting(l)'
        BY <3>1, <3>2, <3>3, <4>1
      <4>3. delivered'[l] = Append(delivered[l], Taken) /\ delivered[l] \in Seq(Nat)
        BY <2>4, <2>5, <3>0, <3>7, <3>9
      <4>4. /\ Len(Append(delivered[l], Taken)) = Len(delivered[l]) + 1
            /\ \A k \in 1..Len(delivered[l]) : Append(delivered[l], Taken)[k] = delivered[l][k]
            /\ Append(delivered[l], Taken)[Len(delivered[l]) + 1] = Taken
        BY <2>1, <4>3, AppendProperties, SMTT(30)
      <4>5. Len(delivered'[l]) = Taken
        BY <2>1, <4>2, <4>3, <4>4, SMTT(30)
      <4>6. ASSUME NEW k \in 1..Len(delivered'[l]) PROVE delivered'[l][k] = k
        <5>1. k \in 1..Len(delivered[l]) \/ (k = Taken /\ k = Len(delivered[l]) + 1)
          BY <2>1, <4>2, <4>5, <4>6, SMTT(30)
        <5> QED
          BY <3>3, <4>3, <4>4, <5>1
      <4> QED
        BY <4>2, <4>5, <4>6
    <3>10. CASE m > it[a]
      <4>1. m >= it[a] /\ m # it[a] /\ m # 0
        BY <3>4, <3>10, SMTT(30)
      <4>2. PICK k \in 1..Len(m_list) : m_list[k].id = m
        BY <1>2, <3>0, <4>1 DEF Books
      <4>3. i < k
        <5>1. k = i \/ k < i \/ i < k
          BY <1>3, <3>4, SMTT(30)
        <5>2. k < i => m < it[a]
          BY <1>3, <3>4, <4>2
        <5>3. ~(m < it[a])
          BY <3>4, <3>10, SMTT(30)
        <5> QED
          BY <1>3, <4>1, <4>2, <5>1, <5>2, <5>3
      <4>4. i < Len(m_list) /\ (k = i + 1 \/ i + 1 < k)
        BY <1>3, <3>4, <4>3, SMTT(30)
      <4>5. at = m_list[i + 1].id /\ (at = m \/ at < m) /\ at \in 1..entries
        BY <1>4, <3>4, <3>5, <4>2, <4>4
      <4>6. at # 0 /\ m >= at
        BY <1>2, <3>4, <4>5, SMTT(30)
      <4> QED
        BY <2>5, <3>0, <3>1, <3>2, <3>3, <3>7, <4>1, <4>6
    <3> QED
      BY <3>4, <3>8, <3>9, <3>10, SMTT(30)
  <2>9. GotInv'
    <3>1. \A b \in Actors : Active(b)' => callback'[b].kind = "event"
      BY <1>1, <2>1, <2>2
    <3> QED
      BY <1>7, <2>6, <2>7, <2>8, <3>1 DEF GotInv
  <2> QED
    BY <1>7, <2>9
<1> QED
  BY <1>8, <1>9

\* A callback is queued.
LEMMA EventAdd ==
    ASSUME OrderInv, GotInv, QueueInv, NEW a \in Actors, ~Active(a), NEW c \in Queued,
           c.n = events + Stride(c), AddToProcessQueue(a, c), events' = c.n,
           UNCHANGED <<it, delivered, m_map>>
    PROVE  OrderInv' /\ GotInv'
<1>1. /\ pending' = Append(pending, c) /\ pc' = [pc EXCEPT ![a] = "maybe"] /\ UNCHANGED callback
  BY DEF AddToProcessQueue, Goto
<1>2. OrderInv' /\ Taken' = Taken
  BY <1>1, OrderAdd
<1>3. \A b \in Actors : pc'[b] = IF b = a THEN "maybe" ELSE pc[b]
  BY <1>1 DEF QueueInv
<1>4. ~Active(a)'
  BY <1>3 DEF Active
<1>5. \A b \in Actors : Same(b)
  BY <1>1, <1>3, <1>4, SameMove
<1> QED
  BY <1>2, <1>5, GotFrame

\* The producers.
LEMMA EventProducer ==
    ASSUME OrderInv, GotInv, QueueInv, PlaceInv, ListInv, NEW p \in Producers,
           \/ QueueEvent(p) \/ SignalNow(p)
           \/ SyncWithValidationInterfaceQueue(p) \/ SyncReturn(p)
    PROVE  OrderInv' /\ GotInv'
<1>0. p \in Actors /\ events \in Nat /\ ~InCallback(p) /\ ~Active(p)
  BY DEF Actors, QueueInv, PlaceInv, Active
<1>1. CASE QueueEvent(p)
  <2> DEFINE c == Event(events + 1)
  <2>1. c \in Queued /\ c.n = events + 1 /\ c.kind = "event"
    <3>1. events + 1 \in Nat
      BY <1>0, SMTT(30)
    <3> QED
      BY <3>1, QueuedType
  <2>2. c.n = events + Stride(c)
    BY <2>1 DEF Stride
  <2>3. AddToProcessQueue(p, c) /\ events' = c.n /\ UNCHANGED <<it, delivered, m_map>>
    BY <1>1, <2>1 DEF QueueEvent, list
  <2> HIDE DEF c
  <2> QED
    BY <1>0, <2>1, <2>2, <2>3, EventAdd
<1>2. CASE SyncWithValidationInterfaceQueue(p)
  <2> DEFINE c == Promise(p, events)
  <2>1. c \in Queued /\ c.n = events /\ c.kind = "promise"
    BY <1>0, QueuedType
  <2>2. c.n = events + Stride(c)
    <3>1. Stride(c) = 0
      BY <2>1 DEF Stride
    <3> QED
      BY <1>0, <2>1, <3>1, SMTT(30)
  <2>3. AddToProcessQueue(p, c) /\ events' = c.n /\ UNCHANGED <<it, delivered, m_map>>
    BY <1>2, <2>1 DEF SyncWithValidationInterfaceQueue, list
  <2> HIDE DEF c
  <2> QED
    BY <1>0, <2>1, <2>2, <2>3, EventAdd
<1>3. CASE SyncReturn(p)
  <2>1. UNCHANGED <<pending, events, delivered, m_map, it, callback>>
        /\ pc' = [pc EXCEPT ![p] = "idle"]
    BY <1>3 DEF SyncReturn, client, list, counters, Goto
  <2>2. "idle" \notin {"call", "iterate"}
    OBVIOUS
  <2> QED
    BY <1>0, <2>1, <2>2, EventMove
<1>4. CASE SignalNow(p)
  <2>1. /\ UNCHANGED <<pending, events, delivered, m_map, callback>>
        /\ \E x : it' = [it EXCEPT ![p] = x]
        /\ \E x : pc' = [pc EXCEPT ![p] = x]
    BY <1>4 DEF SignalNow, BeginIterate, Goto, client
  <2>2. it \in [Actors -> Nat] /\ pc \in [Actors -> Places]
    BY DEF ListInv, Books, QueueInv
  <2>3. \A b \in Actors \ {p} :
            callback'[b] = callback[b] /\ it'[b] = it[b] /\ pc'[b] = pc[b]
    BY <2>1, <2>2, SMTT(30)
  <2>4. ~Active(p)'
    BY <1>0, <2>1 DEF Active, InCallback
  <2>5. \A b \in Actors : Same(b)
    BY <1>0, <2>3, <2>4, SameMove
  <2> QED
    BY <2>1, <2>5, EventFrame
<1> QED
  BY <1>1, <1>2, <1>3, <1>4

\* The listeners that come and go are no residents.
LEMMA EventRegister ==
    ASSUME OrderInv, GotInv, ListInv, NEW l \in Listeners \ Residents, Register(l) \/ Unregister(l)
    PROVE  OrderInv' /\ GotInv'
<1>1. /\ UNCHANGED <<pending, events, delivered, callback, pc, it>>
      /\ \E x : m_map' = [m_map EXCEPT ![l] = x]
  BY DEF Register, Unregister, client, counters
<1>2. m_map \in [Listeners -> Nat]
  BY DEF ListInv, Books
<1>3. \A k \in Residents : m_map'[k] = m_map[k]
  BY <1>1, <1>2, ValidationQueueAssumption, SMTT(30)
<1>4. \A b \in Actors : Same(b)
  BY <1>1 DEF Same
<1>5. OrderInv' /\ Taken' = Taken
  BY <1>1, OrderFrame
<1> QED
  BY <1>1, <1>3, <1>4, <1>5, GotFrame

\* Shutdown.
LEMMA EventShutdown ==
    ASSUME OrderInv, GotInv, QueueInv, PlaceInv, Stop \/ JoinAll \/ EmptyQueue \/ ForceFlushAgain \/ Clear
    PROVE  OrderInv' /\ GotInv'
<1>0. Main \in Actors /\ events \in Nat /\ pc[Main] \notin {"call", "iterate"} /\ ~Active(Main)
  BY DEF Actors, QueueInv, Stop, JoinAll, EmptyQueue, ForceFlushAgain, Clear, Active
<1>1. CASE Stop
  <2>1. UNCHANGED <<pending, events, delivered, m_map, it, callback>>
        /\ pc' = [a \in Actors |-> IF a = Main THEN "join"
                               ELSE IF pc[a] \in {"waiting", "timed"} THEN "check" ELSE pc[a]]
    BY <1>1 DEF Stop, client, list, counters
  <2>2. ~Active(Main)'
    BY <1>0, <2>1 DEF Active
  <2>3. \A b \in Actors \ {Main} :
               /\ callback'[b] = callback[b] /\ it'[b] = it[b]
               /\ \/ pc'[b] = pc[b]
                  \/ pc[b] \in {"waiting", "timed"} /\ pc'[b] = "check"
    BY <2>1
  <2>4. \A b \in Actors : Same(b)
    BY <1>0, <2>2, <2>3, SameMove
  <2> QED
    BY <2>1, <2>4, EventFrame
<1>2. CASE JoinAll
  <2> DEFINE c == Event(events + 1)
  <2>1. c \in Queued /\ c.n = events + 1 /\ c.kind = "event"
    <3>1. events + 1 \in Nat
      BY <1>0, SMTT(30)
    <3> QED
      BY <3>1, QueuedType
  <2>2. c.n = events + Stride(c)
    BY <2>1 DEF Stride
  <2>3. AddToProcessQueue(Main, c) /\ events' = c.n /\ UNCHANGED <<it, delivered, m_map>>
    BY <1>2, <2>1 DEF JoinAll, list
  <2> HIDE DEF c
  <2> QED
    BY <1>0, <2>1, <2>2, <2>3, EventAdd
<1>3. CASE EmptyQueue
  <2>1. UNCHANGED <<pending, events, delivered, m_map, it, callback>>
        /\ \E w \in {"process", "flushed"} : pc' = [pc EXCEPT ![Main] = w]
    BY <1>3 DEF EmptyQueue, client, list, counters, Goto
  <2>2. \A w \in {"process", "flushed"} : w \notin {"call", "iterate"}
    OBVIOUS
  <2> QED
    BY <1>0, <2>1, <2>2, EventMove
<1>4. CASE Clear
  <2>1. UNCHANGED <<pending, events, delivered, it, callback>> /\ pc[Main] = "dropped"
        /\ pc' = [pc EXCEPT ![Main] = "exit"]
    BY <1>4 DEF Clear, client, counters, Goto
  <2>2. \A b \in Actors : ~Active(b)
    <3>1. "dropped" \in FlushPlaces
      BY DEF FlushPlaces
    <3>2. \A b \in Actors : pc[b] \in {"exit", "idle", "dropped"}
      BY <2>1, <3>1 DEF PlaceInv, Actors
    <3> QED
      BY <3>2 DEF Active
  <2>3. \A b \in Actors : pc'[b] = IF b = Main THEN "exit" ELSE pc[b]
    BY <2>1 DEF QueueInv
  <2>4. \A b \in Actors : ~Active(b)'
    <3>1. \A b \in Actors : pc'[b] = "exit" \/ pc'[b] = pc[b]
      BY <2>3
    <3>2. UNCHANGED callback
      BY <2>1
    <3> QED
      BY <2>2, <3>1, <3>2 DEF Active, InCallback
  <2>5. \A b \in Actors : Same(b)
    BY <2>2, <2>4 DEF Same
  <2>6. OrderInv' /\ Taken' = Taken
    BY <2>1, OrderFrame
  <2> QED
    BY <2>1, <2>2, <2>5, <2>6, GotFrame
<1>5. CASE ForceFlushAgain
  <2> DEFINE c == Event(events + 1)
  <2>1. c \in Queued /\ c.n = events + 1 /\ c.kind = "event"
    <3>1. events + 1 \in Nat
      BY <1>0, SMTT(30)
    <3> QED
      BY <3>1, QueuedType
  <2>2. c.n = events + Stride(c)
    BY <2>1 DEF Stride
  <2>3. /\ pending' = Append(pending, c) /\ events' = c.n
        /\ UNCHANGED <<it, delivered, m_map, callback>> /\ pc' = [pc EXCEPT ![Main] = "dropped"]
    BY <1>5, <2>1 DEF ForceFlushAgain, list, Goto
  <2> HIDE DEF c
  <2>4. OrderInv' /\ Taken' = Taken
    BY <2>1, <2>2, <2>3, OrderAdd
  <2>5. \A b \in Actors : pc'[b] = IF b = Main THEN "dropped" ELSE pc[b]
    BY <2>3 DEF QueueInv
  <2>6. ~Active(Main)'
    BY <1>0, <2>5 DEF Active
  <2>7. \A b \in Actors : Same(b)
    BY <1>0, <2>3, <2>5, <2>6, SameMove
  <2> QED
    BY <2>3, <2>4, <2>7, GotFrame
<1> QED
  BY <1>1, <1>2, <1>3, <1>4, <1>5

\* Nothing has been queued and nothing received.
LEMMA EventInit == Init => OrderInv /\ GotInv
<1> SUFFICES ASSUME Init PROVE OrderInv /\ GotInv
  OBVIOUS
<1>1. /\ pending = <<>> /\ events = 0 /\ callback = [a \in Actors |-> None]
      /\ delivered = [l \in Listeners |-> <<>>]
  BY DEF Init
<1>2. Taken = 0
  BY <1>1 DEF Taken, Start
<1>3. \A a \in Actors : ~InCallback(a) /\ ~Active(a)
  BY <1>1 DEF InCallback, Active
<1>4. 0 \in Nat /\ Len(<<>>) = 0 /\ 1..0 = {}
  BY SMTT(30)
<1>5. OrderInv
  <2>1. Numbered(<<>>, 0, 0)
    BY <1>4, SMTT(30) DEF Numbered
  <2>2. Numbered(pending, Taken, events)
    BY <1>1, <1>2, <2>1
  <2> QED
    BY <1>2, <1>3, <1>4, <2>2 DEF OrderInv
<1>6. <<>> \in Seq(Nat) /\ Rising(<<>>, 0)
  BY <1>4, EmptySeq DEF Rising
<1>7. \A l \in Residents : ~Waiting(l)
  BY <1>3 DEF Waiting
<1>8. \A l \in Listeners : delivered[l] = <<>>
  BY <1>1
<1>9. delivered \in [Listeners -> Seq(Nat)]
  BY <1>1, <1>6
<1>10. \A l \in Listeners : Rising(delivered[l], Taken)
  BY <1>2, <1>6, <1>8
<1>11. ASSUME NEW l \in Residents
       PROVE  /\ Len(delivered[l]) = IF Waiting(l) THEN Taken - 1 ELSE Taken
              /\ \A i \in 1..Len(delivered[l]) : delivered[l][i] = i
  <2>1. delivered[l] = <<>>
    BY <1>8, ValidationQueueAssumption
  <2> QED
    BY <1>2, <1>4, <1>7, <2>1, SMTT(30)
<1>12. GotInv
  BY <1>3, <1>9, <1>10, <1>11 DEF GotInv
<1> QED
  BY <1>5, <1>12

\* Every step keeps the order of the events.
LEMMA EventNext ==
    OrderInv /\ GotInv /\ ListInv /\ PlaceInv /\ QueueInv /\ [Next]_vars => OrderInv' /\ GotInv'
<1> SUFFICES ASSUME OrderInv, GotInv, ListInv, PlaceInv, QueueInv, [Next]_vars
             PROVE  OrderInv' /\ GotInv'
  OBVIOUS
<1>1. ASSUME NEW a \in Actors, Step(a) PROVE OrderInv' /\ GotInv'
  BY <1>1, EventClient, EventTake, EventFinish, EventCall, EventContinue, EventProducer,
     EventShutdown DEF Step
<1>2. ASSUME NEW t \in Threads, SpuriousWakeup(t) PROVE OrderInv' /\ GotInv'
  BY <1>2, EventClient DEF Actors
<1>3. ASSUME NEW p \in Producers,
             QueueEvent(p) \/ SignalNow(p) \/ SyncWithValidationInterfaceQueue(p)
      PROVE  OrderInv' /\ GotInv'
  BY <1>3, EventProducer
<1>4. ASSUME NEW l \in Listeners \ Residents, Register(l) \/ Unregister(l)
      PROVE  OrderInv' /\ GotInv'
  BY <1>4, EventRegister
<1>5. CASE UNCHANGED vars
  <2>1. UNCHANGED <<pending, events, delivered, m_map, callback, pc, it>>
    BY <1>5 DEF vars, client, list, counters
  <2>2. \A b \in Actors : Same(b)
    BY <2>1 DEF Same
  <2> QED
    BY <2>1, <2>2, EventFrame
<1> QED
  BY <1>1, <1>2, <1>3, <1>4, <1>5, EventShutdown DEF Next, Done

\* What the invariant says of a listener.
LEMMA GotOrdered == GotInv => DeliveredInOrder
<1> SUFFICES ASSUME GotInv PROVE DeliveredInOrder
  OBVIOUS
<1>1. \A l \in Listeners : DOMAIN delivered[l] = 1..Len(delivered[l])
  <2>1. \A l \in Listeners : delivered[l] \in Seq(Nat)
    BY DEF GotInv
  <2> QED
    BY <2>1, LenProperties
<1>2. \A l \in Listeners : \A i, j \in 1..Len(delivered[l]) :
          i < j => delivered[l][i] <= delivered[l][j]
  BY DEF GotInv, Rising
<1>3. \A l \in Residents : \A i \in 1..Len(delivered[l]) : delivered[l][i] = i
  BY DEF GotInv
<1> QED
  BY <1>1, <1>2, <1>3 DEF DeliveredInOrder

\* A promise is taken when nothing is in delivery.
LEMMA GotSynced == GotInv /\ OrderInv /\ QueueInv => SyncMeansDelivered
<1> SUFFICES ASSUME GotInv, OrderInv, QueueInv,
                    NEW a \in Actors, InCallback(a), callback[a].kind = "promise",
                    NEW l \in Residents
             PROVE  Len(delivered[l]) >= callback[a].n
  BY DEF SyncMeansDelivered
<1>1. callback[a].n = Taken /\ Taken \in Nat
  BY DEF OrderInv
<1>2. \A b \in Actors : Active(b) => b = a
  BY DEF Active, QueueInv, OneCallbackAtATime
<1>3. ~Active(a)
  BY DEF GotInv
<1>4. ~Waiting(l)
  BY <1>2, <1>3 DEF Waiting
<1>5. Len(delivered[l]) = Taken
  BY <1>4 DEF GotInv
<1> QED
  BY <1>1, <1>5, SMTT(30)

-----------------------------------------------------------------------------
\* The event of Shutdown's second flush stays where it is.
DropInv == pc[Main] \in {"dropped", "exit"} => Taken = events - 1

\* Nobody but Main is left then.
LEMMA AllAtRest ==
    ASSUME PlaceInv, pc[Main] \in {"flushed", "dropped", "exit"}
    PROVE  \A a \in Actors : pc[a] \in {"exit", "idle", "flushed", "dropped"} /\ ~Active(a)
<1>1. pc[Main] \in FlushPlaces /\ pc[Main] # "up"
  BY DEF FlushPlaces
<1>2. \A a \in Actors : pc[a] \in {"exit", "idle", "flushed", "dropped"}
  BY <1>1 DEF PlaceInv, Actors
<1> QED
  BY <1>2 DEF Active

\* Main gets there by ForceFlushAgain and by nothing else.
LEMMA MainGetsThere ==
    ASSUME PlaceInv, QueueInv, [Next]_vars, ~ForceFlushAgain, pc'[Main] \in {"dropped", "exit"}
    PROVE  pc[Main] \in {"dropped", "exit"}
<1>0. /\ Main \in Actors /\ Threads \subseteq Actors /\ Producers \subseteq Actors
      /\ Main \notin Threads /\ Main \notin Producers /\ pc \in [Actors -> Places]
  BY ValidationQueueAssumption DEF Actors, QueueInv
<1>1. ASSUME NEW a \in Actors, NEW w, pc' = [pc EXCEPT ![a] = w],
             a = Main => w \notin {"dropped", "exit"} \/ pc[Main] = "dropped"
      PROVE  pc[Main] \in {"dropped", "exit"}
  BY <1>0, <1>1
<1>2. ASSUME NEW a \in Actors, NEW w \in Places, pc' \in WakeOne([pc EXCEPT ![a] = w]),
             a = Main => w \notin {"dropped", "exit"}
      PROVE  pc[Main] \in {"dropped", "exit"}
  <2> DEFINE p == [pc EXCEPT ![a] = w]
  <2>1. p \in [Actors -> Places] /\ p[Main] = (IF a = Main THEN w ELSE pc[Main])
    BY <1>0
  <2>2. pc'[Main] = p[Main] \/ pc'[Main] = "check"
    BY <1>0, <1>2, <2>1, WakeOneMoves
  <2> QED
    BY <1>2, <2>1, <2>2
<1>3. ASSUME NEW a \in Actors, MaybeScheduleProcessQueue(a) \/ ProcessQueue(a) \/ Finish(a)
      PROVE  pc[Main] \in {"dropped", "exit"}
  <2>1. \E w \in {"schedule", "call", "maybe", "check", "more", "idle", "blocked"} :
           pc' = [pc EXCEPT ![a] = w]
    BY <1>3, AfterPlaces DEF MaybeScheduleProcessQueue, ProcessQueue, Finish, AfterCallback, Goto
  <2> QED
    BY <1>1, <2>1
<1>4. ASSUME NEW a \in Actors, Call(a) \/ ContinueIterate(a)
      PROVE  pc[Main] \in {"dropped", "exit"}
  <2>1. \E w \in {"iterate", "idle", "finish"} : pc' = [pc EXCEPT ![a] = w]
    BY <1>4 DEF Call, ContinueIterate, BeginIterate, AfterIterate, Goto
  <2> QED
    BY <1>1, <2>1
<1>5. ASSUME NEW a \in Actors, Schedule(a)
      PROVE  pc[Main] \in {"dropped", "exit"}
  <2>1. After(a) \in Places /\ After(a) \notin {"dropped", "exit"}
    BY AfterPlaces DEF Places
  <2> QED
    BY <1>2, <1>5, <2>1 DEF Schedule
<1>6. ASSUME NEW t \in Threads, Check(t) \/ Exit(t) \/ TakeTask(t) \/ SpuriousWakeup(t)
      PROVE  pc[Main] \in {"dropped", "exit"}
  <2>1. CASE Exit(t)
    BY <1>0, <1>2, <2>1 DEF Exit, Places
  <2>2. CASE Check(t) \/ TakeTask(t) \/ SpuriousWakeup(t)
    <3>1. \E w : pc' = [pc EXCEPT ![t] = w]
      BY <2>2 DEF Check, TakeTask, SpuriousWakeup, Goto
    <3> QED
      BY <1>0, <1>1, <3>1
  <2> QED
    BY <1>6, <2>1, <2>2
<1>7. ASSUME NEW p \in Producers,
             \/ QueueEvent(p) \/ SignalNow(p)
             \/ SyncWithValidationInterfaceQueue(p) \/ SyncReturn(p)
      PROVE  pc[Main] \in {"dropped", "exit"}
  <2>1. \E w : pc' = [pc EXCEPT ![p] = w]
    BY <1>7 DEF QueueEvent, SignalNow, SyncWithValidationInterfaceQueue, SyncReturn,
                AddToProcessQueue, BeginIterate, Goto
  <2> QED
    BY <1>0, <1>1, <2>1
<1>8. CASE JoinAll \/ EmptyQueue \/ Clear
  <2>1. \E w \in {"maybe", "process", "flushed"} : pc' = [pc EXCEPT ![Main] = w] \/ pc[Main] = "dropped"
    BY <1>8 DEF JoinAll, EmptyQueue, Clear, AddToProcessQueue, Goto
  <2> QED
    BY <1>0, <1>1, <2>1
<1>9. CASE Stop
  BY <1>0, <1>9 DEF Stop
<1>10. CASE UNCHANGED pc
  BY <1>10
<1>11. ASSUME NEW l \in Listeners, Register(l) \/ Unregister(l)
       PROVE  UNCHANGED pc
  BY <1>11 DEF Register, Unregister
<1>12. ASSUME NEW a \in Actors, Step(a) PROVE pc[Main] \in {"dropped", "exit"}
  BY <1>3, <1>4, <1>5, <1>6, <1>7, <1>8, <1>12 DEF Step
<1> QED
  BY <1>6, <1>7, <1>9, <1>10, <1>11, <1>12 DEF Next, Done, vars

\* And once there, nothing is queued or taken.
LEMMA NothingTaken ==
    ASSUME PlaceInv, [Next]_vars, pc[Main] \in {"dropped", "exit"}
    PROVE  UNCHANGED <<pending, events>>
<1>1. \A a \in Actors : pc[a] \in {"exit", "idle", "dropped"}
  <2>1. Main \in Actors /\ pc[Main] # "flushed"
    BY DEF Actors
  <2>2. \A a \in Threads \cup Producers : pc[a] \in {"exit", "idle"}
    BY DEF PlaceInv, FlushPlaces
  <2> QED
    BY <2>1, <2>2 DEF Actors
<1>2. ASSUME NEW a \in Actors, Step(a) PROVE a = Main /\ Clear
  <2>1. pc[a] \in {"exit", "idle", "dropped"} /\ pc[Main] \in {"exit", "idle", "dropped"}
    BY <1>1 DEF Actors
  <2> QED
    BY <1>2, <2>1 DEF Step, MaybeScheduleProcessQueue, Schedule, ProcessQueue, Finish, Call,
       ContinueIterate, Check, Exit, TakeTask, SyncReturn, JoinAll, EmptyQueue, ForceFlushAgain
<1>3. Clear => UNCHANGED <<pending, events>>
  BY DEF Clear, client, counters
<1>4. ASSUME NEW t \in Threads PROVE ~SpuriousWakeup(t)
  BY <1>1 DEF SpuriousWakeup, Actors
<1>5. ASSUME NEW p \in Producers
      PROVE  ~(QueueEvent(p) \/ SignalNow(p) \/ SyncWithValidationInterfaceQueue(p))
  BY DEF QueueEvent, SignalNow, SyncWithValidationInterfaceQueue
<1>6. ASSUME NEW l \in Listeners, Register(l) \/ Unregister(l) PROVE UNCHANGED <<pending, events>>
  BY <1>6 DEF Register, Unregister, client, counters
<1>7. ~Stop
  BY DEF Stop
<1> QED
  BY <1>2, <1>3, <1>4, <1>5, <1>6, <1>7 DEF Next, Done, vars, client, counters

\* The last event is the one that is dropped.
LEMMA DropNext ==
    DropInv /\ OrderInv /\ PlaceInv /\ QueueInv /\ [Next]_vars => DropInv'
<1> SUFFICES ASSUME DropInv, OrderInv, PlaceInv, QueueInv, [Next]_vars,
                    pc'[Main] \in {"dropped", "exit"}
             PROVE  Taken' = events' - 1
  BY DEF DropInv
<1>1. CASE ForceFlushAgain
  <2> DEFINE c == Event(events + 1)
  <2>1. /\ pending = <<>> /\ pending' = Append(pending, c) /\ events' = events + 1
        /\ UNCHANGED callback
    BY <1>1 DEF ForceFlushAgain, PlaceInv
  <2>2. events \in Nat /\ events + 1 \in Nat
    <3>1. events \in Nat
      BY DEF QueueInv
    <3> QED
      BY <3>1, SMTT(30)
  <2>3. c \in Queued /\ c.n = events + 1 /\ c.kind = "event"
    BY <2>2, QueuedType
  <2>4. c.n = events + Stride(c)
    BY <2>3 DEF Stride
  <2> HIDE DEF c
  <2>5. Taken' = Taken /\ Taken = events
    <3>1. Taken' = Taken
      BY <2>1, <2>3, <2>4, OrderAdd
    <3> QED
      BY <2>1, <3>1 DEF Taken, Start
  <2> QED
    BY <2>1, <2>2, <2>5, SMTT(30)
<1>2. CASE ~ForceFlushAgain
  <2>1. pc[Main] \in {"dropped", "exit"}
    BY <1>2, MainGetsThere
  <2>2. UNCHANGED <<pending, events>>
    BY <2>1, NothingTaken
  <2> QED
    BY <2>1, <2>2 DEF DropInv, Taken, Start
<1> QED
  BY <1>1, <1>2

\* When Main has emptied the queue nobody is left to deliver anything.
LEMMA GotFlushed == GotInv /\ PlaceInv /\ DropInv => FlushedAtShutdown
<1> SUFFICES ASSUME GotInv, PlaceInv, DropInv, pc[Main] \in {"flushed", "dropped", "exit"}
             PROVE  FlushedAtShutdown
  BY DEF FlushedAtShutdown
<1>1. \A l \in Residents : Len(delivered[l]) = Taken
  <2>1. \A l \in Residents : ~Waiting(l)
    BY AllAtRest DEF Waiting
  <2> QED
    BY <2>1 DEF GotInv
<1>2. pc[Main] = "flushed" => pending = <<>> /\ Taken = events
  BY DEF PlaceInv, Taken, Start
<1> QED
  BY <1>1, <1>2 DEF FlushedAtShutdown, DropInv

\* For any listeners, threads and producers: every listener receives the events in the order
\* in which validation generated them, and one that stays registered receives each once
\* (ProcessQueue and MainSignalsInstance::Iterate).
THEOREM OrderSafe == Spec => []DeliveredInOrder
BY QueueInit, QueueNext, PlaceInit, PlaceNext, ListInit, ListNext, EventInit, EventNext,
   GotOrdered, PTL DEF Spec

\* SyncWithValidationInterfaceQueue returns only after every event queued before the call has
\* reached every listener that stays registered.
THEOREM SyncSafe == Spec => []SyncMeansDelivered
BY QueueInit, QueueNext, PlaceInit, PlaceNext, ListInit, ListNext, EventInit, EventNext,
   GotSynced, PTL DEF Spec

\* When FlushBackgroundCallbacks has returned, Shutdown has delivered every event queued so
\* far, the ChainStateFlushed of its first ForceFlushStateToDisk included; the one of the
\* second is the only one that is dropped.
THEOREM FlushSafe == Spec => []FlushedAtShutdown
<1>1. Init => DropInv
  BY ValidationQueueAssumption DEF Init, DropInv, Actors
<1> QED
  BY <1>1, QueueInit, QueueNext, PlaceInit, PlaceNext, ListInit, ListNext, EventInit, EventNext,
     DropNext, GotFlushed, PTL DEF Spec
=============================================================================
