----------------------------- MODULE CheckQueue -----------------------------
(***************************************************************************)
(* The queue of script checks (checkqueue.h).  A block's validation takes  *)
(* the CCheckQueueControl, adds checks in batches, and joins the workers   *)
(* until all are done; CCheckQueueControls follow one another, each with   *)
(* ControlMutex held.  An action is one critical section of the mutex, or  *)
(* the execution of a batch outside of it.                                 *)
(***************************************************************************)
EXTENDS Integers, Sequences, FiniteSets, SequencesExt

CONSTANTS
    Workers, Master,
    Checks,         \* the checks a validation may queue
    Bad,            \* those that fail
    nBatchSize,
    MaxAdd,         \* bound on the checks of one Add
    MaxControls     \* bound on the number of CCheckQueueControls

ASSUME CheckQueueAssumption ==
    /\ Master \notin Workers
    /\ Bad \subseteq Checks
    /\ nBatchSize \in Nat \ {0}

Threads == Workers \cup {Master}

VARIABLES
    queue, nIdle, nTotal, fAllOk, nTodo,
    pc,         \* where each thread is in Loop
    vChecks,    \* its batch, until nTodo is reduced by its size
    fOk,
    control,    \* "none", "adding", "waiting", or Wait's result
    added,      \* the checks given to this control's Add
    executed,   \* those that ran, for this control
    controls    \* CCheckQueueControls so far

vars == <<queue, nIdle, nTotal, fAllOk, nTodo, pc, vChecks, fOk, control, added,
          executed, controls>>

Init ==
    /\ queue = <<>> /\ nIdle = 0 /\ nTotal = 0 /\ fAllOk = TRUE /\ nTodo = 0
    /\ pc = [t \in Threads |-> IF t = Master THEN "out" ELSE "enter"]
    /\ vChecks = [t \in Threads |-> <<>>]
    /\ fOk = [t \in Threads |-> TRUE]
    /\ control = "none" /\ added = {} /\ executed = {} /\ controls = 0

-----------------------------------------------------------------------------
\* The first part of Loop's critical section, by how the thread came to it: a new
\* thread ("enter"), a finished batch ("done") or the condition variable ("woken").
TotalNow(t) == IF pc[t] = "enter" THEN nTotal + 1 ELSE nTotal
IdleNow(t) == IF pc[t] = "woken" THEN nIdle - 1 ELSE nIdle
TodoNow(t) == IF pc[t] = "done" THEN nTodo - Len(vChecks[t]) ELSE nTodo
AllOkNowLast(t) == IF pc[t] = "done" THEN fOk[t] ELSE fAllOk
AllOkNow(t) == IF pc[t] = "done" THEN fAllOk /\ fOk[t] ELSE fAllOk
LocksMutex(t) == pc[t] \in {"enter", "done", "woken"}

\* condMaster.notify_one, after the last element.
NotifiedNever(t, p) == p
Notified(t, p) ==
    IF pc[t] = "done" /\ TodoNow(t) = 0 /\ t # Master /\ pc[Master] = "waiting"
    THEN [p EXCEPT ![Master] = "woken"] ELSE p

\* How many elements to take.
nNow(t) ==
    LET share == Len(queue) \div (TotalNow(t) + IdleNow(t) + 1)
        most == IF nBatchSize < share THEN nBatchSize ELSE share
    IN  IF most > 1 THEN most ELSE 1

\* Loop: there is work; elements are taken from the back of the queue.
Take(t) ==
    /\ LocksMutex(t) /\ queue # <<>>
    /\ vChecks' = [vChecks EXCEPT ![t] = Reverse(SubSeq(queue, Len(queue) - nNow(t) + 1, Len(queue)))]
    /\ queue' = SubSeq(queue, 1, Len(queue) - nNow(t))
    /\ nTotal' = TotalNow(t) /\ nIdle' = IdleNow(t)
    /\ nTodo' = TodoNow(t) /\ fAllOk' = AllOkNow(t)
    /\ fOk' = [fOk EXCEPT ![t] = AllOkNow(t)]
    /\ pc' = Notified(t, [pc EXCEPT ![t] = "working"])
    /\ UNCHANGED <<control, added, executed, controls>>

\* Loop: there is none; wait.
Sleep(t) ==
    /\ LocksMutex(t) /\ queue = <<>>
    /\ ~(t = Master /\ TodoNow(t) = 0)
    /\ nTotal' = TotalNow(t) /\ nIdle' = IdleNow(t) + 1
    /\ nTodo' = TodoNow(t) /\ fAllOk' = AllOkNow(t)
    /\ vChecks' = [vChecks EXCEPT ![t] = <<>>]
    /\ pc' = Notified(t, [pc EXCEPT ![t] = "waiting"])
    /\ UNCHANGED <<queue, fOk, control, added, executed, controls>>

\* Loop: the master returns the result.
MasterReturns ==
    /\ LocksMutex(Master) /\ queue = <<>> /\ TodoNow(Master) = 0
    /\ control' = IF AllOkNow(Master) THEN "valid" ELSE "invalid"
    /\ nTotal' = TotalNow(Master) - 1 /\ nIdle' = IdleNow(Master)
    /\ nTodo' = 0
    /\ fAllOk' = TRUE
    /\ vChecks' = [vChecks EXCEPT ![Master] = <<>>]
    /\ pc' = [pc EXCEPT ![Master] = "out"]
    /\ UNCHANGED <<queue, fOk, added, executed, controls>>

\* Loop, outside of the mutex: checks run until one fails.
Execute(t) ==
    /\ pc[t] = "working"
    /\ LET batch == ToSet(vChecks[t])
           ran == {vChecks[t][i] : i \in {j \in DOMAIN vChecks[t] :
                        fOk[t] /\ \A k \in 1..(j - 1) : vChecks[t][k] \notin Bad}}
       IN  /\ executed' = executed \cup ran
           /\ fOk' = [fOk EXCEPT ![t] = @ /\ batch \cap Bad = {}]
    /\ pc' = [pc EXCEPT ![t] = "done"]
    /\ UNCHANGED <<queue, nIdle, nTotal, fAllOk, nTodo, vChecks, control, added, controls>>

\* boost::condition_variable may wake a thread for no reason.
SpuriousWakeup(t) ==
    /\ pc[t] = "waiting"
    /\ pc' = [pc EXCEPT ![t] = "woken"]
    /\ UNCHANGED <<queue, nIdle, nTotal, fAllOk, nTodo, vChecks, fOk, control, added,
                   executed, controls>>

-----------------------------------------------------------------------------
\* CCheckQueueControl takes ControlMutex.
NewControl ==
    /\ control = "none" /\ controls < MaxControls
    /\ control' = "adding" /\ controls' = controls + 1
    /\ UNCHANGED <<queue, nIdle, nTotal, fAllOk, nTodo, pc, vChecks, fOk, added, executed>>

\* The sleeping workers, and whom notify_one or notify_all wakes.
Sleeping == {w \in Workers : pc[w] = "waiting"}
WakeSets(n) ==
    IF n = 0 \/ Sleeping = {} THEN {{}}
    ELSE IF n = 1 THEN {{w} : w \in Sleeping} ELSE {Sleeping}

\* Add: the checks of one transaction.
Add(s) ==
    /\ control = "adding"
    /\ queue' = queue \o s
    /\ nTodo' = nTodo + Len(s)
    /\ added' = added \cup ToSet(s)
    /\ \E W \in WakeSets(Len(s)) :
          pc' = [t \in Threads |-> IF t \in W THEN "woken" ELSE pc[t]]
    /\ UNCHANGED <<nIdle, nTotal, fAllOk, vChecks, fOk, control, executed, controls>>

\* Wait, called by ConnectBlock or, when it returns early, by the destructor.
Wait ==
    /\ control = "adding"
    /\ control' = "waiting"
    /\ pc' = [pc EXCEPT ![Master] = "enter"]
    /\ UNCHANGED <<queue, nIdle, nTotal, fAllOk, nTodo, vChecks, fOk, added, executed,
                   controls>>

\* The destructor releases ControlMutex.
Release ==
    /\ control \in {"valid", "invalid"}
    /\ control' = "none" /\ added' = {} /\ executed' = {}
    /\ UNCHANGED <<queue, nIdle, nTotal, fAllOk, nTodo, pc, vChecks, fOk, controls>>

\* The lists of checks not yet added, each at most once.
Batches == {s \in SeqOf(Checks \ added, MaxAdd) : IsInjective(s)}

Loop(t) == Take(t) \/ Sleep(t) \/ Execute(t) \/ (t = Master /\ MasterReturns)

Next ==
    \/ \E t \in Threads : Loop(t) \/ SpuriousWakeup(t)
    \/ NewControl
    \/ \E s \in Batches : Add(s)
    \/ Wait
    \/ Release

\* Every thread that can run does in the end; spurious wakeups need not happen.
Spec == Init /\ [][Next]_vars /\ \A t \in Threads : WF_vars(Loop(t))

-----------------------------------------------------------------------------
\* Every variable has its type.
TypeOK ==
    /\ queue \in Seq(Checks)
    /\ nIdle \in 0..Cardinality(Threads) /\ nTotal \in 0..Cardinality(Threads)
    /\ nTodo \in 0..Cardinality(Checks)
    /\ fAllOk \in BOOLEAN /\ fOk \in [Threads -> BOOLEAN]
    /\ pc \in [Threads -> {"out", "enter", "waiting", "woken", "working", "done"}]
    /\ vChecks \in [Threads -> Seq(Checks)]
    /\ control \in {"none", "adding", "waiting", "valid", "invalid"}
    /\ added \subseteq Checks /\ executed \subseteq added
    /\ controls \in 0..MaxControls

\* Wait returns true exactly if every check added since the control was created
\* passes, and then every one of them has run; and "passed queue is supposed to be
\* unused": a new control finds nothing of the last one, no late batch of a worker either.
ResultCorrect ==
    /\ control = "valid" => added \cap Bad = {} /\ executed = added
    /\ control = "invalid" => added \cap Bad # {}
    /\ control = "none" => /\ queue = <<>> /\ nTodo = 0 /\ fAllOk
                           /\ \A t \in Threads : vChecks[t] = <<>>

\* The master is never left waiting: Wait returns.
WaitReturns == control = "waiting" ~> control \in {"valid", "invalid"}
=============================================================================
