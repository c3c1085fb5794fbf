----------------------------- MODULE WorkQueue ------------------------------
(***************************************************************************)
(* How a thread that queues work wakes a thread that does it               *)
(* (DbConnProcessQ::IncrementQueuedWork, WaitForQueuedWork and             *)
(* StopQueuedWork, dbconn-processq.cpp).  An atomic counter is decremented *)
(* first without the lock and put back when it was not positive; only then *)
(* the thread takes the lock, tries again, and sleeps.  The notifier takes *)
(* the lock but notifies only when it finds the counter not positive.      *)
(***************************************************************************)
EXTENDS Integers, FiniteSets

CONSTANTS
    Workers,    \* threads in WaitForQueuedWork and ProcessQGetNextValidateObj
    Producers,  \* threads in ProcessQEnqueueValidate
    MaxRows,    \* bound: number of rows queued
    MaxErrors,  \* bound: number of database errors
    Stopped,    \* the counter after StopQueuedWork, INT_MAX / 2 in the code
    NoThread

ASSUME WorkQueueAssumption ==
    /\ NoThread \notin Workers \cup Producers /\ Workers \cap Producers = {}
    /\ MaxRows \in Nat /\ MaxErrors \in Nat /\ Stopped \in Nat
    /\ IsFiniteSet(Workers) /\ Workers # {} /\ IsFiniteSet(Producers)

VARIABLES
    pendingRows, \* number of pending rows in Process_Q
    work,       \* queued_work
    lock,       \* the thread holding work_queue_mutex, or NoThread
    timed,      \* timed_wake_scheduled
    workPc,     \* workPc[t]: where worker or producer t is
    queued,     \* number of rows queued so far
    errors,     \* number of database errors so far
    shutdown,   \* g_shutdown
    stopped     \* StopQueuedWork was called

workqVars == << pendingRows, work, lock, timed, workPc, queued, errors, shutdown, stopped >>

Threads == Workers \cup Producers

Goto(t, point) == workPc' = [workPc EXCEPT ![t] = point]

WorkqInit ==
    /\ pendingRows = 0 /\ work = 0
    /\ lock = NoThread /\ timed = FALSE
    /\ workPc = [t \in Threads |-> IF t \in Workers THEN "fast" ELSE "idle"]
    /\ queued = 0 /\ errors = 0
    /\ shutdown = FALSE /\ stopped = FALSE

-----------------------------------------------------------------------------
\* Threads asleep in wait or wait_for, and where a notified one goes on
Asleep == {w \in Workers : workPc[w] \in {"sleep", "timedsleep"}}

Woken(S) == [t \in Threads |->
    IF t \notin S THEN workPc[t] ELSE IF workPc[t] = "sleep" THEN "lock" ELSE "timedlock"]

\* Mutant: a notification is sent only when the counter was below zero
BuggyIncrementQueuedWork(t, next) ==
    /\ lock = NoThread
    /\ work' = work + 1
    /\ \E S \in SUBSET Asleep :
         /\ Cardinality(S) = IF work < 0 /\ Asleep # {} THEN 1 ELSE 0
         /\ workPc' = [Woken(S) EXCEPT ![t] = next]

(* IncrementQueuedWork(type, 1) under work_queue_mutex: notify_one when the  *)
(* counter was not positive.  (With the transient decrement of a worker in   *)
(* the fast path it may be lower than the work there is.)                    *)
IncrementQueuedWork(t, next) ==
    /\ lock = NoThread
    /\ work' = work + 1
    /\ \E S \in SUBSET Asleep :
         /\ Cardinality(S) = IF work <= 0 /\ Asleep # {} THEN 1 ELSE 0
         /\ workPc' = [Woken(S) EXCEPT ![t] = next]

\* ProcessQEnqueueValidate: the row is inserted, then the counter incremented
InsertRow(p) ==
    /\ workPc[p] = "idle" /\ queued < MaxRows
    /\ pendingRows' = pendingRows + 1 /\ queued' = queued + 1
    /\ Goto(p, "increment")
    /\ UNCHANGED << work, lock, timed, errors, shutdown, stopped >>

Increment(p) ==
    /\ workPc[p] = "increment"
    /\ IncrementQueuedWork(p, "idle")
    /\ UNCHANGED << pendingRows, lock, timed, queued, errors, shutdown, stopped >>

-----------------------------------------------------------------------------
\* queued_work.fetch_sub(1) > 0: claim the work, or go and put the one back
FetchSub(w, claimed, undo) ==
    /\ work' = work - 1
    /\ Goto(w, IF work > 0 THEN claimed ELSE undo)

\* WaitForQueuedWork without the lock
FastTry(w) ==
    /\ workPc[w] = "fast"
    /\ FetchSub(w, "claimed", "fastundo")
    /\ UNCHANGED << pendingRows, lock, timed, queued, errors, shutdown, stopped >>

\* Mutant: what the fast path took is not put back
BuggyFastUndo(w) ==
    /\ workPc[w] = "fastundo"
    /\ Goto(w, "lock")
    /\ UNCHANGED << pendingRows, work, lock, timed, queued, errors, shutdown, stopped >>

FastUndo(w) ==
    /\ workPc[w] = "fastundo"
    /\ work' = work + 1
    /\ Goto(w, "lock")
    /\ UNCHANGED << pendingRows, lock, timed, queued, errors, shutdown, stopped >>

\* work_queue_mutex is taken, on the first attempt or by a notified thread
Lock(w) ==
    /\ workPc[w] = "lock"
    /\ lock = NoThread
    /\ lock' = w
    /\ Goto(w, "try")
    /\ UNCHANGED << pendingRows, work, timed, queued, errors, shutdown, stopped >>

\* Mutant: the counter is not tried again under the lock
BuggyTry(w) ==
    /\ workPc[w] = "try"
    /\ Goto(w, IF shutdown THEN "free" ELSE "tryundo")
    /\ work' = IF shutdown THEN work ELSE work - 1
    /\ lock' = IF shutdown THEN NoThread ELSE w
    /\ UNCHANGED << pendingRows, timed, queued, errors, shutdown, stopped >>

\* The loop under the lock: leave on shutdown or with a claim
Try(w) ==
    /\ workPc[w] = "try"
    /\ IF shutdown THEN Goto(w, "free") /\ UNCHANGED work
       ELSE FetchSub(w, "claimed", "tryundo")
    /\ lock' = IF shutdown \/ work > 0 THEN NoThread ELSE w
    /\ UNCHANGED << pendingRows, timed, queued, errors, shutdown, stopped >>

(* Put the one back and sleep, which releases the lock: one thread at a time *)
(* with a timeout of two seconds, the others without.                        *)
Sleep(w) ==
    /\ workPc[w] = "tryundo"
    /\ work' = work + 1
    /\ lock' = NoThread
    /\ timed' = TRUE
    /\ Goto(w, IF timed THEN "sleep" ELSE "timedsleep")
    /\ UNCHANGED << pendingRows, queued, errors, shutdown, stopped >>

\* The timeout of wait_for; no property depends on it
Timeout(w) ==
    /\ workPc[w] = "timedsleep"
    /\ Goto(w, "timedlock")
    /\ UNCHANGED << pendingRows, work, lock, timed, queued, errors, shutdown, stopped >>

(* The thread of the timed wait returns in any case, "check for work now     *)
(* regardless of queued_work status", with a claim or without one.           *)
TimedWake(w) ==
    /\ workPc[w] = "timedlock"
    /\ lock = NoThread
    /\ timed' = FALSE
    /\ FetchSub(w, "claimed", "timedundo")
    /\ lock' = IF work > 0 THEN NoThread ELSE w
    /\ UNCHANGED << pendingRows, queued, errors, shutdown, stopped >>

TimedUndo(w) ==
    /\ workPc[w] = "timedundo"
    /\ work' = work + 1
    /\ lock' = NoThread
    /\ Goto(w, "free")
    /\ UNCHANGED << pendingRows, timed, queued, errors, shutdown, stopped >>

-----------------------------------------------------------------------------
(* ThreadProc after WaitForQueuedWork: end on shutdown, else take a pending  *)
(* row if there is one, and come back when it has been dealt with.           *)
WorkGetNextValidateObj(w) ==
    /\ workPc[w] \in {"claimed", "free"}
    /\ pendingRows' = IF shutdown \/ pendingRows = 0 THEN pendingRows ELSE pendingRows - 1
    /\ Goto(w, IF shutdown THEN "ended" ELSE "fast")
    /\ UNCHANGED << work, lock, timed, queued, errors, shutdown, stopped >>

\* A database error: IncrementQueuedWork on the way out, whether claimed or not
GetNextError(w) ==
    /\ workPc[w] \in {"claimed", "free"} /\ ~shutdown
    /\ errors < MaxErrors
    /\ errors' = errors + 1
    /\ Goto(w, "giveback")
    /\ UNCHANGED << pendingRows, work, lock, timed, queued, shutdown, stopped >>

GiveBack(w) ==
    /\ workPc[w] = "giveback"
    /\ IncrementQueuedWork(w, "fast")
    /\ UNCHANGED << pendingRows, lock, timed, queued, errors, shutdown, stopped >>

StartShutdown ==
    /\ ~shutdown
    /\ shutdown' = TRUE
    /\ UNCHANGED << pendingRows, work, lock, timed, workPc, queued, errors, stopped >>

\* Mutant: the lock is not taken
BuggyStopQueuedWork ==
    /\ shutdown
    /\ ~stopped
    /\ stopped' = TRUE
    /\ work' = Stopped
    /\ workPc' = Woken(Asleep)
    /\ UNCHANGED << pendingRows, lock, timed, queued, errors, shutdown >>

\* StopQueuedWork, called once after g_shutdown is set
StopQueuedWork ==
    /\ shutdown
    /\ ~stopped
    /\ stopped' = TRUE
    /\ lock = NoThread
    /\ work' = Stopped
    /\ workPc' = Woken(Asleep)
    /\ UNCHANGED << pendingRows, lock, timed, queued, errors, shutdown >>

WorkerStep(w) ==
    \/ FastTry(w) \/ FastUndo(w) \/ Lock(w) \/ Try(w) \/ Sleep(w)
    \/ TimedWake(w) \/ TimedUndo(w)
    \/ WorkGetNextValidateObj(w) \/ GetNextError(w) \/ GiveBack(w)

WorkqNext ==
    \/ \E p \in Producers : InsertRow(p) \/ Increment(p)
    \/ \E w \in Workers : WorkerStep(w) \/ Timeout(w)
    \/ StartShutdown \/ StopQueuedWork

WorkqSpec == WorkqInit /\ [][WorkqNext]_workqVars

(* Threads keep running and get the lock they wait for; the two seconds of   *)
(* the timed wait need never pass.                                           *)
WorkqFairSpec ==
    /\ WorkqSpec
    /\ \A w \in Workers : SF_workqVars(WorkerStep(w))
    /\ \A p \in Producers : SF_workqVars(Increment(p))
    /\ SF_workqVars(StopQueuedWork)

-----------------------------------------------------------------------------
\* Workers whose decrement is about to be taken back
Transient == {w \in Workers : workPc[w] \in {"fastundo", "tryundo", "timedundo"}}

(* Types: and queued_work is below zero only by the decrements that          *)
(* WaitForQueuedWork is about to put back.                                   *)
WorkqTypeOK ==
    /\ pendingRows \in Nat /\ work \in Int
    /\ lock \in Threads \cup {NoThread} /\ timed \in BOOLEAN
    /\ workPc \in [Threads -> {"idle", "increment", "fast", "fastundo", "lock", "try", "tryundo",
                           "sleep", "timedsleep", "timedlock", "timedundo", "claimed", "free",
                           "giveback", "ended"}]
    /\ queued \in 0 .. MaxRows /\ errors \in 0 .. MaxErrors /\ shutdown \in BOOLEAN
    /\ stopped \in BOOLEAN
    /\ work + Cardinality(Transient) >= 0

(* The counter never promises less than there is: pending rows are covered   *)
(* by the counter, by workers that have claimed or will put something back,  *)
(* or by producers that are about to increment.                              *)
RowsCovered ==
    ~shutdown =>
    pendingRows <= work + Cardinality(Transient)
            + Cardinality({t \in Threads : workPc[t] \in {"increment", "claimed", "giveback"}})

(* No lost wakeup: while the counter, with the transient decrements put      *)
(* back, is positive, not every worker is asleep and un-notified.  This does *)
(* not count on the two-second timeout.                                      *)
NoLostWakeup ==
    work + Cardinality(Transient) > 0 => Asleep # Workers

(* Every row is taken in the end, without the help of the timeout, unless    *)
(* the node shuts down.                                                      *)
RowsTaken == []<>(pendingRows = 0 \/ shutdown)

(* After StopQueuedWork every worker ends: nobody goes to sleep after the    *)
(* last notification.                                                        *)
WorkersEnd == []<>(shutdown => \A w \in Workers : workPc[w] = "ended")

(* The work counter of a process queue with its lock-free decrement forgets  *)
(* no row and loses no wakeup (WaitForQueuedWork, IncrementQueuedWork).      *)
WorkqInv == WorkqTypeOK /\ RowsCovered /\ NoLostWakeup

(* Every row is taken, and after StopQueuedWork every worker ends.           *)
WorkqLive == RowsTaken /\ WorkersEnd
=============================================================================
