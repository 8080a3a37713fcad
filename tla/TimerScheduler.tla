--------------------------- MODULE TimerScheduler ---------------------------
(***************************************************************************)
(* src/common/timer_scheduler.cpp: a deadline map served by one scheduler  *)
(* thread, a FIFO ready queue served by worker threads, one mutex.         *)
(*                                                                         *)
(* A step is one critical section of that mutex (or one move of a thread   *)
(* that holds nothing).  Both condition variables are modelled: a thread   *)
(* in a "wait" state moves only when notified, on its time-out, or         *)
(* spuriously, so a missing notification is visible.                       *)
(* Left out: names, wait-time statistics and the per-worker counters of    *)
(* the status report, and calls that throw or return false (they change    *)
(* nothing).                                                               *)
(***************************************************************************)
EXTENDS Integers, Sequences, FiniteSets

CONSTANTS
  Workers,     \* the worker threads
  MaxTimers,   \* bound: number of registrations
  Intervals,   \* the intervals callers use, in ticks
  MaxTime      \* bound: last value of the steady clock

ASSUME TimerAssumption ==
  /\ Workers # {} /\ IsFiniteSet(Workers)
  /\ MaxTimers \in Nat
  /\ MaxTime \in Nat
  /\ Intervals \subseteq Nat

VARIABLES
  now,         \* Clock::now()
  nextId,      \* state_->next_id
  timers,      \* ids in state_->timers
  deadlines,   \* state_->deadlines: pairs <<time, id>>
  ready,       \* state_->ready
  phase,       \* Timer.status.phase
  cancelled,   \* Timer.status.cancelled
  repeat,      \* Timer.repeat
  interval,    \* Timer.status.interval
  next,        \* Timer.next
  queuedAt,    \* Timer.status.queued_at
  completed,   \* Timer.status.completed
  sched,       \* where the scheduler thread is
  wakeAt,      \* the argument of its wait_until
  wpc,         \* where each worker is
  wtask,       \* Worker.task_id, NoTask when idle
  stopped,     \* state_->stopped
  shut         \* progress of shutdown()

timerVars == <<phase, cancelled, repeat, interval, next, queuedAt, completed>>
queueVars == <<timers, deadlines, ready>>
schedVars == <<sched, wakeAt>>
workerVars == <<wpc, wtask>>
vars == <<now, nextId, queueVars, timerVars, schedVars, workerVars,
          stopped, shut>>

Ids == 0 .. MaxTimers - 1
NoTask == -1
Elems(s) == {s[i] : i \in DOMAIN s}

\* deadlines.begin(): the map is ordered by time, then id.
IsEarliest(d) ==
  /\ d \in deadlines
  /\ \A e \in deadlines : d[1] < e[1] \/ (d[1] = e[1] /\ d[2] <= e[2])

Due == \E d \in deadlines : d[1] <= now

Asleep == {w \in Workers : wpc[w] = "waiting"}

-----------------------------------------------------------------------------
(* Faults for the mutants: each is a plausible slip in the helper it is    *)
(* named after, further down.                                              *)

WithoutNothing(s, x) == s
NotifyNobody == UNCHANGED schedVars
NotifyNoWorker == wpc' = wpc
NotifyOneWorker ==
  IF Asleep = {} THEN wpc' = wpc
  ELSE \E w \in Asleep : wpc' = [wpc EXCEPT ![w] = "check"]
MayQueueWhileRunning(id) == phase[id] # "queued"
RearmedOnlyIfQueued(id) == repeat[id] /\ phase[id] = "idle"
NextDueCatchUp(id) == next[id] + interval[id]
LastRunOneShot(id) == ~repeat[id]
TakeNoId == nextId' = nextId

-----------------------------------------------------------------------------
(* Helpers.                                                                *)

\* std::remove on the ready queue; a task is there at most once (AtMostOne).
Without(s, x) ==
  LET k == CHOOSE k \in DOMAIN s : s[k] = x
  IN  IF x \in Elems(s)
      THEN [j \in 1 .. Len(s) - 1 |-> IF j < k THEN s[j] ELSE s[j + 1]]
      ELSE s

\* timers_changed.notify_one() / notify_all(): one thread waits there, and
\* forgets the deadline it waited for.
NotifyScheduler ==
  IF sched \in {"waitEmpty", "waitUntil"}
  THEN sched' = "check" /\ wakeAt' = 0
  ELSE UNCHANGED schedVars

\* work_ready.notify_one(): wakes some waiting worker, if there is one.
NotifyWorker ==
  IF Asleep = {} THEN wpc' = wpc
  ELSE \E w \in Asleep : wpc' = [wpc EXCEPT ![w] = "check"]

\* work_ready.notify_all()
NotifyAllWorkers ==
  wpc' = [w \in Workers |-> IF wpc[w] = "waiting" THEN "check" ELSE wpc[w]]

\* A tick queues the task only when its last run is over.
MayQueue(id) == phase[id] = "idle"

\* Whether a served deadline is put back, and when it is due then.
Rearmed(id) == repeat[id]
NextDue(id) == now + interval[id]

\* Whether a finished run was the timer's last.
LastRun(id) == ~repeat[id] \/ cancelled[id]

TakeId == nextId' = nextId + 1

Init ==
  /\ now = 0
  /\ nextId = 0
  /\ timers = {} /\ deadlines = {} /\ ready = <<>>
  /\ phase = [i \in Ids |-> "idle"]
  /\ cancelled = [i \in Ids |-> FALSE]
  /\ repeat = [i \in Ids |-> FALSE]
  /\ interval = [i \in Ids |-> 0]
  /\ next = [i \in Ids |-> 0]
  /\ queuedAt = [i \in Ids |-> 0]
  /\ completed = [i \in Ids |-> 0]
  /\ sched = "check" /\ wakeAt = 0
  /\ wpc = [w \in Workers |-> "check"]
  /\ wtask = [w \in Workers |-> NoTask]
  /\ stopped = FALSE /\ shut = "none"

-----------------------------------------------------------------------------
(* Callers of the public interface, on any thread, callbacks included.     *)

\* registerTimer / registerRepeatingTimer
AddTask(rep, ivl) ==
  /\ nextId < MaxTimers
  /\ ~stopped
  /\ rep => ivl > 0
  /\ LET t == now + (IF rep THEN 0 ELSE ivl)
     IN  /\ next' = [next EXCEPT ![nextId] = t]
         /\ deadlines' = deadlines \cup {<<t, nextId>>}
  /\ repeat' = [repeat EXCEPT ![nextId] = rep]
  /\ interval' = [interval EXCEPT ![nextId] = ivl]
  /\ timers' = timers \cup {nextId}
  /\ TakeId
  /\ NotifyScheduler
  /\ UNCHANGED <<now, ready, phase, cancelled, queuedAt, completed,
                 workerVars, stopped, shut>>

\* cancelTimer: an already running callback completes normally.
CancelTimer(id) ==
  /\ id \in timers
  /\ ~cancelled[id]
  /\ cancelled' = [cancelled EXCEPT ![id] = TRUE]
  /\ deadlines' = deadlines \ {<<next[id], id>>}
  /\ ready' = Without(ready, id)
  /\ timers' = IF phase[id] = "running" THEN timers ELSE timers \ {id}
  /\ NotifyScheduler
  /\ UNCHANGED <<now, nextId, phase, repeat, interval, next, queuedAt,
                 completed, workerVars, stopped, shut>>

\* shutdown(), its critical section.  Later callers find nothing to do.
ShutdownClear ==
  /\ shut = "none"
  /\ stopped' = TRUE
  /\ deadlines' = {}
  /\ ready' = <<>>
  /\ timers' = {i \in timers : phase[i] = "running"}
  /\ cancelled' = [i \in Ids |->
                     cancelled[i] \/ (i \in timers /\ phase[i] = "running")]
  /\ shut' = "cleared"
  /\ UNCHANGED <<now, nextId, phase, repeat, interval, next, queuedAt,
                 completed, schedVars, workerVars>>

\* shutdown(), the two notify_all() after it.
ShutdownNotify ==
  /\ shut = "cleared"
  /\ NotifyScheduler
  /\ NotifyAllWorkers
  /\ shut' = "notified"
  /\ UNCHANGED <<now, nextId, queueVars, timerVars, wtask, stopped>>

\* shutdown(), after every join() returned.
ShutdownJoin ==
  /\ shut = "notified"
  /\ sched = "exited"
  /\ \A w \in Workers : wpc[w] = "exited"
  /\ shut' = "joined"
  /\ UNCHANGED <<now, nextId, queueVars, timerVars, schedVars, workerVars,
                 stopped>>

-----------------------------------------------------------------------------
(* schedulerLoop                                                           *)

\* while (!stopped) fails.
SchedExit ==
  /\ sched = "check"
  /\ stopped
  /\ sched' = "exited"
  /\ UNCHANGED <<now, nextId, queueVars, timerVars, wakeAt, workerVars,
                 stopped, shut>>

\* Nothing is due: wait for a deadline, or until the earliest one.
SchedSleep ==
  /\ sched = "check"
  /\ ~stopped
  /\ ~Due
  /\ \/ deadlines = {} /\ sched' = "waitEmpty" /\ UNCHANGED wakeAt
     \/ \E d \in deadlines : /\ IsEarliest(d)
                             /\ sched' = "waitUntil"
                             /\ wakeAt' = d[1]
  /\ UNCHANGED <<now, nextId, queueVars, timerVars, workerVars, stopped, shut>>

\* Take the earliest due deadline: queue the task, or skip this tick.
SchedFire ==
  /\ sched = "check"
  /\ ~stopped
  /\ \E d \in deadlines :
       /\ IsEarliest(d)
       /\ d[1] <= now
       /\ LET id == d[2]
          IN  /\ IF MayQueue(id)
                 THEN /\ phase' = [phase EXCEPT ![id] = "queued"]
                      /\ queuedAt' = [queuedAt EXCEPT ![id] = now]
                      /\ ready' = Append(ready, id)
                      /\ NotifyWorker
                 ELSE UNCHANGED <<phase, queuedAt, ready, wpc>>
              /\ IF Rearmed(id)
                 THEN /\ next' = [next EXCEPT ![id] = NextDue(id)]
                      /\ deadlines' = (deadlines \ {d}) \cup {<<NextDue(id), id>>}
                 ELSE /\ next' = next
                      /\ deadlines' = deadlines \ {d}
  /\ UNCHANGED <<now, nextId, timers, cancelled, repeat, interval, completed,
                 schedVars, wtask, stopped, shut>>

\* wait_until times out.
SchedTimeout ==
  /\ sched = "waitUntil"
  /\ wakeAt <= now
  /\ NotifyScheduler
  /\ UNCHANGED <<now, nextId, queueVars, timerVars, workerVars,
                 stopped, shut>>

-----------------------------------------------------------------------------
(* workerLoop                                                              *)

WorkerExit(w) ==
  /\ wpc[w] = "check"
  /\ stopped
  /\ wpc' = [wpc EXCEPT ![w] = "exited"]
  /\ UNCHANGED <<now, nextId, queueVars, timerVars, schedVars, wtask,
                 stopped, shut>>

WorkerSleep(w) ==
  /\ wpc[w] = "check"
  /\ ~stopped
  /\ ready = <<>>
  /\ wpc' = [wpc EXCEPT ![w] = "waiting"]
  /\ UNCHANGED <<now, nextId, queueVars, timerVars, schedVars, wtask,
                 stopped, shut>>

\* Pop the front of the ready queue; the callback then runs unlocked.
WorkerStart(w) ==
  /\ wpc[w] = "check"
  /\ ~stopped
  /\ ready # <<>>
  /\ ready' = Tail(ready)
  /\ phase' = [phase EXCEPT ![Head(ready)] = "running"]
  /\ wtask' = [wtask EXCEPT ![w] = Head(ready)]
  /\ wpc' = [wpc EXCEPT ![w] = "running"]
  /\ UNCHANGED <<now, nextId, timers, deadlines, cancelled, repeat, interval,
                 next, queuedAt, completed, schedVars, stopped, shut>>

\* The callback returned or threw (both are counted as completed).
WorkerFinish(w) ==
  /\ wpc[w] = "running"
  /\ LET id == wtask[w]
     IN  /\ phase' = [phase EXCEPT ![id] = "idle"]
         /\ completed' = [completed EXCEPT ![id] = @ + 1]
         /\ timers' = IF LastRun(id) THEN timers \ {id} ELSE timers
  /\ wtask' = [wtask EXCEPT ![w] = NoTask]
  /\ wpc' = [wpc EXCEPT ![w] = "check"]
  /\ UNCHANGED <<now, nextId, deadlines, ready, cancelled, repeat, interval,
                 next, queuedAt, schedVars, stopped, shut>>

-----------------------------------------------------------------------------
(* Environment: the clock, and wake-ups the C++ standard allows.           *)

Tick ==
  /\ now < MaxTime
  /\ now' = now + 1
  /\ UNCHANGED <<nextId, queueVars, timerVars, schedVars, workerVars,
                 stopped, shut>>

SpuriousWake ==
  /\ \/ /\ sched \in {"waitEmpty", "waitUntil"}
        /\ NotifyScheduler
        /\ UNCHANGED wpc
     \/ /\ \E w \in Asleep : wpc' = [wpc EXCEPT ![w] = "check"]
        /\ UNCHANGED schedVars
  /\ UNCHANGED <<now, nextId, queueVars, timerVars, wtask,
                 stopped, shut>>

Worker(w) == WorkerExit(w) \/ WorkerSleep(w) \/ WorkerStart(w) \/ WorkerFinish(w)
Scheduler == SchedExit \/ SchedSleep \/ SchedFire \/ SchedTimeout
Shutdown == ShutdownClear \/ ShutdownNotify \/ ShutdownJoin

Next ==
  \/ \E rep \in BOOLEAN, ivl \in Intervals : AddTask(rep, ivl)
  \/ \E id \in Ids : CancelTimer(id)
  \/ Shutdown
  \/ Scheduler
  \/ \E w \in Workers : Worker(w)
  \/ Tick
  \/ SpuriousWake

Spec == Init /\ [][Next]_vars

\* The threads are scheduled, the clock advances, callbacks return, and a
\* shutdown that has begun goes on.  Nobody has to call anything.
Fairness ==
  /\ WF_vars(Tick)
  /\ WF_vars(Scheduler)
  /\ \A w \in Workers : WF_vars(Worker(w))
  /\ WF_vars(ShutdownNotify \/ ShutdownJoin)

FairSpec == Spec /\ Fairness

-----------------------------------------------------------------------------
(* Properties                                                              *)

\* Types; the live timers are among the ids handed out so far.
TypeOK ==
  /\ now \in 0 .. MaxTime
  /\ nextId \in 0 .. MaxTimers
  /\ timers \subseteq 0 .. nextId - 1
  /\ deadlines \subseteq Nat \X Ids
  /\ ready \in Seq(Ids)
  /\ phase \in [Ids -> {"idle", "queued", "running"}]
  /\ cancelled \in [Ids -> BOOLEAN]
  /\ repeat \in [Ids -> BOOLEAN]
  /\ interval \in [Ids -> Nat]
  /\ next \in [Ids -> Nat]
  /\ queuedAt \in [Ids -> Nat]
  /\ completed \in [Ids -> Nat]
  /\ sched \in {"check", "waitEmpty", "waitUntil", "exited"}
  /\ wakeAt \in Nat
  /\ wpc \in [Workers -> {"check", "waiting", "running", "exited"}]
  /\ wtask \in [Workers -> Ids \cup {NoTask}]
  /\ stopped \in BOOLEAN
  /\ shut \in {"none", "cleared", "notified", "joined"}

\* "At most one queued or running callback per timer": a timer is once in the
\* ready queue, or on one worker, or in neither.
AtMostOne ==
  /\ \A i, j \in DOMAIN ready : ready[i] = ready[j] => i = j
  /\ \A v, w \in Workers :
       wpc[v] = "running" /\ wpc[w] = "running" /\ wtask[v] = wtask[w] => v = w
  /\ \A w \in Workers : wpc[w] = "running" => wtask[w] \notin Elems(ready)

\* cancelTimer() takes back everything not yet started: a cancelled timer has
\* no deadline left that could queue it and is not in the queue.
CancelledNeverQueued ==
  \A i \in Ids : cancelled[i] =>
    i \notin Elems(ready) /\ \A d \in deadlines : d[2] # i

\* No registered timer falls out of the machinery: until it is cancelled, it
\* has a deadline, is queued, or runs; a repeating one always has a deadline.
NoTimerLost ==
  \A i \in timers : ~cancelled[i] =>
    \/ \E d \in deadlines : d[2] = i
    \/ /\ ~repeat[i]
       /\ \/ i \in Elems(ready)
          \/ \E w \in Workers : wpc[w] = "running" /\ wtask[w] = i

\* No wake-up of a worker is lost: while a worker sleeps, every queued task
\* has another worker on its way to the queue.
NoIdleWorkerWithWork ==
  Asleep # {} =>
    Len(ready) <= Cardinality({w \in Workers : wpc[w] = "check"})

\* The scheduler thread never sleeps past the earliest deadline, whatever was
\* added while it slept.
NeverOversleeps ==
  /\ sched = "waitEmpty" => deadlines = {}
  /\ sched = "waitUntil" => \A d \in deadlines : wakeAt <= d[1]

\* When shutdown() returns no callback runs and no timer is left behind.
ShutdownLeavesNothing ==
  shut = "joined" =>
    /\ timers = {} /\ deadlines = {} /\ ready = <<>>
    /\ \A i \in Ids : phase[i] # "running"

\* "Missed ticks are skipped": two runs of a repeating timer are queued at
\* least an interval apart; a late scheduler does not catch up in a burst.
NoBurst ==
  [][\A i \in Ids :
       phase[i] = "idle" /\ phase'[i] = "queued" /\ completed[i] > 0
         => now >= queuedAt[i] + interval[i]]_vars

\* Every deadline that passes while its timer is idle makes the callback run,
\* unless the timer is cancelled or the scheduler shut down first.
DueRuns ==
  \A i \in Ids :
    (phase[i] = "idle" /\ \E d \in deadlines : d[1] <= now /\ d[2] = i)
      ~> (phase[i] = "running" \/ cancelled[i] \/ stopped)

\* A shutdown that has begun returns, wherever it found the threads.
ShutdownReturns == stopped ~> shut = "joined"
=============================================================================
