------------------------ MODULE TimerSchedulerProofs ------------------------
(***************************************************************************)
(* Proofs about TimerScheduler, for any number of workers, timers and      *)
(* intervals.                                                              *)
(*                                                                         *)
(* The argument: a timer's phase says where it is - "queued" means it is   *)
(* in the ready queue, "running" that exactly one worker has it            *)
(* (PhaseTellsPlace) - and every deadline is the pending one of a live     *)
(* timer (DeadlinesLive).  A tick queues only idle timers, so a timer is   *)
(* never in two places.                                                    *)
(***************************************************************************)
EXTENDS TimerScheduler, SequenceTheorems, FiniteSetTheorems, TLAPS

Distinct(s) == \A i, j \in DOMAIN s : s[i] = s[j] => i = j

Runs(w, i) == wpc[w] = "running" /\ wtask[w] = i

\* The queue holds live queued timers, each once; a worker that runs has a
\* timer of its own; and no timer claims to be anywhere it is not.
PhaseTellsPlace ==
  /\ Distinct(ready)
  /\ \A i \in Elems(ready) : i \in timers /\ phase[i] = "queued" /\ ~cancelled[i]
  /\ \A w \in Workers :
       wpc[w] = "running" => wtask[w] \in timers /\ phase[wtask[w]] = "running"
  /\ \A v, w \in Workers :
       wpc[v] = "running" /\ wpc[w] = "running" /\ wtask[v] = wtask[w] => v = w
  /\ \A i \in Ids : phase[i] = "running" => \E w \in Workers : Runs(w, i)

\* A deadline is the pending one of a live timer that nobody cancelled; a
\* timer that fires once has none while it is queued or runs.
DeadlinesLive ==
  \A d \in deadlines :
    /\ d[2] \in timers
    /\ ~cancelled[d[2]]
    /\ next[d[2]] = d[1]
    /\ repeat[d[2]] \/ phase[d[2]] = "idle"

\* Ids not handed out yet belong to timers as the constructor leaves them.
FreshIds == \A i \in Ids : i >= nextId => phase[i] = "idle" /\ ~cancelled[i]

\* After the critical section of shutdown() only running callbacks are left,
\* and threads exit only after it.
ShutdownOrder ==
  /\ stopped <=> shut # "none"
  /\ stopped => /\ deadlines = {} /\ ready = <<>>
                /\ \A i \in timers : phase[i] = "running" /\ cancelled[i]
  /\ shut = "joined" => \A w \in Workers : wpc[w] = "exited"

IInv ==
  /\ TypeOK
  /\ PhaseTellsPlace
  /\ DeadlinesLive
  /\ FreshIds
  /\ NoTimerLost
  /\ NeverOversleeps
  /\ ShutdownOrder

-----------------------------------------------------------------------------
(* What the queue operations do to a queue without duplicates.             *)

\* std::remove takes the element out, and nothing else.
LEMMA WithoutRemoves ==
  ASSUME NEW S, NEW s \in Seq(S), NEW x, Distinct(s)
  PROVE  /\ Without(s, x) \in Seq(S)
         /\ Distinct(Without(s, x))
         /\ Elems(Without(s, x)) = Elems(s) \ {x}
<1>1. CASE x \notin Elems(s)
  BY <1>1 DEF Without
<1>2. CASE x \in Elems(s)
  <2> DEFINE n == Len(s)
             k == CHOOSE k \in DOMAIN s : s[k] = x
             t == [j \in 1 .. n - 1 |-> IF j < k THEN s[j] ELSE s[j + 1]]
  <2>1. k \in DOMAIN s /\ s[k] = x
    BY <1>2 DEF Elems
  <2>2. n \in Nat /\ DOMAIN s = 1 .. n /\ \A j \in 1 .. n : s[j] \in S
    BY LenProperties, ElementOfSeq
  <2>3. Without(s, x) = t
    BY <1>2 DEF Without
  <2>. HIDE DEF n, k
  <2>4. k \in 1 .. n /\ n - 1 \in Nat
    BY <2>1, <2>2
  <2>5. t \in [1 .. n - 1 -> S]
    BY <2>2, <2>4
  <2>6. t \in Seq(S)
    BY <2>4, <2>5, SeqDef, ZenonT(60)
  <2>7. \A i, j \in 1 .. n : s[i] = s[j] => i = j
    BY <2>2 DEF Distinct
  <2>8. \A j \in 1 .. n - 1 : t[j] = IF j < k THEN s[j] ELSE s[j + 1]
    OBVIOUS
  <2>9. DOMAIN t = 1 .. n - 1
    OBVIOUS
  <2>. HIDE DEF t
  <2>10. Distinct(t)
    BY <2>2, <2>4, <2>7, <2>8, <2>9 DEF Distinct
  <2>11. ASSUME NEW y \in Elems(t) PROVE y \in Elems(s) \ {x}
    BY <2>1, <2>2, <2>4, <2>7, <2>8, <2>9, SMTT(40) DEF Elems
  <2>12. ASSUME NEW y \in Elems(s), y # x PROVE y \in Elems(t)
    <3>1. PICK i \in 1 .. n : y = s[i]
      BY <2>2 DEF Elems
    <3>2. i # k
      BY <2>1, <2>12, <3>1
    <3>3. CASE i < k
      <4>1. i \in 1 .. n - 1 /\ t[i] = s[i]
        BY <2>2, <2>4, <2>8, <3>3
      <4>. QED  BY <2>9, <3>1, <4>1 DEF Elems
    <3>4. CASE i > k
      <4>1. i - 1 \in 1 .. n - 1 /\ t[i - 1] = s[i]
        <5>1. i - 1 \in 1 .. n - 1 /\ ~(i - 1 < k) /\ (i - 1) + 1 = i
          BY <2>2, <2>4, <3>4
        <5>. QED  BY <2>8, <5>1
      <4>. QED  BY <2>9, <3>1, <4>1 DEF Elems
    <3>. QED  BY <2>4, <3>2, <3>3, <3>4
  <2>. QED  BY <2>3, <2>6, <2>10, <2>11, <2>12
<1>. QED  BY <1>1, <1>2

\* push_back of an element that is not there keeps the queue free of
\* duplicates.
LEMMA AppendAdds ==
  ASSUME NEW S, NEW s \in Seq(S), NEW x \in S, Distinct(s), x \notin Elems(s)
  PROVE  /\ Append(s, x) \in Seq(S)
         /\ Distinct(Append(s, x))
         /\ Elems(Append(s, x)) = Elems(s) \cup {x}
<1> DEFINE n == Len(s)
           t == Append(s, x)
<1>1. n \in Nat /\ DOMAIN s = 1 .. n
  BY LenProperties
<1>2. /\ t \in Seq(S) /\ Len(t) = n + 1
      /\ \A i \in 1 .. n : t[i] = s[i]
      /\ t[n + 1] = x
  BY AppendProperties
<1>3. DOMAIN t = 1 .. n + 1
  BY <1>2, LenProperties
<1>. HIDE DEF n, t
<1>4. \A i \in 1 .. n : s[i] # x
  BY <1>1 DEF Elems
<1>5. Distinct(t)
  BY <1>1, <1>2, <1>3, <1>4 DEF Distinct
<1>6. Elems(t) = Elems(s) \cup {x}
  BY <1>1, <1>2, <1>3 DEF Elems
<1>. QED  BY <1>2, <1>5, <1>6 DEF t

\* pop_front takes the first element out.
LEMMA TailRemoves ==
  ASSUME NEW S, NEW s \in Seq(S), Distinct(s), s # <<>>
  PROVE  /\ Tail(s) \in Seq(S)
         /\ Head(s) \in Elems(s) /\ Head(s) \in S
         /\ Distinct(Tail(s))
         /\ Elems(Tail(s)) = Elems(s) \ {Head(s)}
<1> DEFINE n == Len(s)
           t == Tail(s)
<1>1. n \in Nat \ {0} /\ DOMAIN s = 1 .. n
  BY LenProperties, EmptySeq
<1>2. /\ t \in Seq(S) /\ Len(t) = n - 1 /\ Head(s) \in S
      /\ \A i \in 1 .. n - 1 : t[i] = s[i + 1]
  BY HeadTailProperties
<1>3. DOMAIN t = 1 .. n - 1
  BY <1>2, LenProperties
<1>4. Head(s) = s[1]
  BY <1>1
<1>. HIDE DEF n, t
<1>5. \A i, j \in 1 .. n : s[i] = s[j] => i = j
  BY <1>1 DEF Distinct
<1>6. Distinct(t)
  BY <1>1, <1>2, <1>3, <1>5 DEF Distinct
<1>7. ASSUME NEW y \in Elems(t) PROVE y \in Elems(s) \ {s[1]}
  BY <1>1, <1>2, <1>3, <1>5 DEF Elems
<1>8. ASSUME NEW y \in Elems(s), y # s[1] PROVE y \in Elems(t)
  <2>1. PICK i \in 1 .. n : y = s[i]
    BY <1>1 DEF Elems
  <2>2. i - 1 \in 1 .. n - 1 /\ t[i - 1] = s[i]
    BY <1>1, <1>2, <1>8, <2>1
  <2>. QED  BY <1>3, <2>1, <2>2 DEF Elems
<1>9. s[1] \in Elems(s)
  BY <1>1 DEF Elems
<1>. QED  BY <1>2, <1>4, <1>6, <1>7, <1>8, <1>9 DEF t

\* An empty queue has no elements.
LEMMA EmptyQueue == Distinct(<<>>) /\ Elems(<<>>) = {}
BY DEF Distinct, Elems

-----------------------------------------------------------------------------
(* One round of the scheduler's loop, for the deadline it serves.          *)

QueueTask(id) ==
  /\ phase' = [phase EXCEPT ![id] = "queued"]
  /\ queuedAt' = [queuedAt EXCEPT ![id] = now]
  /\ ready' = Append(ready, id)
  /\ NotifyWorker

FireOf(d) ==
  /\ \/ phase[d[2]] = "idle" /\ QueueTask(d[2])
     \/ phase[d[2]] # "idle" /\ UNCHANGED <<phase, queuedAt, ready, wpc>>
  /\ Rearmed(d[2]) =>
       /\ next' = [next EXCEPT ![d[2]] = NextDue(d[2])]
       /\ deadlines' = (deadlines \ {d}) \cup {<<NextDue(d[2]), d[2]>>}
  /\ ~Rearmed(d[2]) => next' = next /\ deadlines' = deadlines \ {d}

\* SchedFire in these terms.
LEMMA FireSteps == SchedFire => \E d \in deadlines : FireOf(d)
BY DEF SchedFire, FireOf, QueueTask, MayQueue

-----------------------------------------------------------------------------
(* Types.                                                                  *)

\* Live timers have ids in range.
LEMMA TimersAreIds == TypeOK => timers \subseteq Ids
BY TimerAssumption DEF TypeOK, Ids

\* Notifications keep the types of what they touch.
LEMMA NotifyTypes ==
  /\ TypeOK /\ NotifyScheduler =>
       /\ sched' \in {"check", "waitEmpty", "waitUntil", "exited"}
       /\ wakeAt' \in Nat
  /\ TypeOK /\ (NotifyWorker \/ NotifyAllWorkers) =>
       wpc' \in [Workers -> {"check", "waiting", "running", "exited"}]
<1>1. ASSUME TypeOK, NotifyScheduler
      PROVE  /\ sched' \in {"check", "waitEmpty", "waitUntil", "exited"}
             /\ wakeAt' \in Nat
  BY <1>1 DEF NotifyScheduler, schedVars, TypeOK
<1>2. ASSUME TypeOK, NotifyWorker
      PROVE  wpc' \in [Workers -> {"check", "waiting", "running", "exited"}]
  BY <1>2 DEF NotifyWorker, TypeOK
<1>3. ASSUME TypeOK, NotifyAllWorkers
      PROVE  wpc' \in [Workers -> {"check", "waiting", "running", "exited"}]
  BY <1>3 DEF NotifyAllWorkers, TypeOK
<1>. QED  BY <1>1, <1>2, <1>3

\* Every step of the scheduler, its workers and its callers keeps the types.
LEMMA TypeStep == IInv /\ [Next]_vars => TypeOK'
<1>. SUFFICES ASSUME TypeOK, PhaseTellsPlace, [Next]_vars
     PROVE  TypeOK'
  BY DEF IInv
<1>. USE TimerAssumption
<1>0. timers \subseteq Ids /\ Distinct(ready)
  BY TimersAreIds DEF PhaseTellsPlace
<1>1. ASSUME NEW rep \in BOOLEAN, NEW ivl \in Intervals, AddTask(rep, ivl)
      PROVE  TypeOK'
  <2>1. nextId \in Ids /\ nextId' \in 0 .. MaxTimers
    BY <1>1 DEF AddTask, TakeId, TypeOK, Ids
  <2>2. timers' \subseteq 0 .. nextId' - 1
    BY <1>1 DEF AddTask, TakeId, TypeOK, Ids
  <2>3. ivl \in Nat /\ now + ivl \in Nat /\ now + 0 \in Nat
    BY DEF TypeOK
  <2>4. next' \in [Ids -> Nat] /\ deadlines' \subseteq Nat \X Ids
    BY <1>1, <2>1, <2>3 DEF AddTask, TypeOK
  <2>5. /\ sched' \in {"check", "waitEmpty", "waitUntil", "exited"}
        /\ wakeAt' \in Nat
    BY <1>1 DEF AddTask, NotifyScheduler, schedVars, TypeOK
  <2>. QED  BY <1>1, <2>1, <2>2, <2>3, <2>4, <2>5
            DEF AddTask, TypeOK, workerVars
<1>2. ASSUME NEW id \in Ids, CancelTimer(id)
      PROVE  TypeOK'
  <2>1. ready' \in Seq(Ids)
    BY <1>0, <1>2, WithoutRemoves DEF CancelTimer, TypeOK
  <2>2. /\ sched' \in {"check", "waitEmpty", "waitUntil", "exited"}
        /\ wakeAt' \in Nat
    BY <1>2 DEF CancelTimer, NotifyScheduler, schedVars, TypeOK
  <2>. QED  BY <1>2, <2>1, <2>2 DEF CancelTimer, TypeOK, workerVars
<1>3. CASE ShutdownClear
  BY <1>3, EmptySeq DEF ShutdownClear, TypeOK, schedVars, workerVars
<1>4. CASE ShutdownNotify
  BY <1>4, NotifyTypes DEF ShutdownNotify, TypeOK, queueVars, timerVars
<1>14. CASE ShutdownJoin \/ SchedExit
  BY <1>14 DEF ShutdownJoin, SchedExit, TypeOK, queueVars, timerVars, schedVars,
               workerVars
<1>5. CASE SchedTimeout
  BY <1>5, NotifyTypes DEF SchedTimeout, TypeOK, queueVars, timerVars,
                           workerVars
<1>6. CASE SchedSleep
  BY <1>6 DEF SchedSleep, IsEarliest, TypeOK, queueVars, timerVars, workerVars
<1>7. CASE SchedFire
  <2>1. PICK d \in deadlines : FireOf(d)
    BY <1>7, FireSteps
  <2>2. d[2] \in Ids /\ now \in Nat /\ NextDue(d[2]) \in Nat
    BY DEF TypeOK, NextDue
  <2>3. /\ phase' \in [Ids -> {"idle", "queued", "running"}]
        /\ queuedAt' \in [Ids -> Nat]
    <3>1. CASE QueueTask(d[2])
      BY <2>2, <3>1 DEF QueueTask, TypeOK
    <3>2. CASE UNCHANGED <<phase, queuedAt, ready, wpc>>
      BY <3>2 DEF TypeOK
    <3>. QED  BY <2>1, <3>1, <3>2 DEF FireOf
  <2>4. next' \in [Ids -> Nat] /\ deadlines' \subseteq Nat \X Ids
    <3>1. CASE Rearmed(d[2])
      <4>1. /\ next' = [next EXCEPT ![d[2]] = NextDue(d[2])]
            /\ deadlines' = (deadlines \ {d}) \cup {<<NextDue(d[2]), d[2]>>}
        BY <2>1, <3>1 DEF FireOf
      <4>2. <<NextDue(d[2]), d[2]>> \in Nat \X Ids
        BY <2>2
      <4>. QED  BY <2>2, <4>1, <4>2 DEF TypeOK
    <3>2. CASE ~Rearmed(d[2])
      BY <2>1, <3>2 DEF FireOf, TypeOK
    <3>. QED  BY <3>1, <3>2
  <2>5. ready' \in Seq(Ids)
    <3>1. CASE ready' = Append(ready, d[2])
      BY <2>2, <3>1, AppendProperties DEF TypeOK
    <3>. QED  BY <2>1, <3>1 DEF FireOf, QueueTask, TypeOK
  <2>6. wpc' \in [Workers -> {"check", "waiting", "running", "exited"}]
    BY <2>1, NotifyTypes DEF FireOf, QueueTask, TypeOK
  <2>. QED  BY <1>7, <2>3, <2>4, <2>5, <2>6 DEF SchedFire, TypeOK, schedVars
<1>8. ASSUME NEW w \in Workers, WorkerExit(w) \/ WorkerSleep(w)
      PROVE  TypeOK'
  BY <1>8 DEF WorkerExit, WorkerSleep, TypeOK, queueVars, timerVars, schedVars
<1>9. ASSUME NEW w \in Workers, WorkerStart(w)
      PROVE  TypeOK'
  <2>1. ready' \in Seq(Ids) /\ Head(ready) \in Ids
    BY <1>9, HeadTailProperties DEF WorkerStart, TypeOK
  <2>. QED  BY <1>9, <2>1 DEF WorkerStart, TypeOK, schedVars
<1>10. ASSUME NEW w \in Workers, WorkerFinish(w)
       PROVE  TypeOK'
  <2>1. wtask[w] \in Ids
    BY <1>0, <1>10 DEF WorkerFinish, PhaseTellsPlace
  <2>2. completed' \in [Ids -> Nat]
    BY <1>10, <2>1 DEF WorkerFinish, TypeOK
  <2>. QED  BY <1>10, <2>1, <2>2 DEF WorkerFinish, TypeOK, schedVars
<1>11. CASE Tick
  BY <1>11 DEF Tick, TypeOK, queueVars, timerVars, schedVars, workerVars
<1>12. CASE SpuriousWake
  <2>1. /\ sched' \in {"check", "waitEmpty", "waitUntil", "exited"}
        /\ wakeAt' \in Nat
    BY <1>12, NotifyTypes DEF SpuriousWake, TypeOK, schedVars
  <2>2. wpc' \in [Workers -> {"check", "waiting", "running", "exited"}]
    BY <1>12 DEF SpuriousWake, TypeOK
  <2>. QED  BY <1>12, <2>1, <2>2 DEF SpuriousWake, TypeOK, queueVars, timerVars
<1>13. CASE UNCHANGED vars
  BY <1>13 DEF vars, TypeOK, queueVars, timerVars, schedVars, workerVars
<1>. QED  BY <1>1, <1>2, <1>3, <1>4, <1>5, <1>6, <1>7, <1>8, <1>9, <1>10,
             <1>11, <1>12, <1>13, <1>14 DEF Next, Shutdown, Scheduler, Worker

-----------------------------------------------------------------------------
(* Where a timer is.                                                       *)

\* Waking workers starts and ends no callback.
LEMMA NotifyKeepsRunning ==
  ASSUME TypeOK, NotifyWorker \/ NotifyAllWorkers \/ wpc' = wpc
  PROVE  \A w \in Workers : wpc'[w] = "running" <=> wpc[w] = "running"
BY DEF NotifyWorker, NotifyAllWorkers, Asleep, TypeOK

\* A step that starts and ends no callback, queues nothing and removes no
\* timer from the queue or from a worker leaves every timer where it is.
LEMMA PlaceUnchanged ==
  ASSUME PhaseTellsPlace, timers \subseteq Ids,
         UNCHANGED <<ready, phase, wtask>>,
         timers \subseteq timers',
         \A i \in Elems(ready) : cancelled'[i] = cancelled[i],
         \A w \in Workers : wpc'[w] = "running" <=> wpc[w] = "running"
  PROVE  PhaseTellsPlace'
BY DEF PhaseTellsPlace, Runs, Distinct, Elems

\* Phases tell where the timers are: queueing, starting, finishing and
\* cancelling keep the two in step.
LEMMA PlaceStep == IInv /\ [Next]_vars => PhaseTellsPlace'
<1>. SUFFICES ASSUME TypeOK, PhaseTellsPlace, DeadlinesLive, [Next]_vars
     PROVE  PhaseTellsPlace'
  BY DEF IInv
<1>0. /\ timers \subseteq Ids /\ Distinct(ready) /\ ready \in Seq(Ids)
      /\ Elems(ready) \subseteq timers
  BY TimersAreIds DEF PhaseTellsPlace, TypeOK
<1>1. ASSUME NEW rep \in BOOLEAN, NEW ivl \in Intervals, AddTask(rep, ivl)
      PROVE  PhaseTellsPlace'
  <2>1. timers \subseteq timers' /\ UNCHANGED <<ready, phase, wtask, wpc, cancelled>>
    BY <1>1 DEF AddTask, workerVars
  <2>. QED  BY <1>0, <2>1, PlaceUnchanged
<1>2. ASSUME NEW id \in Ids, CancelTimer(id)
      PROVE  PhaseTellsPlace'
  <2>1. /\ Distinct(ready') /\ Elems(ready') = Elems(ready) \ {id}
    BY <1>0, <1>2, WithoutRemoves DEF CancelTimer
  <2>2. /\ UNCHANGED <<phase, wpc, wtask>>
        /\ \A i \in Ids : i # id => cancelled'[i] = cancelled[i]
        /\ timers' = IF phase[id] = "running" THEN timers ELSE timers \ {id}
    BY <1>2 DEF CancelTimer, workerVars, TypeOK
  <2>3. \A i \in Elems(ready') :
          i \in timers' /\ phase'[i] = "queued" /\ ~cancelled'[i]
    BY <1>0, <2>1, <2>2 DEF PhaseTellsPlace
  <2>4. \A w \in Workers :
          wpc'[w] = "running" => wtask'[w] \in timers' /\ phase'[wtask'[w]] = "running"
    BY <2>2 DEF PhaseTellsPlace
  <2>. QED  BY <2>1, <2>2, <2>3, <2>4 DEF PhaseTellsPlace, Runs
<1>3. CASE ShutdownClear
  <2>1. /\ ready' = <<>> /\ UNCHANGED <<phase, wpc, wtask>>
        /\ timers' = {i \in timers : phase[i] = "running"}
    BY <1>3 DEF ShutdownClear, workerVars
  <2>2. Distinct(ready') /\ Elems(ready') = {}
    BY <2>1, EmptyQueue
  <2>. QED  BY <2>1, <2>2 DEF PhaseTellsPlace, Runs
<1>4. CASE ShutdownNotify
  <2>1. \A w \in Workers : wpc'[w] = "running" <=> wpc[w] = "running"
    BY <1>4, NotifyKeepsRunning DEF ShutdownNotify
  <2>. QED  BY <1>0, <1>4, <2>1, PlaceUnchanged
            DEF ShutdownNotify, queueVars, timerVars
<1>5. CASE ShutdownJoin \/ SchedExit \/ SchedSleep \/ SchedTimeout \/ Tick
  <2>1. UNCHANGED <<queueVars, timerVars, workerVars>>
    BY <1>5 DEF ShutdownJoin, SchedExit, SchedSleep, SchedTimeout, Tick
  <2>. QED  BY <1>0, <2>1, PlaceUnchanged DEF queueVars, timerVars, workerVars
<1>6. CASE SchedFire
  <2>1. PICK d \in deadlines : FireOf(d)
    BY <1>6, FireSteps
  <2>2. UNCHANGED <<timers, cancelled, wtask>>
    BY <1>6 DEF SchedFire
  <2>3. CASE phase[d[2]] # "idle" /\ UNCHANGED <<phase, queuedAt, ready, wpc>>
    BY <1>0, <2>2, <2>3, PlaceUnchanged
  <2>4. CASE phase[d[2]] = "idle" /\ QueueTask(d[2])
    <3> DEFINE id == d[2]
    <3>1. id \in timers /\ id \in Ids /\ ~cancelled[id]
      BY <1>0 DEF DeadlinesLive
    <3>2. id \notin Elems(ready)
      BY <2>4 DEF PhaseTellsPlace
    <3>3. Distinct(ready') /\ Elems(ready') = Elems(ready) \cup {id}
      BY <1>0, <2>4, <3>1, <3>2, AppendAdds DEF QueueTask
    <3>4. /\ phase'[id] = "queued"
          /\ \A i \in Ids : i # id => phase'[i] = phase[i]
      BY <2>4, <3>1 DEF QueueTask, TypeOK
    <3>5. \A w \in Workers : wpc'[w] = "running" <=> wpc[w] = "running"
      BY <2>4, NotifyKeepsRunning DEF QueueTask
    <3>. HIDE DEF id
    <3>6. \A w \in Workers : wpc[w] = "running" => wtask[w] # id
      BY <2>4 DEF PhaseTellsPlace, id
    <3>7. \A i \in Elems(ready') :
            i \in timers' /\ phase'[i] = "queued" /\ ~cancelled'[i]
      BY <1>0, <2>2, <3>1, <3>3, <3>4 DEF PhaseTellsPlace
    <3>8. \A w \in Workers : wpc'[w] = "running" =>
            wtask'[w] \in timers' /\ phase'[wtask'[w]] = "running"
      BY <1>0, <2>2, <3>4, <3>5, <3>6 DEF PhaseTellsPlace
    <3>9. \A i \in Ids :
            phase'[i] = "running" => \E w \in Workers : Runs(w, i)'
      BY <2>2, <3>4, <3>5 DEF PhaseTellsPlace, Runs
    <3>. QED  BY <2>2, <3>3, <3>5, <3>7, <3>8, <3>9 DEF PhaseTellsPlace
  <2>. QED  BY <2>1, <2>3, <2>4 DEF FireOf
<1>7. ASSUME NEW w \in Workers, WorkerExit(w) \/ WorkerSleep(w)
      PROVE  PhaseTellsPlace'
  <2>1. \A v \in Workers : wpc'[v] = "running" <=> wpc[v] = "running"
    BY <1>7 DEF WorkerExit, WorkerSleep, TypeOK
  <2>2. UNCHANGED <<ready, phase, wtask, timers, cancelled>>
    BY <1>7 DEF WorkerExit, WorkerSleep, queueVars, timerVars
  <2>. QED  BY <1>0, <2>1, <2>2, PlaceUnchanged
<1>8. ASSUME NEW w \in Workers, WorkerStart(w)
      PROVE  PhaseTellsPlace'
  <2> DEFINE id == Head(ready)
  <2>1. /\ id \in Elems(ready) /\ id \in Ids
        /\ Distinct(ready') /\ Elems(ready') = Elems(ready) \ {id}
    BY <1>0, <1>8, TailRemoves DEF WorkerStart
  <2>2. /\ UNCHANGED <<timers, cancelled>>
        /\ phase'[id] = "running"
        /\ \A i \in Ids : i # id => phase'[i] = phase[i]
        /\ wpc[w] = "check" /\ wpc'[w] = "running" /\ wtask'[w] = id
        /\ \A v \in Workers :
             v # w => wpc'[v] = wpc[v] /\ wtask'[v] = wtask[v]
    BY <1>8, <2>1 DEF WorkerStart, TypeOK
  <2>. HIDE DEF id
  <2>3. id \in timers /\ phase[id] = "queued"
    BY <2>1 DEF PhaseTellsPlace
  <2>4. \A v \in Workers : wpc[v] = "running" => wtask[v] # id
    BY <2>3 DEF PhaseTellsPlace
  <2>5. \A i \in Elems(ready') :
          i \in timers' /\ phase'[i] = "queued" /\ ~cancelled'[i]
    BY <1>0, <2>1, <2>2 DEF PhaseTellsPlace
  <2>6. \A v \in Workers : wpc'[v] = "running" =>
          wtask'[v] \in timers' /\ phase'[wtask'[v]] = "running"
    BY <1>0, <2>2, <2>3, <2>4 DEF PhaseTellsPlace
  <2>7. \A u, v \in Workers :
          wpc'[u] = "running" /\ wpc'[v] = "running" /\ wtask'[u] = wtask'[v]
            => u = v
    BY <2>2, <2>4 DEF PhaseTellsPlace
  <2>8. \A i \in Ids :
          phase'[i] = "running" => \E v \in Workers : Runs(v, i)'
    BY <2>2 DEF PhaseTellsPlace, Runs
  <2>. QED  BY <2>1, <2>5, <2>6, <2>7, <2>8 DEF PhaseTellsPlace
<1>9. ASSUME NEW w \in Workers, WorkerFinish(w)
      PROVE  PhaseTellsPlace'
  <2> DEFINE id == wtask[w]
  <2>1. wpc[w] = "running" /\ id \in timers /\ id \in Ids /\ phase[id] = "running"
    BY <1>0, <1>9 DEF WorkerFinish, PhaseTellsPlace
  <2>2. /\ UNCHANGED <<ready, cancelled>>
        /\ phase'[id] = "idle"
        /\ \A i \in Ids : i # id => phase'[i] = phase[i]
        /\ wpc'[w] = "check"
        /\ \A v \in Workers :
             v # w => wpc'[v] = wpc[v] /\ wtask'[v] = wtask[v]
        /\ timers \ {id} \subseteq timers'
    BY <1>9, <2>1 DEF WorkerFinish, TypeOK
  <2>. HIDE DEF id
  <2>3. id \notin Elems(ready)
    BY <2>1 DEF PhaseTellsPlace
  <2>4. \A v \in Workers : v # w /\ wpc[v] = "running" => wtask[v] # id
    BY <2>1 DEF PhaseTellsPlace, id
  <2>5. \A i \in Elems(ready) :
          i \in timers' /\ phase'[i] = "queued" /\ ~cancelled'[i]
    BY <1>0, <2>2, <2>3 DEF PhaseTellsPlace
  <2>6. \A v \in Workers : wpc'[v] = "running" =>
          wtask'[v] \in timers' /\ phase'[wtask'[v]] = "running"
    BY <1>0, <2>2, <2>4 DEF PhaseTellsPlace
  <2>7. \A u, v \in Workers :
          wpc'[u] = "running" /\ wpc'[v] = "running" /\ wtask'[u] = wtask'[v]
            => u = v
    BY <2>2 DEF PhaseTellsPlace
  <2>8. \A i \in Ids :
          phase'[i] = "running" => \E v \in Workers : Runs(v, i)'
    BY <2>2 DEF PhaseTellsPlace, Runs, id
  <2>9. Distinct(ready') /\ Elems(ready') = Elems(ready)
    BY <1>0, <2>2
  <2>. QED  BY <2>5, <2>6, <2>7, <2>8, <2>9 DEF PhaseTellsPlace
<1>10. CASE SpuriousWake
  <2>1. \A v \in Workers : wpc'[v] = "running" <=> wpc[v] = "running"
    BY <1>10 DEF SpuriousWake, Asleep, TypeOK
  <2>2. UNCHANGED <<ready, phase, wtask, timers, cancelled>>
    BY <1>10 DEF SpuriousWake, queueVars, timerVars
  <2>. QED  BY <1>0, <2>1, <2>2, PlaceUnchanged
<1>11. CASE UNCHANGED vars
  BY <1>0, <1>11, PlaceUnchanged DEF vars, queueVars, timerVars, workerVars
<1>. QED  BY <1>1, <1>2, <1>3, <1>4, <1>5, <1>6, <1>7, <1>8, <1>9, <1>10,
             <1>11 DEF Next, Shutdown, Scheduler, Worker

-----------------------------------------------------------------------------
(* Deadlines.                                                              *)

\* Each live deadline is the pending one of a timer nobody cancelled, and ids
\* not handed out are untouched.
LEMMA DeadlineStep == IInv /\ [Next]_vars => DeadlinesLive' /\ FreshIds'
<1>. SUFFICES ASSUME TypeOK, PhaseTellsPlace, DeadlinesLive, FreshIds,
                     [Next]_vars
     PROVE  DeadlinesLive' /\ FreshIds'
  BY DEF IInv
<1>. USE TimerAssumption
<1>a. timers \subseteq 0 .. nextId - 1 /\ nextId \in 0 .. MaxTimers
  BY DEF TypeOK
<1>b. deadlines \subseteq Nat \X Ids
  BY DEF TypeOK
<1>c. timers \subseteq Ids
  BY TimersAreIds
<1>d. nextId \in Nat /\ \A i \in timers : i < nextId
  BY <1>a
<1>e. \A d \in deadlines : d = <<d[1], d[2]>> /\ d[2] \in Ids
  BY <1>b
<1>f. \A i \in Ids : i \in Nat
  BY DEF Ids
<1>0. /\ timers \subseteq Ids /\ \A i \in timers : i < nextId
      /\ \A d \in deadlines : d = <<d[1], d[2]>> /\ d[2] \in Ids
      /\ \A i \in Ids : i \in Nat
      /\ nextId \in Nat
  BY <1>c, <1>d, <1>e, <1>f
<1>1. ASSUME NEW rep \in BOOLEAN, NEW ivl \in Intervals, AddTask(rep, ivl)
      PROVE  DeadlinesLive' /\ FreshIds'
  <2> DEFINE t == now + (IF rep THEN 0 ELSE ivl)
  <2>1. nextId \in Ids /\ nextId' = nextId + 1 /\ nextId \notin timers
    BY <1>0, <1>1 DEF AddTask, TakeId, TypeOK, Ids
  <2>2. /\ deadlines' = deadlines \cup {<<t, nextId>>}
        /\ timers' = timers \cup {nextId}
        /\ next' = [next EXCEPT ![nextId] = t]
        /\ repeat' = [repeat EXCEPT ![nextId] = rep]
        /\ UNCHANGED <<phase, cancelled>>
    BY <1>1 DEF AddTask
  <2>. HIDE DEF t
  <2>3. phase[nextId] = "idle" /\ ~cancelled[nextId]
    BY <1>0, <2>1 DEF FreshIds
  <2>4. FreshIds'
    BY <1>0, <2>1, <2>2 DEF FreshIds
  <2>5. /\ next'[nextId] = t
        /\ \A i \in Ids : i # nextId =>
             next'[i] = next[i] /\ repeat'[i] = repeat[i]
    BY <2>1, <2>2 DEF TypeOK
  <2>6. ASSUME NEW d \in deadlines'
        PROVE  /\ d[2] \in timers' /\ ~cancelled'[d[2]]
               /\ next'[d[2]] = d[1]
               /\ repeat'[d[2]] \/ phase'[d[2]] = "idle"
    <3>1. CASE d \in deadlines
      <4>1. d[2] \in timers /\ d[2] # nextId /\ d[2] \in Ids
        BY <1>0, <2>1, <3>1 DEF DeadlinesLive
      <4>. QED  BY <2>2, <2>5, <3>1, <4>1 DEF DeadlinesLive
    <3>2. CASE d = <<t, nextId>>
      BY <2>2, <2>3, <2>5, <3>2
    <3>. QED  BY <2>2, <3>1, <3>2
  <2>. QED  BY <2>4, <2>6 DEF DeadlinesLive
<1>2. ASSUME NEW id \in Ids, CancelTimer(id)
      PROVE  DeadlinesLive' /\ FreshIds'
  <2>1. /\ deadlines' = deadlines \ {<<next[id], id>>}
        /\ timers \ {id} \subseteq timers'
        /\ \A i \in Ids : i # id => cancelled'[i] = cancelled[i]
        /\ id \in timers
        /\ UNCHANGED <<nextId, phase, repeat, next>>
    BY <1>2 DEF CancelTimer, TypeOK
  <2>2. FreshIds'
    BY <1>0, <2>1 DEF FreshIds
  <2>3. \A d \in deadlines' : d \in deadlines /\ d[2] # id
    BY <1>0, <2>1 DEF DeadlinesLive
  <2>. QED  BY <1>0, <2>1, <2>2, <2>3 DEF DeadlinesLive
<1>3. CASE ShutdownClear
  <2>1. \A i \in Ids : i >= nextId => cancelled'[i] = cancelled[i]
    BY <1>0, <1>3 DEF ShutdownClear, TypeOK
  <2>. QED  BY <1>3, <2>1 DEF ShutdownClear, DeadlinesLive, FreshIds
<1>4. CASE SchedFire
  <2>1. PICK d \in deadlines : FireOf(d)
    BY <1>4, FireSteps
  <2> DEFINE id == d[2]
  <2>2. UNCHANGED <<nextId, timers, cancelled, repeat>>
    BY <1>4 DEF SchedFire
  <2>3. /\ id \in timers /\ id \in Ids /\ ~cancelled[id] /\ next[id] = d[1]
        /\ d = <<d[1], id>>
    BY <1>0 DEF DeadlinesLive
  <2>4. \A i \in Ids : i # id => phase'[i] = phase[i] /\ next'[i] = next[i]
    BY <2>1, <2>3 DEF FireOf, QueueTask, TypeOK
  <2>. HIDE DEF id
  <2>5. FreshIds'
    BY <1>0, <2>2, <2>3, <2>4 DEF FreshIds
  <2>6. \A e \in deadlines \ {d} : e[2] # id /\ e[2] \in Ids
    BY <1>0, <2>3 DEF DeadlinesLive
  <2>7. \A e \in deadlines \ {d} :
          /\ e[2] \in timers' /\ ~cancelled'[e[2]] /\ next'[e[2]] = e[1]
          /\ repeat'[e[2]] \/ phase'[e[2]] = "idle"
    BY <2>2, <2>4, <2>6 DEF DeadlinesLive
  <2>8. CASE ~Rearmed(id)
    BY <2>1, <2>5, <2>7, <2>8 DEF FireOf, DeadlinesLive, id
  <2>9. CASE Rearmed(id)
    <3>1. /\ deadlines' = (deadlines \ {d}) \cup {<<NextDue(id), id>>}
          /\ next' = [next EXCEPT ![id] = NextDue(id)]
      BY <2>1, <2>9 DEF FireOf, id
    <3>2. next'[id] = NextDue(id) /\ repeat'[id]
      BY <2>2, <2>3, <2>9, <3>1 DEF TypeOK, Rearmed
    <3>. QED  BY <2>2, <2>3, <2>5, <2>7, <3>1, <3>2 DEF DeadlinesLive
  <2>. QED  BY <2>8, <2>9
<1>5. ASSUME NEW w \in Workers, WorkerStart(w)
      PROVE  DeadlinesLive' /\ FreshIds'
  <2> DEFINE id == Head(ready)
  <2>1. id \in Elems(ready) /\ id \in Ids
    BY <1>5, TailRemoves DEF WorkerStart, PhaseTellsPlace, TypeOK
  <2>2. /\ UNCHANGED <<nextId, timers, deadlines, cancelled, repeat, next>>
        /\ \A i \in Ids : i # id => phase'[i] = phase[i]
    BY <1>5, <2>1 DEF WorkerStart, TypeOK
  <2>. HIDE DEF id
  <2>3. id \in timers /\ phase[id] = "queued"
    BY <2>1 DEF PhaseTellsPlace
  <2>4. FreshIds'
    BY <1>0, <2>2, <2>3 DEF FreshIds
  <2>5. \A d \in deadlines : d[2] = id => repeat[id]
    BY <2>3 DEF DeadlinesLive
  <2>. QED  BY <1>0, <2>2, <2>4, <2>5 DEF DeadlinesLive
<1>6. ASSUME NEW w \in Workers, WorkerFinish(w)
      PROVE  DeadlinesLive' /\ FreshIds'
  <2> DEFINE id == wtask[w]
  <2>1. id \in timers /\ id \in Ids /\ phase[id] = "running"
    BY <1>0, <1>6 DEF WorkerFinish, PhaseTellsPlace
  <2>2. /\ UNCHANGED <<nextId, deadlines, cancelled, repeat, next>>
        /\ timers' = IF LastRun(id) THEN timers \ {id} ELSE timers
        /\ phase'[id] = "idle"
        /\ \A i \in Ids : i # id => phase'[i] = phase[i]
    BY <1>6, <2>1 DEF WorkerFinish, TypeOK
  <2>. HIDE DEF id
  <2>3. FreshIds'
    BY <1>0, <2>1, <2>2 DEF FreshIds
  <2>4. \A d \in deadlines : d[2] = id => ~LastRun(id)
    BY <2>1 DEF DeadlinesLive, LastRun
  <2>. QED  BY <1>0, <2>2, <2>3, <2>4 DEF DeadlinesLive
<1>7. CASE ShutdownNotify \/ ShutdownJoin \/ SchedExit \/ SchedSleep
           \/ SchedTimeout \/ Tick \/ SpuriousWake
  <2>1. UNCHANGED <<nextId, queueVars, timerVars>>
    BY <1>7 DEF ShutdownNotify, ShutdownJoin, SchedExit, SchedSleep,
                SchedTimeout, Tick, SpuriousWake
  <2>. QED  BY <2>1 DEF DeadlinesLive, FreshIds, queueVars, timerVars
<1>8. ASSUME NEW w \in Workers, WorkerExit(w) \/ WorkerSleep(w)
      PROVE  DeadlinesLive' /\ FreshIds'
  BY <1>8 DEF WorkerExit, WorkerSleep, DeadlinesLive, FreshIds, queueVars,
              timerVars
<1>9. CASE UNCHANGED vars
  BY <1>9 DEF vars, DeadlinesLive, FreshIds, queueVars, timerVars
<1>. QED  BY <1>1, <1>2, <1>3, <1>4, <1>5, <1>6, <1>7, <1>8, <1>9
          DEF Next, Shutdown, Scheduler, Worker

-----------------------------------------------------------------------------
(* The scheduler thread's sleep, and shutdown.                             *)

\* Whoever adds a deadline or takes one away wakes the scheduler thread.
LEMMA SleepStep == IInv /\ [Next]_vars => NeverOversleeps'
<1>. SUFFICES ASSUME TypeOK, NeverOversleeps, [Next]_vars
     PROVE  NeverOversleeps'
  BY DEF IInv
<1>1. NotifyScheduler => sched' \in {"check", "exited"}
  BY DEF NotifyScheduler, schedVars, TypeOK
<1>2. ASSUME NEW rep \in BOOLEAN, NEW ivl \in Intervals, AddTask(rep, ivl)
      PROVE  NeverOversleeps'
  BY <1>1, <1>2 DEF AddTask, NeverOversleeps
<1>3. ASSUME NEW id \in Ids, CancelTimer(id)
      PROVE  NeverOversleeps'
  BY <1>1, <1>3 DEF CancelTimer, NeverOversleeps
<1>4. CASE ShutdownClear
  BY <1>4 DEF ShutdownClear, NeverOversleeps
<1>5. CASE ShutdownNotify \/ SchedTimeout
  BY <1>1, <1>5 DEF ShutdownNotify, SchedTimeout, NeverOversleeps
<1>6. CASE ShutdownJoin \/ SchedExit \/ SchedFire \/ Tick
  BY <1>6 DEF ShutdownJoin, SchedExit, SchedFire, Tick, NeverOversleeps,
              queueVars, schedVars
<1>7. CASE SchedSleep
  <2>1. CASE deadlines = {} /\ sched' = "waitEmpty"
    BY <1>7, <2>1 DEF SchedSleep, NeverOversleeps, queueVars
  <2>2. ASSUME NEW d \in deadlines, IsEarliest(d), sched' = "waitUntil",
               wakeAt' = d[1]
        PROVE  NeverOversleeps'
    <3>1. \A e \in deadlines : e[1] \in Nat
      BY DEF TypeOK
    <3>2. \A e \in deadlines : d[1] <= e[1]
      BY <2>2, <3>1 DEF IsEarliest
    <3>. QED  BY <1>7, <2>2, <3>2 DEF SchedSleep, NeverOversleeps, queueVars
  <2>. QED  BY <1>7, <2>1, <2>2 DEF SchedSleep
<1>8. ASSUME NEW w \in Workers, Worker(w)
      PROVE  NeverOversleeps'
  BY <1>8 DEF Worker, WorkerExit, WorkerSleep, WorkerStart, WorkerFinish,
              NeverOversleeps, queueVars, schedVars
<1>9. CASE SpuriousWake
  BY <1>1, <1>9 DEF SpuriousWake, NeverOversleeps, queueVars, schedVars
<1>10. CASE UNCHANGED vars
  BY <1>10 DEF vars, NeverOversleeps, queueVars, schedVars
<1>. QED  BY <1>2, <1>3, <1>4, <1>5, <1>6, <1>7, <1>8, <1>9, <1>10
          DEF Next, Shutdown, Scheduler

\* What the critical section of shutdown() cleared stays clear, and join()
\* waits for every worker.
LEMMA ShutdownStep == IInv /\ [Next]_vars => ShutdownOrder'
<1>. SUFFICES ASSUME TypeOK, PhaseTellsPlace, DeadlinesLive, ShutdownOrder,
                     [Next]_vars
     PROVE  ShutdownOrder'
  BY DEF IInv
<1>0. timers \subseteq Ids
  BY TimersAreIds
<1>1. ASSUME NEW rep \in BOOLEAN, NEW ivl \in Intervals, AddTask(rep, ivl)
      PROVE  ShutdownOrder'
  BY <1>1 DEF AddTask, ShutdownOrder, workerVars
<1>2. ASSUME NEW id \in Ids, CancelTimer(id)
      PROVE  ShutdownOrder'
  <2>1. CASE stopped
    BY <1>2, <2>1 DEF CancelTimer, ShutdownOrder
  <2>2. CASE ~stopped
    BY <1>2, <2>2 DEF CancelTimer, ShutdownOrder, workerVars
  <2>. QED  BY <2>1, <2>2
<1>3. CASE ShutdownClear
  <2>1. \A i \in timers' : i \in Ids /\ phase'[i] = "running" /\ cancelled'[i]
    BY <1>0, <1>3 DEF ShutdownClear, TypeOK
  <2>. QED  BY <1>3, <2>1 DEF ShutdownClear, ShutdownOrder
<1>4. CASE ShutdownNotify
  BY <1>4 DEF ShutdownNotify, ShutdownOrder, queueVars, timerVars
<1>5. CASE ShutdownJoin
  BY <1>5 DEF ShutdownJoin, ShutdownOrder, queueVars, timerVars, workerVars
<1>6. CASE SchedExit \/ SchedSleep \/ SchedTimeout \/ Tick
  BY <1>6 DEF SchedExit, SchedSleep, SchedTimeout, Tick, ShutdownOrder,
              queueVars, timerVars, workerVars
<1>7. CASE SchedFire
  BY <1>7 DEF SchedFire, ShutdownOrder
<1>8. ASSUME NEW w \in Workers, WorkerExit(w) \/ WorkerSleep(w)
      PROVE  ShutdownOrder'
  <2>1. shut # "joined"
    BY <1>8 DEF WorkerExit, WorkerSleep, ShutdownOrder
  <2>2. UNCHANGED <<queueVars, timerVars, stopped, shut>>
    BY <1>8 DEF WorkerExit, WorkerSleep
  <2>. QED  BY <2>1, <2>2 DEF ShutdownOrder, queueVars, timerVars
<1>9. ASSUME NEW w \in Workers, WorkerStart(w)
      PROVE  ShutdownOrder'
  BY <1>9 DEF WorkerStart, ShutdownOrder
<1>10. ASSUME NEW w \in Workers, WorkerFinish(w)
       PROVE  ShutdownOrder'
  <2> DEFINE id == wtask[w]
  <2>1. wpc[w] = "running" /\ id \in timers /\ id \in Ids
    BY <1>0, <1>10 DEF WorkerFinish, PhaseTellsPlace
  <2>2. /\ UNCHANGED <<deadlines, ready, cancelled, stopped, shut>>
        /\ timers' = IF LastRun(id) THEN timers \ {id} ELSE timers
        /\ \A i \in Ids : i # id => phase'[i] = phase[i]
    BY <1>10, <2>1 DEF WorkerFinish, TypeOK
  <2>3. shut # "joined"
    BY <2>1 DEF ShutdownOrder
  <2>4. stopped => LastRun(id)
    BY <2>1 DEF ShutdownOrder, LastRun
  <2>. HIDE DEF id
  <2>. QED  BY <1>0, <2>2, <2>3, <2>4 DEF ShutdownOrder
<1>11. CASE SpuriousWake
  BY <1>11 DEF SpuriousWake, Asleep, ShutdownOrder, TypeOK, queueVars, timerVars
<1>12. CASE UNCHANGED vars
  BY <1>12 DEF vars, ShutdownOrder, queueVars, timerVars, workerVars
<1>. QED  BY <1>1, <1>2, <1>3, <1>4, <1>5, <1>6, <1>7, <1>8, <1>9, <1>10,
             <1>11, <1>12 DEF Next, Shutdown, Scheduler, Worker

-----------------------------------------------------------------------------
(* No timer is lost.                                                       *)

\* Where a live timer that nobody cancelled is.
Held(i) ==
  \/ \E d \in deadlines : d[2] = i
  \/ ~repeat[i] /\ (i \in Elems(ready) \/ \E w \in Workers : Runs(w, i))

\* NoTimerLost, said with Held: every live timer is held.
LEMMA HeldIsNoTimerLost == NoTimerLost <=> \A i \in timers : ~cancelled[i] => Held(i)
BY DEF NoTimerLost, Held, Runs

\* Every step hands a live timer on: from its deadline to the queue, from the
\* queue to a worker, from the worker back to idle with a deadline.
LEMMA LostStep == IInv /\ [Next]_vars => NoTimerLost'
<1>. SUFFICES ASSUME TypeOK, PhaseTellsPlace, DeadlinesLive, FreshIds,
                     ShutdownOrder, [Next]_vars,
                     \A i \in timers : ~cancelled[i] => Held(i),
                     NEW i \in timers', ~cancelled'[i]
     PROVE  Held(i)'
  BY HeldIsNoTimerLost DEF IInv, NoTimerLost, Held, Runs
<1>0. timers \subseteq Ids
  BY TimersAreIds
<1>1. ASSUME NEW rep \in BOOLEAN, NEW ivl \in Intervals, AddTask(rep, ivl)
      PROVE  Held(i)'
  <2>1. CASE i = nextId
    <3> DEFINE d == <<now + (IF rep THEN 0 ELSE ivl), nextId>>
    <3>1. d \in deadlines'
      BY <1>1 DEF AddTask
    <3>2. d[2] = i
      BY <2>1
    <3>. QED  BY <3>1, <3>2 DEF Held
  <2>2. CASE i # nextId
    <3>1. i \in timers /\ ~cancelled[i] /\ i \in Ids
      BY <1>0, <1>1, <2>2 DEF AddTask
    <3>2. repeat'[i] = repeat[i]
      BY <1>1, <2>2, <3>1 DEF AddTask, TypeOK
    <3>. QED  BY <1>1, <3>1, <3>2 DEF AddTask, Held, Runs, workerVars
  <2>. QED  BY <2>1, <2>2
<1>2. ASSUME NEW id \in Ids, CancelTimer(id)
      PROVE  Held(i)'
  <2>1. i \in timers /\ i # id /\ ~cancelled[i]
    BY <1>0, <1>2 DEF CancelTimer, TypeOK
  <2>2. /\ \A d \in deadlines : d[2] = i => d \in deadlines'
        /\ UNCHANGED <<repeat, wpc, wtask>>
    BY <1>2, <2>1 DEF CancelTimer, workerVars
  <2>3. Elems(ready') = Elems(ready) \ {id}
    BY <1>2, WithoutRemoves DEF CancelTimer, PhaseTellsPlace, TypeOK
  <2>. QED  BY <2>1, <2>2, <2>3 DEF Held, Runs
<1>3. CASE ShutdownClear
  BY <1>0, <1>3 DEF ShutdownClear, TypeOK
<1>4. CASE SchedFire
  <2>1. PICK d \in deadlines : FireOf(d)
    BY <1>4, FireSteps
  <2>2. UNCHANGED <<timers, cancelled, repeat, wtask>>
    BY <1>4 DEF SchedFire
  <2>3. d[2] \in timers /\ d[2] \in Ids /\ (repeat[d[2]] \/ phase[d[2]] = "idle")
    BY <1>0 DEF DeadlinesLive
  <2>4. CASE i = d[2]
    <3>1. CASE repeat[i]
      <4>1. <<NextDue(i), i>> \in deadlines'
        BY <2>1, <2>4, <3>1 DEF FireOf, Rearmed
      <4>. QED  BY <4>1 DEF Held
    <3>2. CASE ~repeat[i]
      <4>1. QueueTask(i)
        BY <2>1, <2>3, <2>4, <3>2 DEF FireOf
      <4>2. i \notin Elems(ready)
        BY <2>3, <2>4, <3>2 DEF PhaseTellsPlace
      <4>3. i \in Elems(ready')
        BY <2>3, <2>4, <4>1, <4>2, AppendAdds
           DEF QueueTask, PhaseTellsPlace, TypeOK
      <4>. QED  BY <2>2, <3>2, <4>3 DEF Held
    <3>. QED  BY <3>1, <3>2
  <2>5. CASE i # d[2]
    <3>1. i \in timers /\ ~cancelled[i]
      BY <2>2
    <3>2. \A e \in deadlines : e[2] = i => e \in deadlines'
      BY <2>1, <2>5 DEF FireOf
    <3>3. Elems(ready) \subseteq Elems(ready')
      <4>1. CASE phase[d[2]] = "idle" /\ QueueTask(d[2])
        <5>1. d[2] \notin Elems(ready)
          BY <4>1 DEF PhaseTellsPlace
        <5>. QED  BY <2>3, <4>1, <5>1, AppendAdds
                  DEF QueueTask, PhaseTellsPlace, TypeOK
      <4>2. CASE UNCHANGED <<phase, queuedAt, ready, wpc>>
        BY <4>2
      <4>. QED  BY <2>1, <4>1, <4>2 DEF FireOf
    <3>4. \A w \in Workers : wpc'[w] = "running" <=> wpc[w] = "running"
      BY <2>1, NotifyKeepsRunning DEF FireOf, QueueTask
    <3>. QED  BY <2>2, <3>1, <3>2, <3>3, <3>4 DEF Held, Runs
  <2>. QED  BY <2>4, <2>5
<1>5. ASSUME NEW w \in Workers, WorkerStart(w)
      PROVE  Held(i)'
  <2> DEFINE id == Head(ready)
  <2>1. Elems(ready') = Elems(ready) \ {id}
    BY <1>5, TailRemoves DEF WorkerStart, PhaseTellsPlace, TypeOK
  <2>2. /\ UNCHANGED <<timers, deadlines, cancelled, repeat>>
        /\ wpc[w] = "check" /\ wpc'[w] = "running" /\ wtask'[w] = id
        /\ \A v \in Workers :
             v # w => wpc'[v] = wpc[v] /\ wtask'[v] = wtask[v]
    BY <1>5 DEF WorkerStart, TypeOK
  <2>. HIDE DEF id
  <2>. QED  BY <2>1, <2>2 DEF Held, Runs
<1>6. ASSUME NEW w \in Workers, WorkerFinish(w)
      PROVE  Held(i)'
  <2> DEFINE id == wtask[w]
  <2>1. wpc[w] = "running" /\ id \in Ids
    BY <1>0, <1>6 DEF WorkerFinish, PhaseTellsPlace
  <2>2. /\ UNCHANGED <<deadlines, ready, cancelled, repeat>>
        /\ timers' = IF LastRun(id) THEN timers \ {id} ELSE timers
        /\ \A v \in Workers :
             v # w => wpc'[v] = wpc[v] /\ wtask'[v] = wtask[v]
    BY <1>6, <2>1 DEF WorkerFinish, TypeOK
  <2>3. i \in timers /\ ~cancelled[i]
    BY <2>2
  <2>4. i = id => repeat[i]
    BY <2>2 DEF LastRun
  <2>. QED  BY <2>2, <2>3, <2>4 DEF Held, Runs
<1>7. ASSUME NEW w \in Workers, WorkerExit(w) \/ WorkerSleep(w)
      PROVE  Held(i)'
  <2>1. \A v \in Workers : wpc'[v] = "running" <=> wpc[v] = "running"
    BY <1>7 DEF WorkerExit, WorkerSleep, TypeOK
  <2>. QED  BY <1>7, <2>1 DEF WorkerExit, WorkerSleep, Held, Runs, queueVars,
                              timerVars
<1>8. CASE ShutdownNotify \/ SpuriousWake
  <2>1. \A v \in Workers : wpc'[v] = "running" <=> wpc[v] = "running"
    BY <1>8, NotifyKeepsRunning DEF ShutdownNotify, SpuriousWake, Asleep, TypeOK
  <2>. QED  BY <1>8, <2>1 DEF ShutdownNotify, SpuriousWake, Held, Runs,
                              queueVars, timerVars
<1>9. CASE ShutdownJoin \/ SchedExit \/ SchedSleep \/ SchedTimeout \/ Tick
           \/ UNCHANGED vars
  BY <1>9 DEF ShutdownJoin, SchedExit, SchedSleep, SchedTimeout, Tick, vars,
              Held, Runs, queueVars, timerVars, workerVars
<1>. QED  BY <1>1, <1>2, <1>3, <1>4, <1>5, <1>6, <1>7, <1>8, <1>9
          DEF Next, Shutdown, Scheduler, Worker

-----------------------------------------------------------------------------
(* The theorems.                                                           *)

\* The invariant holds initially.
LEMMA InitInv == Init => IInv
<1>. SUFFICES ASSUME Init PROVE IInv
  OBVIOUS
<1>. USE TimerAssumption DEF Init
<1>1. TypeOK
  <2>1. <<>> \in Seq(Ids)
    BY EmptySeq
  <2>2. now \in 0 .. MaxTime /\ nextId \in 0 .. MaxTimers
    OBVIOUS
  <2>3. timers \subseteq 0 .. nextId - 1 /\ deadlines \subseteq Nat \X Ids
    OBVIOUS
  <2>4. /\ phase \in [Ids -> {"idle", "queued", "running"}]
        /\ cancelled \in [Ids -> BOOLEAN] /\ repeat \in [Ids -> BOOLEAN]
        /\ interval \in [Ids -> Nat] /\ next \in [Ids -> Nat]
        /\ queuedAt \in [Ids -> Nat] /\ completed \in [Ids -> Nat]
    OBVIOUS
  <2>5. /\ wpc \in [Workers -> {"check", "waiting", "running", "exited"}]
        /\ wtask \in [Workers -> Ids \cup {NoTask}]
    OBVIOUS
  <2>. QED  BY <2>1, <2>2, <2>3, <2>4, <2>5 DEF TypeOK
<1>2. PhaseTellsPlace
  BY EmptyQueue DEF PhaseTellsPlace
<1>3. DeadlinesLive /\ FreshIds /\ NoTimerLost /\ NeverOversleeps
  BY DEF DeadlinesLive, FreshIds, NoTimerLost, NeverOversleeps
<1>4. ShutdownOrder
  BY DEF ShutdownOrder
<1>. QED  BY <1>1, <1>2, <1>3, <1>4 DEF IInv

\* The inductive invariant holds in every reachable state.
THEOREM TimerInvariant == Spec => []IInv
<1>1. IInv /\ [Next]_vars => IInv'
  BY TypeStep, PlaceStep, DeadlineStep, LostStep, SleepStep, ShutdownStep DEF IInv
<1>. QED  BY InitInv, <1>1, PTL DEF Spec

\* Type correctness, for every number of workers and timers.
THEOREM TimerTypes == Spec => []TypeOK
<1>1. IInv => TypeOK
  BY DEF IInv
<1>. QED  BY TimerInvariant, <1>1, PTL

\* A timer is at most once in the ready queue or on a worker: its callback
\* never runs twice at the same time.
THEOREM TimerAtMostOne == Spec => []AtMostOne
<1>1. IInv => AtMostOne
  BY DEF IInv, PhaseTellsPlace, AtMostOne, Distinct
<1>. QED  BY TimerInvariant, <1>1, PTL

\* After cancelTimer() a timer is not queued, nor can a deadline queue it.
THEOREM TimerCancelled == Spec => []CancelledNeverQueued
<1>1. IInv => CancelledNeverQueued
  BY DEF IInv, PhaseTellsPlace, DeadlinesLive, CancelledNeverQueued
<1>. QED  BY TimerInvariant, <1>1, PTL

\* A timer that nobody cancelled has a deadline, is queued, or runs.
THEOREM TimerNotLost == Spec => []NoTimerLost
<1>1. IInv => NoTimerLost
  BY DEF IInv
<1>. QED  BY TimerInvariant, <1>1, PTL

\* The scheduler thread never sleeps past the earliest deadline.
THEOREM TimerNoOversleep == Spec => []NeverOversleeps
<1>1. IInv => NeverOversleeps
  BY DEF IInv
<1>. QED  BY TimerInvariant, <1>1, PTL

\* When shutdown() returns, no callback runs and no timer is left.
THEOREM TimerShutdown == Spec => []ShutdownLeavesNothing
<1>1. IInv => ShutdownLeavesNothing
  <2>. SUFFICES ASSUME IInv, shut = "joined"
       PROVE  /\ timers = {} /\ deadlines = {} /\ ready = <<>>
              /\ \A i \in Ids : phase[i] # "running"
    BY DEF ShutdownLeavesNothing
  <2>1. \A w \in Workers : wpc[w] # "running"
    BY DEF IInv, ShutdownOrder
  <2>2. \A i \in Ids : phase[i] # "running"
    BY <2>1 DEF IInv, PhaseTellsPlace, Runs
  <2>3. deadlines = {} /\ ready = <<>> /\ \A i \in timers : phase[i] = "running"
    BY DEF IInv, ShutdownOrder
  <2>4. timers = {}
    BY <2>2, <2>3, TimersAreIds DEF IInv
  <2>. QED  BY <2>2, <2>3, <2>4
<1>. QED  BY TimerInvariant, <1>1, PTL

-----------------------------------------------------------------------------
(* The pace of a repeating timer.                                          *)

\* A timer that was queued before is due again an interval after that at the
\* earliest; one that fires once is never due again.
Paced ==
  /\ \A i \in Ids : queuedAt[i] <= now
  /\ \A i \in Ids : i >= nextId => completed[i] = 0
  /\ \A d \in deadlines :
       phase[d[2]] # "idle" \/ completed[d[2]] > 0 =>
         repeat[d[2]] /\ d[1] >= queuedAt[d[2]] + interval[d[2]]

\* Steps that touch neither clock, deadlines nor runs keep the pace.
LEMMA PacedUnchanged ==
  ASSUME Paced, UNCHANGED <<now, nextId, deadlines, phase, completed, queuedAt,
                            repeat, interval>>
  PROVE  Paced'
BY DEF Paced

\* A served deadline comes back an interval after now, whether its tick was
\* queued or skipped.
LEMMA PacedStep == IInv /\ Paced /\ [Next]_vars => Paced'
<1>. SUFFICES ASSUME TypeOK, PhaseTellsPlace, DeadlinesLive, FreshIds, Paced,
                     [Next]_vars
     PROVE  Paced'
  BY DEF IInv
<1>. USE TimerAssumption
<1>0. /\ timers \subseteq Ids /\ \A i \in timers : i < nextId
      /\ \A d \in deadlines : d[2] \in Ids /\ d[2] \in timers
      /\ \A i \in Ids : i \in Nat
      /\ nextId \in Nat /\ now \in Nat
  BY TimersAreIds DEF TypeOK, Ids, DeadlinesLive
<1>1. ASSUME NEW rep \in BOOLEAN, NEW ivl \in Intervals, AddTask(rep, ivl)
      PROVE  Paced'
  <2> DEFINE t == now + (IF rep THEN 0 ELSE ivl)
  <2>1. nextId \in Ids /\ nextId' = nextId + 1
    BY <1>1 DEF AddTask, TakeId, TypeOK, Ids
  <2>2. /\ deadlines' = deadlines \cup {<<t, nextId>>}
        /\ UNCHANGED <<now, phase, queuedAt, completed>>
        /\ \A i \in Ids : i # nextId =>
             repeat'[i] = repeat[i] /\ interval'[i] = interval[i]
    BY <1>1 DEF AddTask, TypeOK
  <2>. HIDE DEF t
  <2>3. phase[nextId] = "idle" /\ completed[nextId] = 0
    BY <1>0, <2>1 DEF FreshIds, Paced
  <2>4. ASSUME NEW d \in deadlines',
               phase'[d[2]] # "idle" \/ completed'[d[2]] > 0
        PROVE  repeat'[d[2]] /\ d[1] >= queuedAt'[d[2]] + interval'[d[2]]
    <3>1. CASE d = <<t, nextId>>
      BY <2>2, <2>3, <2>4, <3>1
    <3>2. CASE d \in deadlines
      <4>1. d[2] \in Ids /\ d[2] # nextId
        BY <1>0, <3>2
      <4>. QED  BY <2>2, <2>4, <3>2, <4>1 DEF Paced
    <3>. QED  BY <2>2, <3>1, <3>2
  <2>5. \A i \in Ids : i >= nextId' => completed'[i] = 0
    BY <1>0, <2>1, <2>2 DEF Paced
  <2>. QED  BY <2>2, <2>4, <2>5 DEF Paced
<1>2. ASSUME NEW id \in Ids, CancelTimer(id)
      PROVE  Paced'
  BY <1>2 DEF CancelTimer, Paced
<1>3. CASE ShutdownClear
  BY <1>3 DEF ShutdownClear, Paced
<1>4. CASE SchedFire
  <2>1. PICK d \in deadlines : FireOf(d)
    BY <1>4, FireSteps
  <2> DEFINE id == d[2]
  <2>2. UNCHANGED <<now, nextId, repeat, interval, completed>> /\ id \in Ids
    BY <1>0, <1>4 DEF SchedFire
  <2>3. /\ \A i \in Ids : i # id =>
             phase'[i] = phase[i] /\ queuedAt'[i] = queuedAt[i]
        /\ queuedAt'[id] <= now
    <3>1. CASE QueueTask(id)
      <4>1. queuedAt'[id] = now
        BY <2>2, <3>1 DEF QueueTask, TypeOK
      <4>2. \A i \in Ids : i # id =>
              phase'[i] = phase[i] /\ queuedAt'[i] = queuedAt[i]
        BY <2>2, <3>1 DEF QueueTask, TypeOK
      <4>. QED  BY <1>0, <4>1, <4>2
    <3>2. CASE UNCHANGED <<phase, queuedAt, ready, wpc>>
      BY <2>2, <3>2 DEF Paced
    <3>. QED  BY <2>1, <3>1, <3>2 DEF FireOf
  <2>. HIDE DEF id
  <2>4. /\ \A i \in Ids : queuedAt'[i] <= now'
        /\ \A i \in Ids : i >= nextId' => completed'[i] = 0
    BY <2>2, <2>3 DEF Paced
  <2>5. \A e \in deadlines \ {d} : e[2] # id
    <3>1. \A e \in deadlines : e = <<e[1], e[2]>> /\ next[e[2]] = e[1]
      BY DEF TypeOK, DeadlinesLive
    <3>. QED  BY <3>1 DEF id
  <2>6. \A e \in deadlines \ {d} :
          phase'[e[2]] # "idle" \/ completed'[e[2]] > 0 =>
            repeat'[e[2]] /\ e[1] >= queuedAt'[e[2]] + interval'[e[2]]
    BY <1>0, <2>2, <2>3, <2>5 DEF Paced
  <2>7. CASE ~Rearmed(id)
    BY <2>1, <2>4, <2>6, <2>7 DEF FireOf, Paced, id
  <2>8. CASE Rearmed(id)
    <3>1. deadlines' = (deadlines \ {d}) \cup {<<NextDue(id), id>>}
      BY <2>1, <2>8 DEF FireOf, id
    <3>2. queuedAt'[id] \in Nat /\ interval[id] \in Nat
      <4>1. queuedAt' \in [Ids -> Nat] /\ interval \in [Ids -> Nat]
        BY <1>0, <2>1, <2>2 DEF FireOf, QueueTask, TypeOK, id
      <4>. QED  BY <2>2, <4>1
    <3>3. NextDue(id) >= queuedAt'[id] + interval'[id] /\ repeat'[id]
      BY <1>0, <2>2, <2>3, <2>8, <3>2 DEF NextDue, Rearmed
    <3>. QED  BY <2>4, <2>6, <3>1, <3>3 DEF Paced
  <2>. QED  BY <2>7, <2>8
<1>5. ASSUME NEW w \in Workers, WorkerStart(w)
      PROVE  Paced'
  <2> DEFINE id == Head(ready)
  <2>1. id \in Elems(ready) /\ id \in Ids
    BY <1>5, TailRemoves DEF WorkerStart, PhaseTellsPlace, TypeOK
  <2>2. /\ UNCHANGED <<now, nextId, deadlines, repeat, interval, queuedAt,
                       completed>>
        /\ \A i \in Ids : i # id => phase'[i] = phase[i]
    BY <1>5, <2>1 DEF WorkerStart, TypeOK
  <2>. HIDE DEF id
  <2>3. phase[id] # "idle"
    BY <2>1 DEF PhaseTellsPlace
  <2>. QED  BY <1>0, <2>2, <2>3 DEF Paced
<1>6. ASSUME NEW w \in Workers, WorkerFinish(w)
      PROVE  Paced'
  <2> DEFINE id == wtask[w]
  <2>1. id \in timers /\ id \in Ids /\ phase[id] = "running"
    BY <1>0, <1>6 DEF WorkerFinish, PhaseTellsPlace
  <2>2. /\ UNCHANGED <<now, nextId, deadlines, repeat, interval, queuedAt>>
        /\ \A i \in Ids : i # id =>
             phase'[i] = phase[i] /\ completed'[i] = completed[i]
    BY <1>6, <2>1 DEF WorkerFinish, TypeOK
  <2>. HIDE DEF id
  <2>3. id < nextId
    BY <1>0, <2>1
  <2>4. \A i \in Ids : i >= nextId' => completed'[i] = 0
    BY <1>0, <2>1, <2>2, <2>3 DEF Paced
  <2>. QED  BY <1>0, <2>1, <2>2, <2>4 DEF Paced
<1>7. CASE Tick
  <2>1. \A i \in Ids : queuedAt'[i] <= now'
    <3>1. now' = now + 1 /\ queuedAt' = queuedAt /\ queuedAt \in [Ids -> Nat]
      BY <1>7 DEF Tick, timerVars, TypeOK
    <3>. QED  BY <1>0, <3>1 DEF Paced
  <2>. QED  BY <1>7, <2>1 DEF Tick, Paced, queueVars, timerVars
<1>8. CASE ShutdownNotify \/ ShutdownJoin \/ SchedExit \/ SchedSleep
           \/ SchedTimeout \/ SpuriousWake \/ UNCHANGED vars
  BY <1>8, PacedUnchanged DEF ShutdownNotify, ShutdownJoin, SchedExit,
     SchedSleep, SchedTimeout, SpuriousWake, vars, queueVars, timerVars
<1>9. ASSUME NEW w \in Workers, WorkerExit(w) \/ WorkerSleep(w)
      PROVE  Paced'
  BY <1>9, PacedUnchanged DEF WorkerExit, WorkerSleep, queueVars, timerVars
<1>. QED  BY <1>1, <1>2, <1>3, <1>4, <1>5, <1>6, <1>7, <1>8, <1>9
          DEF Next, Shutdown, Scheduler, Worker

\* "Missed ticks are skipped": two runs of a repeating timer are queued at
\* least an interval apart, however late the scheduler thread is.
THEOREM TimerNoBurst == Spec => NoBurst
<1> DEFINE Spaced == \A i \in Ids :
      phase[i] = "idle" /\ phase'[i] = "queued" /\ completed[i] > 0
        => now >= queuedAt[i] + interval[i]
<1>1. Init => Paced
  BY TimerAssumption DEF Init, Paced
<1>2. IInv /\ Paced /\ [Next]_vars => [Spaced]_vars
  <2>. SUFFICES ASSUME IInv, Paced, Next, NEW i \in Ids,
                       phase[i] = "idle", phase'[i] = "queued", completed[i] > 0
       PROVE  now >= queuedAt[i] + interval[i]
    OBVIOUS
  <2>1. CASE SchedFire
    <3>1. PICK d \in deadlines : d[1] <= now /\ (phase' = phase
                                \/ phase' = [phase EXCEPT ![d[2]] = "queued"])
      BY <2>1 DEF SchedFire
    <3>2. d[2] = i
      BY <3>1 DEF IInv, TypeOK
    <3>3. d[1] >= queuedAt[i] + interval[i]
      BY <3>2 DEF Paced
    <3>4. /\ d[1] \in Nat /\ now \in Nat
          /\ queuedAt[i] \in Nat /\ interval[i] \in Nat
      BY TimerAssumption DEF IInv, TypeOK
    <3>. QED  BY <3>1, <3>3, <3>4
  <2>2. ASSUME NEW w \in Workers, WorkerStart(w) \/ WorkerFinish(w)
        PROVE  FALSE
    BY <2>2 DEF WorkerStart, WorkerFinish, IInv, TypeOK
  <2>3. ~SchedFire /\ ~(\E w \in Workers : WorkerStart(w) \/ WorkerFinish(w))
          => phase' = phase
    BY DEF Next, AddTask, CancelTimer, Shutdown, ShutdownClear, ShutdownNotify,
       ShutdownJoin, Scheduler, SchedExit, SchedSleep, SchedTimeout, Worker,
       WorkerExit, WorkerSleep, Tick, SpuriousWake, timerVars
  <2>. QED  BY <2>1, <2>2, <2>3
<1>3. Spec => []Paced
  BY <1>1, PacedStep, TimerInvariant, PTL DEF Spec
<1>. QED  BY <1>2, <1>3, TimerInvariant, PTL DEF Spec, NoBurst

-----------------------------------------------------------------------------
(* Wake-ups of the workers.                                                *)

\* The workers on their way to the ready queue.
Checking == {w \in Workers : wpc[w] = "check"}

\* A set of workers that contains another has as many, and one more at least
\* unless they are equal.
LEMMA MoreChecking ==
  ASSUME NEW A, NEW B, IsFiniteSet(B), A \subseteq B
  PROVE  /\ Cardinality(A) \in Nat /\ Cardinality(B) \in Nat
         /\ Cardinality(A) <= Cardinality(B)
         /\ A # B => Cardinality(A) + 1 <= Cardinality(B)
<1>1. /\ IsFiniteSet(A) /\ Cardinality(A) <= Cardinality(B)
      /\ Cardinality(A) = Cardinality(B) => A = B
  BY FS_Subset
<1>2. Cardinality(A) \in Nat /\ Cardinality(B) \in Nat
  BY <1>1, FS_CardinalityType
<1>. QED  BY <1>1, <1>2

\* std::remove makes the queue shorter or leaves it alone.
LEMMA WithoutShorter ==
  ASSUME NEW S, NEW s \in Seq(S), NEW x
  PROVE  Len(Without(s, x)) \in Nat /\ Len(Without(s, x)) <= Len(s)
<1>1. CASE x \notin Elems(s)
  BY <1>1, LenProperties DEF Without
<1>2. CASE x \in Elems(s)
  <2> DEFINE n == Len(s)
             k == CHOOSE k \in DOMAIN s : s[k] = x
             t == [j \in 1 .. n - 1 |-> IF j < k THEN s[j] ELSE s[j + 1]]
  <2>1. k \in DOMAIN s
    BY <1>2 DEF Elems
  <2>2. n \in Nat /\ DOMAIN s = 1 .. n /\ \A j \in 1 .. n : s[j] \in S
    BY LenProperties, ElementOfSeq
  <2>3. Without(s, x) = t
    BY <1>2 DEF Without
  <2>. HIDE DEF n, k
  <2>4. n - 1 \in Nat /\ k \in 1 .. n
    BY <2>1, <2>2
  <2>5. t \in [1 .. n - 1 -> S]
    BY <2>2, <2>4
  <2>6. t \in Seq(S) /\ DOMAIN t = 1 .. n - 1
    BY <2>4, <2>5, SeqDef, ZenonT(60)
  <2>. HIDE DEF t
  <2>7. Len(t) \in Nat /\ DOMAIN t = 1 .. Len(t)
    BY <2>6, LenProperties
  <2>8. Len(t) = n - 1
    BY <2>4, <2>6, <2>7
  <2>. QED  BY <2>2, <2>3, <2>4, <2>8 DEF n
<1>. QED  BY <1>1, <1>2

\* What a step may do to the workers that check and to the queue, so that no
\* sleeping worker is missed.
LEMMA StillCovered ==
  ASSUME TypeOK, NoIdleWorkerWithWork, Asleep' \subseteq Asleep,
         Checking \subseteq Checking', wpc' \in [Workers -> {"check", "waiting", "running", "exited"}],
         Len(ready') \in Nat,
         \/ Len(ready') <= Len(ready)
         \/ Len(ready') = Len(ready) + 1 /\ (Asleep = {} \/ Checking # Checking')
  PROVE  NoIdleWorkerWithWork'
<1>. SUFFICES ASSUME Asleep' # {} PROVE Len(ready') <= Cardinality(Checking')
  BY DEF NoIdleWorkerWithWork, Checking
<1>1. Len(ready) <= Cardinality(Checking) /\ Asleep # {}
  BY DEF NoIdleWorkerWithWork, Checking
<1>2. IsFiniteSet(Checking') /\ Len(ready) \in Nat
  <2>1. Checking' \subseteq Workers
    BY DEF Checking
  <2>2. ready \in Seq(Ids)
    BY DEF TypeOK
  <2>. QED  BY <2>1, <2>2, FS_Subset, TimerAssumption, LenProperties
<1>3. /\ Cardinality(Checking) \in Nat /\ Cardinality(Checking') \in Nat
      /\ Cardinality(Checking) <= Cardinality(Checking')
      /\ Checking # Checking' => Cardinality(Checking) + 1 <= Cardinality(Checking')
  BY <1>2, MoreChecking
<1>. QED  BY <1>1, <1>2, <1>3

\* Only a worker that finds the queue empty goes to sleep, each task that is
\* queued wakes a sleeper, and a worker that leaves the queue takes a task.
LEMMA WakeStep == IInv /\ NoIdleWorkerWithWork /\ [Next]_vars => NoIdleWorkerWithWork'
<1>. SUFFICES ASSUME IInv, NoIdleWorkerWithWork, [Next]_vars
     PROVE  NoIdleWorkerWithWork'
  OBVIOUS
<1>0. TypeOK /\ TypeOK' /\ ready \in Seq(Ids) /\ Len(ready) \in Nat
      /\ ready' \in Seq(Ids) /\ Len(ready') \in Nat
      /\ wpc \in [Workers -> {"check", "waiting", "running", "exited"}]
      /\ wpc' \in [Workers -> {"check", "waiting", "running", "exited"}]
  <2>1. TypeOK /\ TypeOK'
    BY TypeStep DEF IInv
  <2>. QED  BY <2>1, LenProperties DEF TypeOK
<1>1. CASE wpc' = wpc /\ Len(ready') <= Len(ready)
  BY <1>0, <1>1, StillCovered DEF Asleep, Checking
<1>2. ASSUME NEW rep \in BOOLEAN, NEW ivl \in Intervals, AddTask(rep, ivl)
      PROVE  NoIdleWorkerWithWork'
  BY <1>0, <1>1, <1>2 DEF AddTask, workerVars
<1>3. ASSUME NEW id \in Ids, CancelTimer(id)
      PROVE  NoIdleWorkerWithWork'
  <2>1. Len(ready') <= Len(ready)
    BY <1>0, <1>3, WithoutShorter DEF CancelTimer
  <2>. QED  BY <1>1, <1>3, <2>1 DEF CancelTimer, workerVars
<1>4. CASE ShutdownClear
  <2>1. Len(ready') = 0
    BY <1>4, EmptySeq DEF ShutdownClear
  <2>. QED  BY <1>0, <1>1, <1>4, <2>1 DEF ShutdownClear, workerVars
<1>5. CASE ShutdownNotify
  <2>1. ready' = ready /\ Asleep' = {}
    BY <1>0, <1>5 DEF ShutdownNotify, NotifyAllWorkers, queueVars, Asleep
  <2>. QED  BY <2>1 DEF NoIdleWorkerWithWork
<1>6. CASE ShutdownJoin \/ SchedExit \/ SchedSleep \/ SchedTimeout \/ Tick
           \/ UNCHANGED vars
  <2>1. wpc' = wpc /\ ready' = ready
    BY <1>6 DEF ShutdownJoin, SchedExit, SchedSleep, SchedTimeout, Tick, vars,
                queueVars, workerVars
  <2>. QED  BY <1>0, <1>1, <2>1
<1>7. CASE SchedFire
  <2>1. PICK d \in deadlines : FireOf(d)
    BY <1>7, FireSteps
  <2>2. CASE UNCHANGED <<phase, queuedAt, ready, wpc>>
    BY <1>0, <1>1, <2>2
  <2>3. CASE QueueTask(d[2])
    <3>1. d[2] \in Ids
      BY <1>0 DEF TypeOK
    <3>2. Len(ready') = Len(ready) + 1
      BY <1>0, <2>3, <3>1, AppendProperties DEF QueueTask
    <3>3. /\ Asleep' \subseteq Asleep /\ Checking \subseteq Checking'
          /\ Asleep = {} \/ Checking # Checking'
      <4>1. CASE Asleep = {} /\ wpc' = wpc
        BY <4>1 DEF Asleep, Checking
      <4>2. ASSUME NEW w \in Asleep, wpc' = [wpc EXCEPT ![w] = "check"]
            PROVE  /\ Asleep' \subseteq Asleep /\ Checking \subseteq Checking'
                   /\ w \in Checking' /\ w \notin Checking
        BY <1>0, <4>2 DEF Asleep, Checking
      <4>3. CASE \E w \in Asleep : wpc' = [wpc EXCEPT ![w] = "check"]
        BY <4>2, <4>3
      <4>. QED  BY <2>3, <4>1, <4>3 DEF QueueTask, NotifyWorker
    <3>. QED  BY <1>0, <3>2, <3>3, StillCovered
  <2>. QED  BY <2>1, <2>2, <2>3 DEF FireOf
<1>8. CASE SpuriousWake
  <2>1. ready' = ready
    BY <1>8 DEF SpuriousWake, queueVars
  <2>2. Asleep' \subseteq Asleep /\ Checking \subseteq Checking'
    <3>1. CASE wpc' = wpc
      BY <3>1 DEF Asleep, Checking
    <3>2. CASE \E w \in Asleep : wpc' = [wpc EXCEPT ![w] = "check"]
      BY <1>0, <3>2 DEF Asleep, Checking
    <3>. QED  BY <1>8, <3>1, <3>2 DEF SpuriousWake
  <2>. QED  BY <1>0, <2>1, <2>2, StillCovered
<1>9. ASSUME NEW w \in Workers, WorkerExit(w)
      PROVE  NoIdleWorkerWithWork'
  <2>1. ready' = <<>>
    BY <1>9 DEF WorkerExit, queueVars, IInv, ShutdownOrder
  <2>2. Len(ready') = 0
    BY <2>1, EmptySeq
  <2>3. Cardinality(Checking') \in Nat
    <3>1. Checking' \subseteq Workers
      BY DEF Checking
    <3>. QED  BY <3>1, FS_Subset, FS_CardinalityType, TimerAssumption
  <2>. QED  BY <2>2, <2>3 DEF NoIdleWorkerWithWork, Checking
<1>10. ASSUME NEW w \in Workers, WorkerSleep(w)
       PROVE  NoIdleWorkerWithWork'
  <2>1. ready' = <<>>
    BY <1>10 DEF WorkerSleep, queueVars
  <2>2. Len(ready') = 0
    BY <2>1, EmptySeq
  <2>3. Cardinality(Checking') \in Nat
    <3>1. Checking' \subseteq Workers
      BY DEF Checking
    <3>. QED  BY <3>1, FS_Subset, FS_CardinalityType, TimerAssumption
  <2>. QED  BY <2>2, <2>3 DEF NoIdleWorkerWithWork, Checking
<1>11. ASSUME NEW w \in Workers, WorkerStart(w)
       PROVE  NoIdleWorkerWithWork'
  <2>1. Len(ready') = Len(ready) - 1
    BY <1>0, <1>11, HeadTailProperties DEF WorkerStart
  <2>2. w \in Checking /\ Checking' = Checking \ {w} /\ Asleep' = Asleep
    BY <1>0, <1>11 DEF WorkerStart, Checking, Asleep
  <2>3. IsFiniteSet(Checking) /\ Cardinality(Checking) \in Nat
    <3>1. Checking \subseteq Workers
      BY DEF Checking
    <3>. QED  BY <3>1, FS_Subset, FS_CardinalityType, TimerAssumption
  <2>4. Cardinality(Checking') = Cardinality(Checking) - 1
    BY <2>2, <2>3, FS_RemoveElement
  <2>5. Cardinality(Checking') \in Nat
    <3>1. Checking' \subseteq Workers
      BY DEF Checking
    <3>. QED  BY <3>1, FS_Subset, FS_CardinalityType, TimerAssumption
  <2>. QED  BY <1>0, <2>1, <2>2, <2>3, <2>4, <2>5 DEF NoIdleWorkerWithWork, Checking
<1>12. ASSUME NEW w \in Workers, WorkerFinish(w)
       PROVE  NoIdleWorkerWithWork'
  <2>1. ready' = ready /\ Asleep' \subseteq Asleep /\ Checking \subseteq Checking'
    BY <1>0, <1>12 DEF WorkerFinish, Asleep, Checking
  <2>. QED  BY <1>0, <2>1, StillCovered
<1>. QED  BY <1>2, <1>3, <1>4, <1>5, <1>6, <1>7, <1>8, <1>9, <1>10, <1>11,
             <1>12 DEF Next, Shutdown, Scheduler, Worker

\* No wake-up of a worker is lost, for any number of workers: while one sleeps,
\* each queued task has another worker on its way to the queue.
THEOREM TimerNoIdleWorker == Spec => []NoIdleWorkerWithWork
<1>1. Init => NoIdleWorkerWithWork
  BY DEF Init, NoIdleWorkerWithWork, Asleep
<1>. QED  BY <1>1, WakeStep, TimerInvariant, PTL DEF Spec

-----------------------------------------------------------------------------
(* Shutdown.                                                               *)

\* Once shutdown() has notified, no thread waits for a notification any more.
NobodyLeftAsleep ==
  shut \in {"notified", "joined"} =>
    sched \notin {"waitEmpty", "waitUntil"} /\ Asleep = {}

\* The threads re-check the flag under the mutex before they wait, and the
\* flag was set before the notification.
LEMMA AwakeStep == IInv /\ NobodyLeftAsleep /\ [Next]_vars => NobodyLeftAsleep'
<1>. SUFFICES ASSUME IInv, NobodyLeftAsleep, [Next]_vars,
                     shut' \in {"notified", "joined"}
     PROVE  sched' \notin {"waitEmpty", "waitUntil"} /\ Asleep' = {}
  BY DEF NobodyLeftAsleep
<1>0. /\ sched \in {"check", "waitEmpty", "waitUntil", "exited"}
      /\ wpc \in [Workers -> {"check", "waiting", "running", "exited"}]
      /\ stopped <=> shut # "none"
      /\ stopped => deadlines = {}
  BY DEF IInv, TypeOK, ShutdownOrder
<1>1. CASE ShutdownNotify
  BY <1>0, <1>1 DEF ShutdownNotify, NotifyScheduler, NotifyAllWorkers, schedVars,
                    Asleep
<1>2. CASE ~ShutdownNotify
  <2>1. shut \in {"notified", "joined"}
    BY <1>2 DEF Next, AddTask, CancelTimer, Shutdown, ShutdownClear, ShutdownJoin,
       Scheduler, SchedExit, SchedSleep, SchedFire, SchedTimeout, Worker,
       WorkerExit, WorkerSleep, WorkerStart, WorkerFinish, Tick, SpuriousWake, vars
  <2>2. stopped /\ sched \notin {"waitEmpty", "waitUntil"} /\ Asleep = {}
    BY <1>0, <2>1 DEF NobodyLeftAsleep
  <2>3. ~SchedSleep /\ ~SchedFire /\ ~SchedTimeout /\ ~SpuriousWake /\ ~ShutdownClear
    BY <2>1, <2>2 DEF SchedSleep, SchedFire, SchedTimeout, SpuriousWake, ShutdownClear
  <2>4. ASSUME NEW w \in Workers, Worker(w)
        PROVE  sched' = sched /\ Asleep' = {}
    <3>1. WorkerExit(w) \/ WorkerFinish(w)
      BY <2>2, <2>4 DEF Worker, WorkerSleep, WorkerStart
    <3>. QED  BY <1>0, <2>2, <3>1 DEF WorkerExit, WorkerFinish, schedVars, Asleep
  <2>5. ASSUME NEW id \in Ids, CancelTimer(id)
        PROVE  sched' = sched /\ Asleep' = {}
    BY <2>2, <2>5 DEF CancelTimer, NotifyScheduler, schedVars, workerVars, Asleep
  <2>6. ASSUME NEW rep \in BOOLEAN, NEW ivl \in Intervals, AddTask(rep, ivl)
        PROVE  FALSE
    BY <2>2, <2>6 DEF AddTask
  <2>7. CASE ShutdownJoin \/ Tick \/ UNCHANGED vars
    BY <2>2, <2>7 DEF ShutdownJoin, Tick, vars, schedVars, workerVars, Asleep
  <2>8. CASE SchedExit
    BY <2>2, <2>8 DEF SchedExit, workerVars, Asleep
  <2>. QED  BY <1>2, <2>2, <2>3, <2>4, <2>5, <2>6, <2>7, <2>8
            DEF Next, Shutdown, Scheduler
<1>. QED  BY <1>1, <1>2

\* After the notifications of shutdown() no thread waits, and none waits again:
\* what is left of the joins depends on the running callbacks alone.
THEOREM TimerShutdownWakesAll == Spec => []NobodyLeftAsleep
<1>1. Init => NobodyLeftAsleep
  BY DEF Init, NobodyLeftAsleep
<1>. QED  BY <1>1, AwakeStep, TimerInvariant, PTL DEF Spec
=============================================================================
