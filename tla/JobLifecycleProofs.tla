------------------------- MODULE JobLifecycleProofs -------------------------
(***************************************************************************)
(* Proofs about JobLifecycle, for any number of clients, collectors and    *)
(* jobs: however adds, deletes, callbacks and restarts interleave, each    *)
(* collector's timer, its running flag and the outcome of its last start   *)
(* stay in step.                                                           *)
(***************************************************************************)
EXTENDS JobLifecycle, TLAPS

\* Threads that are in a call work on a job.
ThreadsOK ==
  /\ th \in [Threads -> Thread]
  /\ \A t \in Threads : th[t].pc # "idle" => th[t].id \in JobIds

\* What the tables hold are JobIDs.  (That next_job_id_ stays a number after a
\* restart takes the maximum of a set, hence an induction.)
TablesOK ==
  /\ jobList \in [Collectors -> SUBSET JobIds]
  /\ jobs \subseteq JobIds /\ db \subseteq JobIds /\ restore \subseteq JobIds

WorkOK == ThreadsOK /\ TablesOK

\* TimerMatchesRunning is inductive together with the types it is about.
IInv == SchedTypeOK /\ TimerMatchesRunning

\* A job added to a collector starts it exactly when it does not run.
LEMMA AddKeepsInStep ==
  ASSUME IInv, NEW j, NEW c \in Collectors, AddJob2Collector(j, c)
  PROVE  IInv'
<1>. USE DEF IInv, SchedTypeOK, TimerMatchesRunning, schedVars
<1>1. CASE UNCHANGED schedVars
  BY <1>1
<1>2. CASE UNCHANGED <<running, timers, handle>>
  BY <1>2
<1>3. CASE MustStart(c) /\ StartCollector(c)
  <2>1. ~running[c] /\ timers[c] = 0
    BY <1>3 DEF MustStart
  <2>2. PICK outcome \in StartOutcomes :
          /\ handle' = [handle EXCEPT ![c] = outcome]
          /\ IF outcome = "up"
             THEN /\ timers' = [timers EXCEPT ![c] = @ + 1]
                  /\ running' = [running EXCEPT ![c] = TRUE]
             ELSE UNCHANGED <<timers, running>>
    BY <1>3 DEF StartCollector
  <2>3. outcome \in {"up", "failed", "refused"}
    BY StartAssumption
  <2>4. CASE outcome = "up"
    <3>1. /\ handle' = [handle EXCEPT ![c] = "up"]
          /\ timers' = [timers EXCEPT ![c] = @ + 1]
          /\ running' = [running EXCEPT ![c] = TRUE]
      BY <2>2, <2>4
    <3>. QED  BY <2>1, <3>1
  <2>5. CASE outcome # "up"
    <3>1. UNCHANGED <<timers, running>> /\ handle' = [handle EXCEPT ![c] = outcome]
      BY <2>2, <2>5
    <3>. QED  BY <2>1, <2>3, <2>5, <3>1
  <2>. QED  BY <2>4, <2>5
<1>. QED  BY <1>1, <1>2, <1>3 DEF AddJob2Collector

\* An idle collector that stops has had its one timer.
LEMMA StopKeepsInStep ==
  ASSUME IInv, NEW c \in Collectors, IsIdle(c), StopCollector(c)
  PROVE  IInv'
<1>1. running[c] /\ timers[c] = 1
  BY DEF IsIdle, IInv, TimerMatchesRunning
<1>2. /\ handle' = [handle EXCEPT ![c] = "down"]
      /\ timers' = [timers EXCEPT ![c] = @ - 1]
      /\ running' = [running EXCEPT ![c] = FALSE]
  BY DEF StopCollector, CancelTimer
<1>. QED  BY <1>1, <1>2 DEF IInv, SchedTypeOK, TimerMatchesRunning

\* A thread whose record becomes r.
LEMMA ThreadStep ==
  ASSUME ThreadsOK, NEW t \in Threads, NEW r \in Thread,
         th' = [th EXCEPT ![t] = r], r.pc # "idle" => r.id \in JobIds
  PROVE  ThreadsOK'
BY DEF ThreadsOK

\* An idle thread's record is a thread's record.
LEMMA IdleThread == Idle \in Thread /\ Idle.pc = "idle"
BY RegistryAssumption DEF Idle, Thread

\* A thread in a call goes on to the next step of it.
LEMMA CallStep ==
  ASSUME ThreadsOK, NEW t \in Threads, th[t].pc # "idle",
         NEW p \in {"copy", "link", "persist", "erase", "unlink", "archive",
                    "collect"},
         NEW s \in SUBSET Collectors,
         \/ Goto(t, p)
         \/ th' = [th EXCEPT ![t].pc = p, ![t].todo = s]
  PROVE  ThreadsOK'
<1> DEFINE r == IF Goto(t, p) THEN [th[t] EXCEPT !.pc = p]
                ELSE [th[t] EXCEPT !.pc = p, !.todo = s]
<1>1. th[t] \in Thread /\ th[t].id \in JobIds
  BY DEF ThreadsOK
<1>2. r \in Thread /\ r.id = th[t].id
  BY <1>1 DEF Thread
<1>3. th' = [th EXCEPT ![t] = r]
  BY DEF Goto, ThreadsOK
<1>. HIDE DEF r
<1>. QED  BY <1>1, <1>2, <1>3, ThreadStep

\* A call begins: the record Idle is updated to is one of a thread at work.
LEMMA CallBegins ==
  ASSUME ThreadsOK, NEW t \in Threads, NEW j \in JobIds,
         NEW p \in {"emplace", "lookup", "unlink", "archive"},
         NEW s \in SUBSET Collectors, NEW q \in SUBSET JobIds, NEW w \in BOOLEAN,
         NEW r, th' = [th EXCEPT ![t] = r],
         \/ r = [Idle EXCEPT !.pc = p, !.id = j]
         \/ r = [Idle EXCEPT !.pc = p, !.id = j, !.want = w]
         \/ r = [Idle EXCEPT !.pc = p, !.id = j, !.rest = q]
         \/ r = [Idle EXCEPT !.pc = p, !.id = j, !.todo = s, !.rest = q]
  PROVE  ThreadsOK'
<1>1. j \in 0 .. MaxJobId
  BY RegistryAssumption DEF JobIds
<1>2. r \in Thread /\ r.id = j
  BY <1>1, IdleThread DEF Thread
<1>. QED  BY <1>2, ThreadStep

\* A call ends.
LEMMA CallEnds ==
  ASSUME ThreadsOK, NEW t \in Threads, th' = [th EXCEPT ![t] = Idle]
  PROVE  ThreadsOK'
BY IdleThread, ThreadStep

\* findJob and delJob return: to the caller, to the callback's loop, or to the
\* next job erased by the same delJob(matcher).
LEMMA CallReturns ==
  ASSUME ThreadsOK, NEW t \in Threads, th[t].pc # "idle", Return(t)
  PROVE  ThreadsOK'
<1>1. CASE Goto(t, "collect")
  BY <1>1, CallStep
<1>2. CASE th' = [th EXCEPT ![t] = Idle]
  BY <1>2, CallEnds
<1>3. ASSUME NEW j \in th[t].rest,
             th' = [th EXCEPT ![t] = [Idle EXCEPT !.pc = "unlink", !.id = j,
                         !.todo = Collectors, !.rest = th[t].rest \ {j}]]
      PROVE  ThreadsOK'
  <2>1. th[t].rest \subseteq JobIds
    BY DEF ThreadsOK, Thread
  <2>3. j \in JobIds /\ th[t].rest \ {j} \in SUBSET JobIds
    BY <2>1
  <2>. QED  BY <1>3, <2>3, CallBegins
<1>. QED  BY <1>1, <1>2, <1>3 DEF Return

\* The steps of addJob.
LEMMA AddSteps ==
  ASSUME WorkOK, NEW t \in Threads,
         \/ AddJob(t) \/ EmplaceJob(t) \/ CopyJob(t) \/ LinkJob(t)
         \/ PersistJob(t) \/ NoCallback(t)
  PROVE  ThreadsOK'
<1>. USE DEF WorkOK
<1>1. CASE AddJob(t)
  <2>1. PICK r \in RequestIds :
          /\ r = 0 => nextJobId \in JobIds
          /\ th' = [th EXCEPT ![t] = [Idle EXCEPT !.pc = "emplace", !.id = IdFor(r)]]
    BY <1>1 DEF AddJob
  <2>2. IdFor(r) \in JobIds
    BY <2>1, RequestAssumption, RegistryAssumption DEF IdFor, JobIds
  <2>. QED  BY <2>1, <2>2, CallBegins
<1>2. CASE EmplaceJob(t)
  BY <1>2, CallEnds, CallStep DEF EmplaceJob
<1>3. CASE CopyJob(t)
  <2>1. CASE th' = [th EXCEPT ![t] = Idle]
    BY <2>1, CallEnds
  <2>2. CASE Loop(t, "link")
    BY <1>3, <2>2, CallStep DEF CopyJob, Loop
  <2>. QED  BY <1>3, <2>1, <2>2 DEF CopyJob
<1>4. CASE LinkJob(t)
  <2>1. PICK c \in th[t].todo :
          th' = [th EXCEPT ![t].todo = @ \ {c},
                   ![t].pc = IF th[t].todo = {c} THEN "persist" ELSE "link"]
    BY <1>4 DEF LinkJob
  <2> DEFINE p == IF th[t].todo = {c} THEN "persist" ELSE "link"
             s == th[t].todo \ {c}
  <2>2. p \in {"persist", "link"} /\ s \in SUBSET Collectors
    BY DEF ThreadsOK, Thread
  <2>3. th' = [th EXCEPT ![t].pc = p, ![t].todo = s]
    BY <2>1 DEF ThreadsOK, Thread
  <2>. HIDE DEF p, s
  <2>. QED  BY <1>4, <2>2, <2>3, CallStep DEF LinkJob
<1>5. CASE PersistJob(t)
  BY <1>5, CallEnds DEF PersistJob
<1>6. CASE NoCallback(t)
  BY <1>6, CallStep DEF NoCallback
<1>. QED  BY <1>1, <1>2, <1>3, <1>4, <1>5, <1>6

\* The steps of findJob and delJob.
LEMMA DeleteSteps ==
  ASSUME WorkOK, NEW t \in Threads,
         \/ QueryJob(t) \/ DeleteByMatcher(t)
         \/ FindJob(t) \/ DelJob(t) \/ UnlinkJob(t) \/ ArchiveJob(t)
  PROVE  ThreadsOK'
<1>. USE DEF WorkOK
<1>1. CASE QueryJob(t)
  <2>1. PICK j \in jobs, w \in BOOLEAN :
          th' = [th EXCEPT ![t] =
                   [Idle EXCEPT !.pc = "lookup", !.id = j, !.want = w]]
    BY <1>1 DEF QueryJob
  <2>2. j \in JobIds
    BY DEF TablesOK
  <2>. QED  BY <2>1, <2>2, CallBegins
<1>2. CASE DeleteByMatcher(t)
  <2>1. PICK S \in SUBSET jobs : \E j \in S :
          th' = [th EXCEPT ![t] = [Idle EXCEPT !.pc = "unlink", !.id = j,
                                     !.todo = Collectors, !.rest = S \ {j}]]
    BY <1>2 DEF DeleteByMatcher
  <2>2. PICK j \in S :
          th' = [th EXCEPT ![t] = [Idle EXCEPT !.pc = "unlink", !.id = j,
                                     !.todo = Collectors, !.rest = S \ {j}]]
    BY <2>1
  <2>3. j \in JobIds /\ S \ {j} \in SUBSET JobIds
    BY DEF TablesOK
  <2>. QED  BY <2>2, <2>3, CallBegins
<1>3. CASE FindJob(t)
  BY <1>3, CallReturns, CallStep DEF FindJob
<1>4. CASE DelJob(t)
  BY <1>4, CallReturns, CallStep DEF DelJob, Loop
<1>5. CASE UnlinkJob(t)
  <2>1. PICK c \in th[t].todo :
          th' = [th EXCEPT ![t].todo = @ \ {c},
                   ![t].pc = IF th[t].todo = {c} THEN "archive" ELSE "unlink"]
    BY <1>5 DEF UnlinkJob
  <2> DEFINE p == IF th[t].todo = {c} THEN "archive" ELSE "unlink"
             s == th[t].todo \ {c}
  <2>2. p \in {"archive", "unlink"} /\ s \in SUBSET Collectors
    BY DEF ThreadsOK, Thread
  <2>3. th' = [th EXCEPT ![t].pc = p, ![t].todo = s]
    BY <2>1 DEF ThreadsOK, Thread
  <2>. HIDE DEF p, s
  <2>. QED  BY <1>5, <2>2, <2>3, CallStep DEF UnlinkJob
<1>6. CASE ArchiveJob(t)
  BY <1>6, CallReturns DEF ArchiveJob
<1>. QED  BY <1>1, <1>2, <1>3, <1>4, <1>5, <1>6

\* The timer callback, and the restored jobs.
LEMMA OtherSteps ==
  ASSUME WorkOK,
         \/ \E c \in Collectors : Tick(c) \/ Collect(c)
         \/ RestoreNext \/ CrashRestart
  PROVE  ThreadsOK'
<1>. USE DEF WorkOK
<1>1. ASSUME NEW c \in Collectors, Tick(c) PROVE ThreadsOK'
  <2>1. CASE UNCHANGED th
    BY <2>1 DEF ThreadsOK
  <2>2. ASSUME NEW j \in jobList[c],
               th' = [th EXCEPT ![c] = [Idle EXCEPT !.pc = "lookup", !.id = j,
                                                    !.rest = jobList[c]]]
        PROVE  ThreadsOK'
    <3>1. c \in Threads /\ j \in JobIds /\ jobList[c] \in SUBSET JobIds
      BY DEF TablesOK, Threads
    <3>. QED  BY <2>2, <3>1, CallBegins
  <2>. QED  BY <1>1, <2>1, <2>2 DEF Tick
<1>2. ASSUME NEW c \in Collectors, Collect(c) PROVE ThreadsOK'
  <2>1. c \in Threads
    BY DEF Threads
  <2>2. CASE th' = [th EXCEPT ![c] = Idle]
    BY <2>1, <2>2, CallEnds
  <2> DEFINE left == th[c].rest \ {th[c].id}
  <2>3. left \in SUBSET JobIds
    BY <2>1 DEF ThreadsOK, Thread
  <2>. HIDE DEF left
  <2>4. ASSUME NEW j \in left,
               th' = [th EXCEPT ![c] = [Idle EXCEPT !.pc = "lookup", !.id = j,
                                                    !.rest = left]]
        PROVE  ThreadsOK'
    BY <2>1, <2>3, <2>4, CallBegins
  <2>. QED  BY <1>2, <2>2, <2>4 DEF Collect, left
<1>3. CASE RestoreNext
  <2>1. PICK j \in restore :
          th' = [th EXCEPT ![Main] = [Idle EXCEPT !.pc = "emplace", !.id = j]]
    BY <1>3 DEF RestoreNext
  <2>2. Main \in Threads /\ j \in JobIds
    BY DEF TablesOK, Threads
  <2>. QED  BY <2>1, <2>2, CallBegins
<1>4. CASE CrashRestart
  BY <1>4, IdleThread DEF CrashRestart, ThreadsOK
<1>. QED  BY <1>1, <1>2, <1>3, <1>4

\* What each step does to the tables.
LEMMA TablesStep ==
  ASSUME WorkOK, [Next]_vars
  PROVE  TablesOK'
<1>. USE DEF WorkOK
<1>1. ASSUME NEW t \in Threads, th[t].pc # "idle" PROVE th[t].id \in JobIds
  BY <1>1 DEF ThreadsOK
<1>2. CASE UNCHANGED <<jobs, db, restore, jobList>>
  BY <1>2 DEF TablesOK
<1>3. ASSUME NEW t \in Threads, EmplaceJob(t) PROVE TablesOK'
  BY <1>1, <1>3 DEF EmplaceJob, Emplace, TablesOK, schedVars, bookVars
<1>4. ASSUME NEW t \in Threads, LinkJob(t) PROVE TablesOK'
  <2>1. UNCHANGED <<jobs, db, restore>>
    BY <1>4 DEF LinkJob, registryVars, bookVars
  <2>2. PICK c \in th[t].todo : AddJob2Collector(th[t].id, c)
    BY <1>4 DEF LinkJob
  <2>3. jobList' = jobList \/ jobList' = [jobList EXCEPT ![c] = @ \cup {th[t].id}]
    BY <2>2 DEF AddJob2Collector, schedVars
  <2>4. th[t].id \in JobIds
    BY <1>1, <1>4 DEF LinkJob
  <2>. QED  BY <2>1, <2>3, <2>4 DEF TablesOK
<1>5. ASSUME NEW t \in Threads, PersistJob(t) PROVE TablesOK'
  BY <1>1, <1>5 DEF PersistJob, Persist, TablesOK, schedVars, bookVars
<1>6. ASSUME NEW t \in Clients, DeleteByMatcher(t) PROVE TablesOK'
  BY <1>6 DEF DeleteByMatcher, TablesOK, schedVars, bookVars
<1>7. ASSUME NEW t \in Threads, FindJob(t) PROVE TablesOK'
  BY <1>1, <1>7 DEF FindJob, TablesOK, schedVars, bookVars
<1>8. ASSUME NEW t \in Threads, DelJob(t) PROVE TablesOK'
  BY <1>8 DEF DelJob, EraseJob, TablesOK, schedVars, bookVars
<1>9. ASSUME NEW t \in Threads, UnlinkJob(t) PROVE TablesOK'
  BY <1>9 DEF UnlinkJob, RmJobFromCollector, TablesOK, registryVars, bookVars
<1>10. ASSUME NEW t \in Threads, ArchiveJob(t) PROVE TablesOK'
  BY <1>10 DEF ArchiveJob, Archive, TablesOK, schedVars, bookVars
<1>11. CASE RestoreNext
  BY <1>11 DEF RestoreNext, TablesOK, registryVars, schedVars
<1>12. CASE CrashRestart
  BY <1>12 DEF CrashRestart, TablesOK
<1>13. ASSUME NEW t \in Threads,
              AddJob(t) \/ QueryJob(t) \/ CopyJob(t) \/ NoCallback(t)
       PROVE  TablesOK'
  BY <1>2, <1>13
  DEF AddJob, QueryJob, CopyJob, NoCallback, registryVars, schedVars, bookVars
<1>14. ASSUME NEW c \in Collectors, Tick(c) \/ Collect(c) PROVE TablesOK'
  BY <1>2, <1>14 DEF Tick, Collect, StopCollector, registryVars, schedVars, bookVars
<1>15. CASE AddLifecycleCb \/ ProcessesExit \/ UNCHANGED vars
  BY <1>2, <1>15
  DEF AddLifecycleCb, ProcessesExit, vars, registryVars, schedVars, bookVars
<1>16. Clients \subseteq Threads /\ Collectors \subseteq Threads /\ Main \in Threads
  BY DEF Threads
<1>17. ASSUME NEW t \in Threads, InCall(t) PROVE TablesOK'
  BY <1>17, <1>3, <1>4, <1>5, <1>7, <1>8, <1>9, <1>10, <1>13 DEF InCall
<1>. QED
  BY <1>6, <1>11, <1>12, <1>13, <1>14, <1>15, <1>16, <1>17 DEF Next, Callback

\* In every reachable state threads work on jobs and visit collectors.
LEMMA WorkInvariant == Spec => []WorkOK
<1>1. Init => WorkOK
  BY IdleThread
  DEF Init, RegistryInit, SchedInit, WorkOK, ThreadsOK, TablesOK
<1>2. WorkOK /\ [Next]_vars => WorkOK'
  <2>. SUFFICES ASSUME WorkOK, [Next]_vars PROVE WorkOK'
    OBVIOUS
  <2>1. Clients \subseteq Threads /\ Collectors \subseteq Threads /\ Main \in Threads
    BY DEF Threads
  <2>2. UNCHANGED th => ThreadsOK'
    BY DEF WorkOK, ThreadsOK
  <2>3. ASSUME NEW t \in Threads, InCall(t) PROVE ThreadsOK'
    BY <2>3, AddSteps, DeleteSteps DEF InCall
  <2>4. ASSUME NEW t \in Clients, AddJob(t) \/ QueryJob(t) \/ DeleteByMatcher(t)
        PROVE  ThreadsOK'
    BY <2>1, <2>4, AddSteps, DeleteSteps
  <2>5. ASSUME NEW c \in Collectors, Callback(c) PROVE ThreadsOK'
    BY <2>1, <2>3, <2>5, OtherSteps DEF Callback
  <2>6. ASSUME RestoreNext \/ CrashRestart PROVE ThreadsOK'
    BY <2>6, OtherSteps
  <2>7. ASSUME AddLifecycleCb \/ ProcessesExit \/ UNCHANGED vars
        PROVE  ThreadsOK'
    BY <2>2, <2>7 DEF AddLifecycleCb, ProcessesExit, vars, bookVars
  <2>8. ThreadsOK'
    BY <2>1, <2>3, <2>4, <2>5, <2>6, <2>7 DEF Next
  <2>. QED  BY <2>8, TablesStep DEF WorkOK
<1>. QED  BY <1>1, <1>2, PTL DEF Spec

\* Timers, flags and instances stay in step.
LEMMA InStep == Spec => []IInv
<1>1. Init => IInv
  BY DEF Init, SchedInit, IInv, SchedTypeOK, TimerMatchesRunning
<1>2. WorkOK /\ IInv /\ [Next]_vars => IInv'
  <2>. SUFFICES ASSUME WorkOK, IInv, [Next]_vars PROVE IInv'
    OBVIOUS
  <2>1. CASE UNCHANGED <<running, timers, handle>>
    BY <2>1 DEF IInv, SchedTypeOK, TimerMatchesRunning
  <2>2. ASSUME NEW t \in Threads, LinkJob(t) PROVE IInv'
    <3>1. PICK c \in th[t].todo : AddJob2Collector(th[t].id, c)
      BY <2>2 DEF LinkJob
    <3>2. c \in Collectors
      BY <3>1 DEF WorkOK, ThreadsOK, Thread
    <3>. QED  BY <3>1, <3>2, AddKeepsInStep
  <2>3. ASSUME NEW c \in Collectors, Tick(c) PROVE IInv'
    BY <2>1, <2>3, StopKeepsInStep DEF Tick, schedVars
  <2>4. CASE CrashRestart
    BY <2>4 DEF CrashRestart, IInv, SchedTypeOK, TimerMatchesRunning
  <2>5. ASSUME NEW t \in Threads, InCall(t) PROVE IInv'
    <3>1. CASE LinkJob(t)
      BY <2>2, <3>1
    <3>2. CASE UnlinkJob(t)
      BY <2>1, <3>2 DEF UnlinkJob, RmJobFromCollector
    <3>3. CASE EmplaceJob(t) \/ CopyJob(t) \/ PersistJob(t) \/ NoCallback(t)
      BY <2>1, <3>3 DEF EmplaceJob, CopyJob, PersistJob, NoCallback, schedVars
    <3>4. CASE FindJob(t) \/ DelJob(t) \/ ArchiveJob(t)
      BY <2>1, <3>4 DEF FindJob, DelJob, ArchiveJob, schedVars
    <3>. QED  BY <2>5, <3>1, <3>2, <3>3, <3>4 DEF InCall
  <2>6. ASSUME NEW t \in Clients, AddJob(t) \/ QueryJob(t) \/ DeleteByMatcher(t)
        PROVE  IInv'
    BY <2>1, <2>6 DEF AddJob, QueryJob, DeleteByMatcher, schedVars
  <2>7. ASSUME NEW c \in Collectors, Collect(c) PROVE IInv'
    BY <2>1, <2>7 DEF Collect, schedVars
  <2>8. CASE AddLifecycleCb \/ RestoreNext \/ ProcessesExit \/ UNCHANGED vars
    BY <2>1, <2>8
    DEF AddLifecycleCb, RestoreNext, ProcessesExit, vars, schedVars
  <2>9. Clients \cup {Main} \subseteq Threads /\ Collectors \subseteq Threads
    BY DEF Threads
  <2>. QED
    BY <2>3, <2>4, <2>5, <2>6, <2>7, <2>8, <2>9 DEF Next, Callback
<1>. QED  BY <1>1, <1>2, WorkInvariant, PTL DEF Spec

\* A collector has one timer while it runs and none otherwise, and it runs
\* exactly while its last start succeeded, also where starts fail or their
\* timers are refused.
THEOREM CollectorTimers == Spec => []TimerMatchesRunning
BY InStep, PTL DEF IInv
=============================================================================
