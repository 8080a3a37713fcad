---------------------------- MODULE JobLifecycle ----------------------------
(***************************************************************************)
(* The job registry and the collector scheduler together, as the threads   *)
(* of the daemon run them:                                                 *)
(*   - Clients: the RPC thread and the Condor/Slurm watcher threads, which *)
(*     add, query and delete jobs;                                         *)
(*   - one callback thread per collector (its timer callback, which looks  *)
(*     every job up and thereby deletes the ones that ended);              *)
(*   - Main, which restores the persisted jobs after a restart.            *)
(*                                                                         *)
(* addJob and delJob drop the registry's lock before they call the         *)
(* scheduler, and the scheduler locks one collector at a time, so each of  *)
(* them is a sequence of steps any other thread can fall between.          *)
(***************************************************************************)
EXTENDS JobRegistry, CollectorScheduler

CONSTANTS
  Clients,      \* client threads
  Main,         \* the main thread
  Free,         \* no holder of the scheduler's m_
  RequestIds,   \* JobIDs in add requests; 0 asks for a generated one
  MaxAdds,      \* bound: add requests
  MaxCrashes    \* bound: crashes of the daemon

ASSUME RequestAssumption ==
  /\ RequestIds \subseteq 0 .. MaxJobId
  /\ Free \notin Clients \cup Collectors \cup {Main}
  /\ Main \notin Clients \cup Collectors /\ Clients \cap Collectors = {}

VARIABLES
  th,         \* what each thread is doing
  addLock,    \* holder of CollectorScheduler::m_
  attached,   \* addLifecycleCb was called
  restore,    \* restore_jobs_ still to be added
  reused,     \* history: jobs inserted while a deletion of their id went on
  missed,     \* history: jobs whose addition found no callback registered
  orphans,    \* history: restored jobs refused for a job of another id
  adds,       \* bound: add requests so far
  crashes     \* bound: crashes so far

\* No code reads the history; properties name the jobs it is about.
historyVars == <<reused, missed, orphans>>
bookVars == <<attached, restore, adds, crashes>>
vars == <<registryVars, alive, schedVars, th, addLock, bookVars, historyVars>>

Threads == Clients \cup Collectors \cup {Main}

\* pc: "idle", or the next step of the call the thread is in.  id: its job.
\* todo: collectors the current loop has still to visit.  rest: further jobs
\* of the callback's snapshot or of delJob(matcher)'s removed_jobs.
\* want: delete the job if it is found.
Idle == [pc |-> "idle", id |-> 0, todo |-> {}, rest |-> {}, want |-> FALSE]

Thread == [pc : {"idle", "emplace", "copy", "link", "persist", "lookup",
                 "erase", "unlink", "archive", "collect"},
           id : 0 .. MaxJobId, todo : SUBSET Collectors,
           rest : SUBSET JobIds, want : BOOLEAN]

Goto(t, p) == th' = [th EXCEPT ![t].pc = p]

Loop(t, p) == th' = [th EXCEPT ![t].pc = p, ![t].todo = Collectors]

\* Return from findJob or delJob: a callback goes on with the result, and
\* delJob(matcher) with the next job it has erased.
Return(t) ==
  IF t \in Collectors
  THEN Goto(t, "collect")
  ELSE IF th[t].rest = {}
       THEN th' = [th EXCEPT ![t] = Idle]
       ELSE \E j \in th[t].rest :
              th' = [th EXCEPT ![t] = [Idle EXCEPT !.pc = "unlink", !.id = j,
                         !.todo = Collectors, !.rest = th[t].rest \ {j}]]

\* The job a call is about, and those delJob(matcher) has still to clean up.
Holds(t, j) == th[t].id = j \/ (t \in Clients /\ j \in th[t].rest)

\* Calls in progress on j, and those past the erasure of j.
BusyOn(j) == \E t \in Threads : th[t].pc # "idle" /\ Holds(t, j)
Deleting(j) ==
  \E t \in Threads : th[t].pc \in {"unlink", "archive"} /\ Holds(t, j)

Quiet(j) == ~BusyOn(j) /\ j \notin restore

Init ==
  /\ RegistryInit
  /\ SchedInit
  /\ th = [t \in Threads |-> Idle]
  /\ addLock = Free
  /\ attached = FALSE
  /\ restore = {}
  /\ reused = {} /\ missed = {} /\ orphans = {}
  /\ adds = 0 /\ crashes = 0

-----------------------------------------------------------------------------
(* Faults for the mutants of this module's helpers.                        *)

KeepDead(t) == FALSE
IdAsRequested(r) == r

\* if (job_copy.JobID == 0) job_copy.JobID = getNextJobID()
IdFor(r) == IF r = 0 THEN nextJobId ELSE r

\* findJob: the job has no running process left.
MustDelete(t) == th[t].id \notin alive

-----------------------------------------------------------------------------
(* addJob                                                                  *)

\* The public addJob; a request without a JobID gets a generated one.
AddJob(t) ==
  /\ t \in Clients
  /\ th[t].pc = "idle"
  /\ adds < MaxAdds
  /\ adds' = adds + 1
  /\ \E r \in RequestIds :
       /\ r = 0 => nextJobId \in JobIds
       /\ th' = [th EXCEPT ![t] =
                   [Idle EXCEPT !.pc = "emplace", !.id = IdFor(r)]]
       /\ IF r = 0 THEN GetNextJobID ELSE UNCHANGED <<nextJobId, counter>>
  /\ UNCHANGED <<jobs, alive, db, history, schedVars, addLock, attached,
                 restore, crashes, historyVars>>

\* There may be a duplicate: a job of that JobID, or, for a Condor or Slurm job,
\* one with the same id of that scheduler under another JobID.
Refusable(t) == jobs # {}

\* A job's processes run when it is inserted.  Nothing makes an addition wait
\* for a deletion of the same id that is past its erasure.
EmplaceJob(t) ==
  /\ th[t].pc = "emplace"
  /\ \/ /\ Refusable(t)
        /\ th' = [th EXCEPT ![t] = Idle]
        /\ orphans' = IF t = Main /\ th[t].id \notin jobs
                      THEN orphans \cup {th[t].id} ELSE orphans
        /\ UNCHANGED <<jobs, alive, reused, missed>>
     \/ /\ th[t].id \notin jobs
        /\ Emplace(th[t].id)
        /\ alive' = IF t = Main THEN alive ELSE alive \cup {th[t].id}
        /\ Goto(t, "copy")
        /\ reused' = IF Deleting(th[t].id) THEN reused \cup {th[t].id}
                                           ELSE reused \ {th[t].id}
        /\ missed' = missed \ {th[t].id}
        /\ orphans' = orphans \ {th[t].id}
  /\ UNCHANGED <<db, history, nextJobId, counter, schedVars, addLock, bookVars>>

\* Copy the job for the callbacks; somebody may have deleted it already.
CopyJob(t) ==
  /\ th[t].pc = "copy"
  /\ IF th[t].id \in jobs
     THEN Loop(t, "link")
     ELSE th' = [th EXCEPT ![t] = Idle]
  /\ UNCHANGED <<registryVars, alive, schedVars, addLock, bookVars, historyVars>>

\* The callbacks of an addition or a deletion while cbs_ is still empty: none.
NoCallback(t) ==
  /\ th[t].pc \in {"link", "unlink"}
  /\ ~attached
  /\ IF th[t].pc = "link"
     THEN Goto(t, "persist") /\ missed' = missed \cup {th[t].id}
     ELSE Goto(t, "archive") /\ UNCHANGED missed
  /\ UNCHANGED <<registryVars, alive, schedVars, addLock, bookVars,
                 reused, orphans>>

\* One collector of addJobCollect, which holds m_ from the first to the last.
LinkJob(t) ==
  /\ th[t].pc = "link"
  /\ attached
  /\ addLock \in {t, Free}
  /\ \E c \in th[t].todo :
       LET last == th[t].todo = {c}
       IN  /\ AddJob2Collector(th[t].id, c)
           /\ th' = [th EXCEPT ![t].todo = @ \ {c},
                               ![t].pc = IF last THEN "persist" ELSE "link"]
           /\ addLock' = IF last THEN Free ELSE t
  /\ UNCHANGED <<registryVars, alive, bookVars, historyVars>>

PersistJob(t) ==
  /\ th[t].pc = "persist"
  /\ Persist(th[t].id)
  /\ th' = [th EXCEPT ![t] = Idle]
  /\ UNCHANGED <<jobs, history, nextJobId, counter, alive, schedVars, addLock,
                 bookVars, historyVars>>

-----------------------------------------------------------------------------
(* findJob and delJob                                                      *)

\* RPC get_job (want = FALSE) or remove by JobID (want = TRUE).
QueryJob(t) ==
  /\ t \in Clients
  /\ th[t].pc = "idle"
  /\ \E j \in jobs, w \in BOOLEAN :
       th' = [th EXCEPT ![t] =
                [Idle EXCEPT !.pc = "lookup", !.id = j, !.want = w]]
  /\ UNCHANGED <<registryVars, alive, schedVars, addLock, bookVars, historyVars>>

\* RPC remove by matcher: erase every matching job, without a lookup.
DeleteByMatcher(t) ==
  /\ t \in Clients
  /\ th[t].pc = "idle"
  /\ \E S \in SUBSET jobs : \E j \in S :
       /\ th' = [th EXCEPT ![t] = [Idle EXCEPT !.pc = "unlink", !.id = j,
                                     !.todo = Collectors, !.rest = S \ {j}]]
       /\ jobs' = jobs \ S
  /\ UNCHANGED <<db, history, nextJobId, counter, alive, schedVars, addLock,
                 bookVars, historyVars>>

\* findJob under mtx_: refresh the PIDs (update_job_info rewrites the record
\* when children changed) and find out whether the job has ended.
FindJob(t) ==
  /\ th[t].pc = "lookup"
  /\ IF th[t].id \notin jobs
     THEN Return(t) /\ UNCHANGED db
     ELSE /\ db' \in {db, db \cup {th[t].id}}
          /\ IF MustDelete(t) \/ th[t].want
             THEN Goto(t, "erase")
             ELSE Return(t)
  /\ UNCHANGED <<jobs, history, nextJobId, counter, alive, schedVars, addLock,
                 bookVars, historyVars>>

\* delJob, its critical section.
DelJob(t) ==
  /\ th[t].pc = "erase"
  /\ IF th[t].id \in jobs
     THEN EraseJob(th[t].id) /\ Loop(t, "unlink")
     ELSE Return(t) /\ UNCHANGED jobs
  /\ UNCHANGED <<db, history, nextJobId, counter, alive, schedVars, addLock,
                 bookVars, historyVars>>

\* One collector of rmJobCollect, which does not take m_.
UnlinkJob(t) ==
  /\ th[t].pc = "unlink"
  /\ attached
  /\ \E c \in th[t].todo :
       /\ RmJobFromCollector(th[t].id, c)
       /\ th' = [th EXCEPT ![t].todo = @ \ {c},
                           ![t].pc = IF th[t].todo = {c}
                                     THEN "archive" ELSE "unlink"]
  /\ UNCHANGED <<registryVars, alive, addLock, bookVars, historyVars>>

ArchiveJob(t) ==
  /\ th[t].pc = "archive"
  /\ Archive(th[t].id)
  /\ Return(t)
  /\ UNCHANGED <<jobs, nextJobId, counter, alive, schedVars, addLock, bookVars,
                 historyVars>>

-----------------------------------------------------------------------------
(* The timer callback of a collector.                                      *)

\* Stop an idle collector, or take a snapshot of its jobs.
Tick(c) ==
  /\ timers[c] > 0
  /\ th[c].pc = "idle"
  /\ \/ /\ IsIdle(c)
        /\ StopCollector(c)
        /\ UNCHANGED th
     \/ /\ ~IsIdle(c)
        /\ \E j \in jobList[c] :
             th' = [th EXCEPT ![c] = [Idle EXCEPT !.pc = "lookup", !.id = j,
                                                  !.rest = jobList[c]]]
        /\ UNCHANGED schedVars
  /\ UNCHANGED <<registryVars, alive, addLock, bookVars, historyVars>>

\* After the lookup, under the collector's m_: leave if it was stopped,
\* collect and write if there is a job, and go on with the next one.
Collect(c) ==
  /\ th[c].pc = "collect"
  /\ LET left == th[c].rest \ {th[c].id}
     IN  IF ~running[c] \/ left = {}
         THEN th' = [th EXCEPT ![c] = Idle]
         ELSE \E j \in left :
                th' = [th EXCEPT ![c] = [Idle EXCEPT !.pc = "lookup", !.id = j,
                                                     !.rest = left]]
  /\ UNCHANGED <<registryVars, alive, schedVars, addLock, bookVars, historyVars>>

-----------------------------------------------------------------------------
(* Start-up, and the environment.                                          *)

\* CollectorScheduler's constructor registers its callback.
AddLifecycleCb ==
  /\ ~attached
  /\ attached' = TRUE
  /\ UNCHANGED <<registryVars, alive, schedVars, th, addLock, restore, adds,
                 crashes, historyVars>>

RestoreFromDb ==   \* a fault for a mutant: addJob(job, true), no callbacks
  /\ attached
  /\ \E j \in restore : Emplace(j) /\ restore' = restore \ {j}
  /\ UNCHANGED <<db, history, nextJobId, counter, alive, schedVars, th, addLock,
                 attached, adds, crashes, historyVars>>

\* ... and addLifecycleCb adds the restored jobs one after the other.
RestoreNext ==
  /\ attached
  /\ th[Main].pc = "idle"
  /\ \E j \in restore :
       /\ th' = [th EXCEPT ![Main] = [Idle EXCEPT !.pc = "emplace", !.id = j]]
       /\ restore' = restore \ {j}
  /\ UNCHANGED <<registryVars, alive, schedVars, addLock, attached, adds,
                 crashes, historyVars>>

\* All processes of a job end.
ProcessesExit ==
  /\ \E j \in alive : alive' = alive \ {j}
  /\ UNCHANGED <<registryVars, schedVars, th, addLock, bookVars, historyVars>>

\* The daemon dies at any point and starts again: JobRegistry's constructor
\* reads the records and sets the counter.
CrashRestart ==
  /\ crashes < MaxCrashes
  /\ crashes' = crashes + 1
  /\ jobs' = {}
  /\ restore' = db
  /\ nextJobId' = RestoredCounter
  /\ counter' = RestoredCounter
  /\ jobList' = [c \in Collectors |-> {}]
  /\ running' = [c \in Collectors |-> FALSE]
  /\ timers' = [c \in Collectors |-> 0]
  /\ handle' = [c \in Collectors |-> "down"]
  /\ th' = [t \in Threads |-> Idle]
  /\ addLock' = Free
  /\ attached' = FALSE
  /\ reused' = {} /\ missed' = {} /\ orphans' = {}
  /\ UNCHANGED <<alive, db, history, adds>>

-----------------------------------------------------------------------------
InCall(t) ==
  \/ EmplaceJob(t) \/ CopyJob(t) \/ LinkJob(t) \/ PersistJob(t) \/ NoCallback(t)
  \/ FindJob(t) \/ DelJob(t) \/ UnlinkJob(t) \/ ArchiveJob(t)

Callback(c) == Tick(c) \/ InCall(c) \/ Collect(c)

Next ==
  \/ \E t \in Clients : AddJob(t) \/ QueryJob(t) \/ DeleteByMatcher(t)
  \/ \E t \in Clients \cup {Main} : InCall(t)
  \/ \E c \in Collectors : Callback(c)
  \/ AddLifecycleCb
  \/ RestoreNext
  \/ ProcessesExit
  \/ CrashRestart

Spec == Init /\ [][Next]_vars

\* Calls in progress go on, timers fire, and start-up completes.  A thread
\* waiting for m_ gets it sooner or later.
FairSpec ==
  /\ Spec
  /\ \A t \in Clients \cup {Main} : SF_vars(InCall(t))
  /\ \A c \in Collectors : WF_vars(Callback(c))
  /\ WF_vars(AddLifecycleCb)
  /\ WF_vars(RestoreNext)

-----------------------------------------------------------------------------
(* Properties                                                              *)

\* Types; a thread's job is a job, and only the loop's holder holds m_.
TypeOK ==
  /\ RegistryTypeOK
  /\ SchedTypeOK
  /\ jobList \in [Collectors -> SUBSET JobIds]
  /\ th \in [Threads -> Thread]
  /\ \A t \in Threads : th[t].pc # "idle" => th[t].id \in JobIds
  /\ addLock # Free => th[addLock].pc = "link"
  /\ restore \subseteq JobIds
  /\ reused \cup missed \cup orphans \subseteq JobIds

\* A collector has one timer while it runs and none otherwise, and it runs
\* exactly while its last start succeeded: however adds, deletes and callbacks
\* interleave, an instance with a timer is deinitialised before it is
\* initialised again.  (One whose timer was refused is not: see "refused".)
TimerMatchesRunning ==
  \A c \in Collectors :
    /\ timers[c] = IF running[c] THEN 1 ELSE 0
    /\ running[c] <=> handle[c] = "up"

\* A registered job nobody is working on is in the list of each of its
\* collectors, and that collector runs unless its start failed.  Excepted are
\* exactly the jobs added while a deletion of their id was still cleaning up,
\* and those added before addLifecycleCb: nothing links them afterwards.
JobMonitored ==
  \A j \in jobs \ (reused \cup missed), c \in Collectors :
    ~BusyOn(j) => /\ j \in jobList[c]
                  /\ running[c] \/ handle[c] \in {"failed", "refused"}

\* The records agree with the table once the calls on a job are over, so the
\* next restart restores exactly the registered jobs.  (A crash ends the calls
\* in progress: a delete it cuts short has not happened.)  Two exceptions: a
\* deletion takes the record of a job added under its id meanwhile, and a
\* restored Condor or Slurm job leaves its record behind when it is refused
\* because a watcher has added it under another id first.
RecordsMatchJobs ==
  \A j \in JobIds :
    Quiet(j) => /\ (j \in db \ orphans => j \in jobs)
                /\ (j \in jobs \ reused => j \in db)

\* A job whose processes have ended is removed, although nobody deletes it,
\* if a running collector has it: that collector's callback finds out.  (A
\* deletion of an earlier job of that id may still take it from the list.)
EndedJobRemoved ==
  \A j \in JobIds, c \in Collectors :
    (j \in jobs \ alive /\ running[c] /\ j \in jobList[c] /\ ~Deleting(j))
      ~> j \notin jobs

\* collector_scheduler.cpp's callback counts on the registry to have cleaned
\* the list: with no call in progress, no collector holds a job that is gone.
ListsCleaned ==
  (\A t \in Threads : th[t].pc = "idle") /\ restore = {} =>
    \A c \in Collectors : jobList[c] \subseteq jobs

\* "next globally unique increasing JobID": a generated id is not the id of a
\* registered job.
GeneratedIdUnique ==
  [][nextJobId' = nextJobId + 1 /\ crashes' = crashes
       => nextJobId \notin jobs]_vars
=============================================================================
