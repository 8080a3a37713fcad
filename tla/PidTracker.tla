------------------------------ MODULE PidTracker ------------------------------
(***************************************************************************)
(* Which job a process belongs to, held twice: in the kernel map pid2job,  *)
(* which the fork and exit hooks of job_pid_track.bpf.c and the writes of  *)
(* job_registry.cpp change, and in the JobPIDs of the registered jobs,     *)
(* which follow the hooks through a ring buffer that drops when it is full.*)
(*                                                                         *)
(* A step is one hook, one map write, or one critical section of the       *)
(* registry's mutex.  A hook is one step: nobody else writes the entry of  *)
(* a process that is being forked, and whoever writes that of one that is  *)
(* exiting may as well do so before.  A PID is used once, and an exit is   *)
(* reaped at once.  Threads of a process, cgroup2job (written and cleaned  *)
(* beside pid2job) and the map write that fails are left out; jobs are of  *)
(* subtype Common.                                                         *)
(***************************************************************************)
EXTENDS Naturals, Sequences

CONSTANTS
  Pids,           \* process numbers
  Jobs,           \* JobIDs, each of which is added at most once
  Rescan,         \* jobs with auto_update_child
  None,           \* no process, or no job
  RingSize,       \* events job_event_rb has room for
  MaxEvictions    \* bound: entries the kernel throws out of the LRU map

ASSUME PidAssumption ==
  /\ Rescan \subseteq Jobs
  /\ None \notin Pids \cup Jobs
  /\ RingSize \in Nat /\ MaxEvictions \in Nat

VARIABLES
  proc,       \* each process: "unborn", "live" or "dead"
  parent,     \* its parent, None once that has exited
  owner,      \* history: the job it was started for, itself or an ancestor
  pid2job,    \* the kernel map, None where it has no entry
  ring,       \* job_event_rb
  dropped,    \* history: an event was dropped
  evicted,    \* bound: evictions so far
  fresh,      \* bound: JobIDs not added yet
  jobs,       \* keys of JobRegistry::jobs_
  jobPids,    \* Job.JobPIDs
  th          \* what the threads that write the map are doing

procVars == <<proc, parent, owner>>
ringVars == <<ring, dropped>>
jobVars == <<fresh, jobs, jobPids>>
vars == <<procVars, pid2job, ringVars, evicted, jobVars, th>>

\* A client (addJob, delJob), the collectors' callbacks (findJob), and the
\* reconcile thread.  todo: map entries still to be written or deleted.
Threads == {"client", "callback", "reconcile"}
ThreadState == [pc : {"idle", "copy", "erase", "write", "delete"},
                job : Jobs \cup {None}, todo : SUBSET (Jobs \X Pids)]
Idle == [pc |-> "idle", job |-> None, todo |-> {}]

Live == {p \in Pids : proc[p] = "live"}

-----------------------------------------------------------------------------
(* Faults for the mutants.                                                 *)

NeverFull == FALSE
ForkedParent(p, c) == p
KeepsDead(S) == S

-----------------------------------------------------------------------------
(* Helpers.                                                                *)

\* bpf_ringbuf_reserve fails.
Full == Len(ring) >= RingSize

Push(type, p, j) ==
  IF Full
  THEN dropped' = TRUE /\ ring' = ring
  ELSE /\ ring' = Append(ring, [type |-> type, pid |-> p, job |-> j])
       /\ UNCHANGED dropped

\* The process a fork event is about.
Forked(p, c) == c

\* Processes reached from S by way of /proc's children: collect_process_tree.
Closed(C) == \A c \in Live : parent[c] \in C => c \in C
Tree(S) ==
  {p \in Pids : \A C \in SUBSET Pids : S \subseteq C /\ Closed(C) => p \in C}

\* is_process_running filters JobPIDs.
Running(S) == S \cap Live

\* The lists of the jobs as map entries: what a reconcile pass writes.
Entries == {e \in Jobs \X Pids : e[1] \in jobs /\ e[2] \in jobPids[e[1]]}

Init ==
  /\ proc = [p \in Pids |-> "unborn"]
  /\ parent = [p \in Pids |-> None]
  /\ owner = [p \in Pids |-> None]
  /\ pid2job = [p \in Pids |-> None]
  /\ ring = <<>> /\ dropped = FALSE
  /\ evicted = 0 /\ fresh = Jobs
  /\ jobs = {} /\ jobPids = [j \in Jobs |-> {}]
  /\ th = [t \in Threads |-> Idle]

-----------------------------------------------------------------------------
(* Processes, and the hooks that see them.                                 *)

\* A process nobody tracks starts (its parent belongs to no job).
Spawn(p) ==
  /\ proc[p] = "unborn"
  /\ proc' = [proc EXCEPT ![p] = "live"]
  /\ UNCHANGED <<parent, owner, pid2job, ringVars, evicted, jobVars, th>>

\* on_sched_process_fork: the child inherits its parent's entry.
Fork(p, c) ==
  /\ p \in Live
  /\ proc[c] = "unborn"
  /\ proc' = [proc EXCEPT ![c] = "live"]
  /\ parent' = [parent EXCEPT ![c] = p]
  /\ owner' = [owner EXCEPT ![c] = owner[p]]
  /\ IF pid2job[p] = None
     THEN UNCHANGED <<pid2job, ringVars>>
     ELSE /\ pid2job' = [pid2job EXCEPT ![c] = pid2job[p]]
          /\ Push("FORK", Forked(p, c), pid2job[p])
  /\ UNCHANGED <<evicted, jobVars, th>>

\* on_sched_process_exit.  Orphans go to another parent.
Exit(p) ==
  /\ p \in Live
  /\ proc' = [proc EXCEPT ![p] = "dead"]
  /\ parent' = [c \in Pids |-> IF parent[c] = p THEN None ELSE parent[c]]
  /\ IF pid2job[p] = None
     THEN UNCHANGED <<pid2job, ringVars>>
     ELSE /\ pid2job' = [pid2job EXCEPT ![p] = None]
          /\ Push("EXIT", p, pid2job[p])
  /\ UNCHANGED <<owner, evicted, jobVars, th>>

\* The LRU map throws an entry out.
Evict(p) ==
  /\ evicted < MaxEvictions
  /\ pid2job[p] # None
  /\ pid2job' = [pid2job EXCEPT ![p] = None]
  /\ evicted' = evicted + 1
  /\ UNCHANGED <<procVars, ringVars, jobVars, th>>

-----------------------------------------------------------------------------
(* The poll thread: on_kernel_fork and on_kernel_exit, under mtx_.         *)

Poll ==
  /\ ring # <<>>
  /\ ring' = Tail(ring)
  /\ LET e == Head(ring)
     IN  jobPids' =
           IF e.job \notin jobs THEN jobPids
           ELSE [jobPids EXCEPT ![e.job] =
                   IF e.type = "FORK" THEN @ \cup {e.pid} ELSE @ \ {e.pid}]
  /\ UNCHANGED <<procVars, pid2job, dropped, evicted, fresh, jobs, th>>

-----------------------------------------------------------------------------
(* The registry.                                                           *)

\* addJob inserts a job whose request names one process.  Clients do not
\* claim a process of a job that is registered.
AddJob(j, p) ==
  /\ th["client"].pc = "idle"
  /\ j \in fresh
  /\ p \in Live
  /\ \A q \in Tree({p}) \cup {parent[p]} :
       q \in Pids => owner[q] \notin jobs
  /\ fresh' = fresh \ {j}
  /\ jobs' = jobs \cup {j}
  /\ jobPids' = [jobPids EXCEPT ![j] = {p}]
  /\ owner' = [q \in Pids |-> IF q \in Tree({p}) THEN j ELSE owner[q]]
  /\ th' = [th EXCEPT !["client"] = [Idle EXCEPT !.pc = "copy", !.job = j]]
  /\ UNCHANGED <<proc, parent, pid2job, ringVars, evicted>>

\* job_for_cb, the copy that sync_job_to_kernel works on after the callbacks.
CopyJob ==
  LET j == th["client"].job
  IN  /\ th["client"].pc = "copy"
      /\ th' = [th EXCEPT !["client"] =
                  IF j \in jobs
                  THEN [pc |-> "write", job |-> j, todo |-> {j} \X jobPids[j]]
                  ELSE Idle]
      /\ UNCHANGED <<procVars, pid2job, ringVars, evicted, jobVars>>

\* A client asks for a removal: delJob's critical section.
RemoveJob(j) ==
  /\ th["client"].pc = "idle"
  /\ j \in jobs
  /\ jobs' = jobs \ {j}
  /\ jobPids' = [jobPids EXCEPT ![j] = {}]
  /\ th' = [th EXCEPT !["client"] =
              [pc |-> "delete", job |-> j, todo |-> {j} \X jobPids[j]]]
  /\ UNCHANGED <<procVars, pid2job, ringVars, evicted, fresh>>

\* findJob: rescan the children if the job asks for it, drop the processes
\* that ended; a job without any is to be deleted.
FindJob(j) ==
  /\ th["callback"].pc = "idle"
  /\ j \in jobs
  /\ LET found == IF j \in Rescan THEN Tree(jobPids[j]) ELSE jobPids[j]
         left == Running(found)
     IN  /\ jobPids' = [jobPids EXCEPT ![j] = left]
         /\ th' = IF left = {}
                  THEN [th EXCEPT !["callback"] =
                          [Idle EXCEPT !.pc = "erase", !.job = j]]
                  ELSE th
  /\ UNCHANGED <<procVars, pid2job, ringVars, evicted, fresh, jobs>>

\* ... by delJob, in a critical section of its own.
DelJob ==
  LET j == th["callback"].job
  IN  /\ th["callback"].pc = "erase"
      /\ IF j \in jobs
         THEN /\ jobs' = jobs \ {j}
              /\ jobPids' = [jobPids EXCEPT ![j] = {}]
              /\ th' = [th EXCEPT !["callback"] =
                          [pc |-> "delete", job |-> j,
                           todo |-> {j} \X jobPids[j]]]
         ELSE /\ th' = [th EXCEPT !["callback"] = Idle]
              /\ UNCHANGED <<jobs, jobPids>>
      /\ UNCHANGED <<procVars, pid2job, ringVars, evicted, fresh>>

\* A reconcile pass begins with a snapshot of all jobs.
Reconcile ==
  /\ th["reconcile"].pc = "idle"
  /\ th' = [th EXCEPT !["reconcile"] =
              [pc |-> "write", job |-> None, todo |-> Entries]]
  /\ UNCHANGED <<procVars, pid2job, ringVars, evicted, jobVars>>

\* sync_job_to_kernel ("write") and remove_job_from_kernel ("delete"), one
\* map entry at a time.
WriteEntry(t) ==
  /\ th[t].pc \in {"write", "delete"}
  /\ IF th[t].todo = {}
     THEN th' = [th EXCEPT ![t] = Idle] /\ UNCHANGED pid2job
     ELSE \E e \in th[t].todo :
            /\ pid2job' = [pid2job EXCEPT
                             ![e[2]] = IF th[t].pc = "write"
                                       THEN e[1] ELSE None]
            /\ th' = [th EXCEPT ![t].todo = @ \ {e}]
  /\ UNCHANGED <<procVars, ringVars, evicted, jobVars>>

-----------------------------------------------------------------------------
Callback == (\E j \in Jobs : FindJob(j)) \/ DelJob \/ WriteEntry("callback")

Next ==
  \/ \E p \in Pids : Spawn(p) \/ Exit(p) \/ Evict(p)
  \/ \E p, c \in Pids : Fork(p, c)
  \/ Poll
  \/ \E j \in Jobs, p \in Pids : AddJob(j, p)
  \/ CopyJob
  \/ \E j \in Jobs : RemoveJob(j)
  \/ Callback
  \/ Reconcile
  \/ \E t \in Threads : WriteEntry(t)

Spec == Init /\ [][Next]_vars

\* The poll, callback and reconcile threads run for ever, and calls in
\* progress go on.  Nobody has to start or end a process, or add a job.
FairSpec ==
  /\ Spec
  /\ WF_vars(Poll)
  /\ WF_vars(CopyJob)
  /\ \A j \in Jobs : SF_vars(FindJob(j))
  /\ WF_vars(DelJob)
  /\ WF_vars(Reconcile)
  /\ \A t \in Threads : WF_vars(WriteEntry(t))

-----------------------------------------------------------------------------
(* Properties                                                              *)

\* Types; the ring holds no more than it has room for.
TypeOK ==
  /\ proc \in [Pids -> {"unborn", "live", "dead"}]
  /\ parent \in [Pids -> Pids \cup {None}]
  /\ owner \in [Pids -> Jobs \cup {None}]
  /\ pid2job \in [Pids -> Jobs \cup {None}]
  /\ ring \in Seq([type : {"FORK", "EXIT"}, pid : Pids, job : Jobs])
  /\ Len(ring) <= RingSize
  /\ dropped \in BOOLEAN /\ evicted \in 0 .. MaxEvictions
  /\ fresh \subseteq Jobs /\ jobs \subseteq Jobs
  /\ jobPids \in [Jobs -> SUBSET Pids]
  /\ th \in [Threads -> ThreadState]

\* As long as no event is dropped, user space knows every running process the
\* kernel attributes to a registered job, apart from events on their way.
NothingMissed ==
  ~dropped /\ ring = <<>> =>
    \A j \in jobs, p \in Live : pid2job[p] = j => p \in jobPids[j]

\* Once processes and clients leave them alone, the lists hold no process that
\* ended and the kernel has every entry of every list, whatever events were
\* dropped, entries evicted, or stale snapshots written meanwhile.
Converges ==
  <>[](\A j \in jobs : \A p \in jobPids[j] : p \in Live /\ pid2job[p] = j)

\* The reconcile loop "corrects the drift that lost events cause": in the end
\* the lists hold every running process the kernel attributes to their job.
DriftCorrected ==
  <>[](\A j \in jobs, p \in Live : pid2job[p] = j => p \in jobPids[j])
=============================================================================
