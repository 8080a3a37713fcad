# JobLens in TLA+

JobLens is a per-node daemon (C++ with eBPF) that watches the jobs of HTCondor
and Slurm (or jobs named by a client), samples their processes with collectors
on timers, and hands the samples to writers (Elasticsearch, files, Kafka,
Prometheus). Beside it runs *trigger* (Python), which keeps the daemon's
configuration and rules in step with etcd. This directory models the parts of
it whose correctness depends on the order of events, checks the models with TLC
and proves the safety of the core with TLAPS.

Paths below are relative to the repository's root.

## 1. Inventory

| Component | State | Operations | Interacts with |
|---|---|---|---|
| Timer scheduler, `src/common/timer_scheduler.cpp` | `timers`, `deadlines` (by time), `ready` queue, per-timer phase, `stopped`; one scheduler thread, n workers, one mutex, two condition variables | registerTimer, registerRepeatingTimer, cancelTimer, shutdown, schedulerLoop, workerLoop | runs the collectors' callbacks; callbacks may cancel their own timer |
| Collector scheduler, `src/core/collector_scheduler.cpp` | per collector: `jobid_list`, `running`, `task_id`, the initialised instance; `m_` and one mutex per collector | addJobCollect, rmJobCollect, startCollector, the timer callback, shutdown | called by the registry's lifecycle callback; calls the registry (findJob) and the writers |
| Job registry, `src/core/job_registry.cpp` | `jobs_`, `cbs_`, `restore_jobs_`, `next_job_id_`, LevelDB records `j:`, `h:`, `c:` | addJob, findJob (which deletes ended jobs), delJob by id or matcher, restore, reconcile | RPC thread, job watchers, callbacks, kernel maps |
| Job PID tracker, `src/ebpf/job_pid_track.bpf.c`, `include/core/job_pid_tracker.hpp` | kernel maps `pid2job`, `cgroup2job`, a ring buffer | fork and exit hooks, poll thread, map writes | registry (JobPIDs) |
| Writer base, `src/writer/base_writer.cpp` | `front_`, `back_`, `need_flush_`, `stop_`, flush thread | enqueue, flush_worker, shutdown | collectors produce, derived writers flush |
| Derived writers: `es_writer*.cpp`, `file_writer.cpp`, `kafka_writer.cpp`, `prometheus_exporter_writer.cpp` | retry list; streams and rotated files; producer queue; metric table | flush_impl, on_flush_error, do_shutdown | the outside world |
| Collector runtime, `src/core/collector_runtime.cpp` | per collector: phase, failed, counters | begin and end of an operation | status RPC |
| Local RPC, `src/common/local_rpc.cpp`; main, `src/main.cpp` | accept thread, method table; exit flag | start, serve, stop; signal, shutdown order | everything |
| Rule engine and watchers, `src/rule_engine/*`, `src/common/directory_watcher.cpp`, `streamer_watcher.cpp` | rule table, inotify watch map | load, update, remove, file events | job watchers ask it which collectors a job gets |
| Job watchers, `include/job_watcher/*` | poll threads on eBPF events | build a job and add it | registry |
| Collectors, `src/collector/*`; other eBPF programs | caches of earlier samples | init, collect, deinit | /proc, NVML, RAPL, netlink |
| trigger, `trigger/*` | local file, memory and etcd copies of configuration and rules; watch threads; lease | watch events, edits over HTTP, synchronisation, restart of the daemon | etcd, daemon (RPC) |

### What is hard, and what makes each part correct

* *Timer scheduler*: five kinds of thread steps meet on one mutex and two
  condition variables. At most one run of a timer at a time; a cancelled timer
  never starts again; no timer and no wake-up is lost; late ticks are skipped;
  shutdown returns with nothing left.
* *Registry and collector scheduler*: addJob and delJob drop the registry's
  lock before they call the scheduler, the scheduler locks one collector at a
  time, the callback that collects is itself a deleter, and the daemon may die
  between any two steps. A registered job is in all its collectors' lists, those
  run exactly one timer, records and table agree, lists hold no dead job.
* *Writers*: no record lost, doubled or reordered between collector and sink,
  however producers, flush thread and several shutdown callers interleave.
* *PID tracker*: kernel and user space hold copies of one relation, with a lossy
  channel between them.
* *ES retry*: one request fails for some of its documents, for good or not.
  Every document is settled once, sent a bounded number of times, and not again
  after it was settled; no request passes the byte limit, whose arithmetic is
  unsigned.
* *File rotation*: a cascade of renames in which any one may fail, or the process
  may die between two. The files always read in order, and confirmed records go
  oldest first, although sometimes sooner than they should.
* *trigger*: three copies of one value, changed by watches, edits and failures.
  When all is dealt with they agree, the daemon was restarted after the last
  change, and no empty configuration reaches the file.

`PROJECT.json` lists the hazards line by line, and the components with what is
and is not modelled.

## 2. Modules

| Module | Models | State and actions |
|---|---|---|
| `TimerScheduler` | `timer_scheduler.cpp` | variables as in `State` and `Timer`; a thread's place in its loop in `sched`, `wpc`, `shut`; one action per critical section. Waiting threads move only when notified, on time-out or spuriously, so a missing notify is visible |
| `RecordChannel` | nothing in the code: the abstract promise of a writer | Accept, Deliver (a batch), Close, Finish |
| `BaseWriter` | `base_writer.cpp` | double buffer, flags, and the places of producers (`ppc`), flush thread (`fpc`), shutdown callers (`spc`); `accepted` and `handed` are history |
| `JobRegistry` | state of the registry and the effect of each of its critical sections | `jobs`, `db`, `history`, `nextJobId`, `counter` |
| `CollectorScheduler` | per-collector state and the effect of each section under the collector's mutex | `jobList`, `running`, `timers`, `handle` |
| `JobLifecycle` | both together: threads that run these effects step by step | `th[t]` holds a thread's place in addJob, findJob or delJob, its job, the collectors its loop has left and the further jobs of a snapshot; plus crash, restart and restore |
| `PidTracker` | `job_pid_track.bpf.c`, `job_pid_tracker.hpp` and what `job_registry.cpp` does with them | `pid2job`, the ring buffer, `jobs`, `jobPids`; `th[t]` holds what a thread still has to write to the map. Actions: the fork and exit hooks, the poll thread, addJob and delJob up to their map writes, findJob, the reconcile pass, one map write at a time |
| `DocDelivery` | nothing in the code: what `doc/configuration.md` promises of documents | Accept (a batch), Settle (the store takes some, the writer learns the fate of some) |
| `EsBulk` | `es_writer.cpp`, `es_writer_retry.cpp` | the lists `todo`, `chunk` and `retry` with `bytes`, `ok` and the round; one action per turn of the loop over the documents, per request with its answer, and per end of a round. `fate`, `sends` and `stored` are history |
| `FileRotation` | `file_writer.cpp`, for one destination | `files` (0 is the active one), `present`, the stream, the temporary file, the place in flush_impl (`pc`, `step`); one action per remove, rename, open, write or close, each of which may fail, and a crash with a restart between any two. `confirmed`, `batches`, `blind` are history |
| `TriggerConfig` | `trigger/core/config_manager.py` and what it uses of `etcd_client.py` | `local`, `remote`, `raw`, `file`, the lock, the events on their way; places of start() (`boot`), the mode's thread (`mpc`), the configuration's workers (`wpc`), the file observer and HTTP request (`lpc`). `behind` and `fresh` are history |
| `JobSafetyProofs` | further theorems about `JobLifecycle`: types, records, monitoring, generated ids | |
| other `*Proofs` | theorems about the module they are named after | |

`JobLifecycle` EXTENDS the two modules it composes. Threads are the clients (RPC
thread, job watchers), one callback thread per collector, and main, which
restores. That one callback thread per collector is enough is what
`TimerScheduler` establishes (`AtMostOne`).

### Abstractions

* A record is its producer and its number; a job is its JobID and whether any of
  its processes runs; a timer callback is a start and an end.
* `jobid_list` is a set: the code never pushes an id twice.
* Every job names all collectors. Job 0, which only System-scope collectors
  have, is left out (planned).
* The registry's second duplicate check, by native Condor or Slurm id, may refuse
  any job while others are registered: a client's, and a restored one that a
  watcher has added again under another JobID.
* `startCollector` ends in one of `StartOutcomes`, chosen anew at each start: "up";
  "failed" (`init_handle` returns false or throws); "refused" (`init_handle` succeeds,
  then `registerRepeatingTimer` throws, because the interval rounds to zero or the
  timer scheduler was stopped; the catch leaves the instance initialised, without a
  timer). In the code a frequency that is refused once is refused always; the
  model allows more.
* A LevelDB call succeeds or kills the daemon; a call that fails is logged by the
  code and has no other effect.
* `PidTracker`: a hook is one step (nobody else writes the entry of a process
  that is being forked, and a write to one that is exiting commutes with the
  hook); a PID is used once; an exit is reaped at once; jobs are of subtype
  Common and start from one process; the collectors' callbacks are one thread.
  `Spawn` and `Evict` stand for the operating system (untracked processes, the
  LRU map). `owner` and `dropped` are history.
* `EsBulk`: documents are numbered in the order of their records, and every list of
  the code holds them in that order, so a list is a set. A size is one of a few
  numbers; index names, document texts and backoff times are left out. flush_impl
  and the rounds of on_flush_error are one loop: round 0 is the flush. What the
  server does with a request is external: any subset of the documents may be
  stored, with any answer that agrees with it, or with none.
* `FileRotation`: a file is the set of its records, which are numbered as they are
  flushed, and a record counts one byte. Records torn in the middle, stat calls
  that fail (but for file_size) and bytes a failed stream still holds are left out.
* `TriggerConfig`: a content is a usable configuration, no bytes, or bytes that
  parse to nothing. YAML that does not parse, reads of the mode that fail, stop()
  and the backup file are left out. stop_watch's join of 5 s outlasts the few
  assignments of a worker but neither a wait for the lock nor a restart of the
  daemon, so it ends in both ways.
* Not modelled in these modules: statistics, status reports and logs.

### Exceptions the properties name

Some jobs the code does lose track of. Nothing in the model keeps these cases
away; history variables of `JobLifecycle`, which no action reads, say which jobs they
have happened to, so that the properties hold for all the others:

* `reused`: a JobID was added again while a deletion of it was between its erasure
  and its end (`job_registry.cpp:564`). The deletion's loop takes the new job from the
  lists, and its last step takes the new job's record. A client cannot wait for a
  deletion that a callback has begun. `JobMonitored` excepts these jobs, and
  `RecordsMatchJobs` their records.
* `missed`: the addition came before `addLifecycleCb` and found no callback
  (`job_registry.cpp:542`, action `NoCallback`). The job is registered and persisted, and
  nobody collects for it until a restart. `JobMonitored` excepts these jobs.
* `orphans`: a restored job was refused because a watcher had added it under another
  JobID. Its record stays. `RecordsMatchJobs` excepts these records.

Each mark goes when the id is added again without the mishap. TLC reaches each case in
run `jobs`, and without any one of the exceptions it refutes the property. They are
recorded as hazards.

`TimerMatchesRunning` says that an instance with a timer is deinitialised before it is
initialised again. Of one whose timer was refused that is not true: the next
addJob2Collector initialises it a second time (`collector_scheduler.cpp:99`, `:173`).

In `PidTracker` no client claims a process that belongs to a registered job.

`RestoredToEtcd` of `TriggerConfig` speaks of the times when every event has been
dealt with, and leaves out what the code does not undo: a save that failed, or
that wrote an `etcd_raw_content` another thread had just replaced (`behind`); an
edit of the file while etcd has no usable configuration; and what changes before
the watches are there, because start() reads etcd again after them without
comparing.

## 3. Runs

| Run | Configuration | What it shows |
|---|---|---|
| `timer` | 2 workers, 2 timers, intervals 0 and 1, clock to 2 | all safety properties, the action property `NoBurst`, and liveness: due timers run, shutdown returns |
| `writer` | 2 producers of 2 records, 2 shutdown callers | exactly once, in order, no lost wake-up, stable batch, and that the double buffer implements `RecordChannel` with its liveness |
| `jobs` | 2 JobIDs, generated or chosen, 1 collector, 2 clients, 2 adds, 1 crash, all start outcomes | timers match running collectors, registered jobs are monitored, records match the table, but for the exceptions above |
| `job_pairs` | 2 JobIDs, 2 collectors, 1 client, 2 adds | two jobs do not disturb each other; ended jobs are removed |
| `job_lists` (violation) | 1 JobID, 2 collectors, 2 clients, 2 adds, 1 crash | `ListsCleaned` fails: a delete between insertion and registration leaves a dead id in a list |
| `pids` | 2 processes, 2 jobs (one rescans its children), ring of 2 events, 1 eviction | nothing is missed while no event is dropped; lists and kernel map converge after any drop, eviction or late write |
| `pid_drift` (violation) | 3 processes, 1 job, ring of 1 event | `DriftCorrected` fails: a dropped FORK is never made good, although the reconcile loop is there to correct such drift |
| `es_bulk` | 3 documents, sizes 0 (cannot be built), 2 and 5 with a limit of 4, 2 retry rounds, a word of 16 | each document is settled once, within its number of requests and the byte limit, and the bulk loop implements `DocDelivery` with its liveness |
| `file_rotation` | 3 rotated files of 2 records, batches of up to 3, 7 records, 1 restart | the files read in order, confirmed records go oldest first, limits hold, overwrite mode leaves whole batches, whatever call fails |
| `file_age` (violation) | 3 rotated files of 2 records, batches of up to 2, 8 records, no restart | `OldestKeptUntilFull` fails: renames of the active file that fail cost confirmed records while fewer than `max_files` rotated files exist |
| `trigger_config` | 2 modes, 2 configurations, empty and blank contents, 2 puts, 1 edit | the copies agree and the daemon was restarted when all is dealt with; the lock is released, but for one case |
| `config_empty` (violation) | as `trigger_config`, without edits | `NoEmptyLanding` fails: the test for an empty configuration is made without the lock, and its subject is read again |

Bounds. Two workers make overlapping callbacks, contended wake-ups and a busy
and an idle worker possible; two timers give earliest-deadline changes; a clock
of two ticks lets a repeating timer be late by more than its interval. Two
records and two producers fill the front buffer during a flush and again during
the next. In `jobs` two clients and a callback reach every pair of conflicting calls
on one job, an addition during a deletion among them, and a second JobID lets a
restored job be refused for another one (1.15 million states). `job_pairs` adds what
needs two collectors, and the liveness (290 000 states). One crash is
enough because a restart discards all volatile state. In `pids` a process that
forks, a child, a job that is deleted and one that is added meanwhile meet; the
ring of two overflows when one more event comes (an exit after a fork and an exit).
`pid_drift` needs a third process for the event that is dropped. In `es_bulk` two
short documents share a request and a third does not fit any more, a long one is
refused, and two rounds tell the last one from the others; a word of 16 is small
enough for a difference below zero to show. Seven records fill the active file
and three rotated ones, so that the oldest one goes. Two puts change the mode and
then its configuration, or a configuration twice; the mode at the start is fixed
because modes are alike. Adds, crashes and the
clock are bounded, and threads end after shutdown, so the runs do not check for
deadlock: the progress properties stand for it.

One run each of `JobLifecycle`, `PidTracker`, `FileRotation` and `TriggerConfig` is refuted on
purpose; the findings in `PROJECT.json` quote the comment or the document they contradict.

Fairness. Threads are scheduled (weak fairness per thread), callbacks and sink
calls return, and the clock advances. Nobody has to add, delete, cancel or shut
down. Client threads get strong fairness in `JobLifecycle`, because they compete
for `m_` with each other: a mutex that is released again and again is obtained
in the end. In `PidTracker` the poll and reconcile threads run for ever (the poll
thread's end on an error of `ring_buffer__poll` is left out), and a collector's
callback looks every registered job up again and again (strong fairness: it is
not always free when the job is there). In `EsBulk` the flush thread runs and a
request returns, at the latest by CURLOPT_TIMEOUT. In `TriggerConfig` every
thread of the manager runs (weak fairness, which is enough for the lock
too: there are few events, so it is taken only a bounded number of times); nobody
has to edit, to write to etcd or to send a request. No property depends on a spurious wake-up.

What the runs showed beside their properties:

* A mode switch that meets a configuration unlike the local one calls
  `_sync_local_with_remote` with the lock held (`config_manager.py:171`), which
  takes the lock again (line 102). The lock is not reentrant: the thread waits
  for itself, and everybody else for it. `LockReleased` excepts this one place
  (`mpc = "stuck"`) and shows that there is no other.
* While the active file cannot be renamed, each flush shifts the rotated files
  once more, until none is left (`file_writer.cpp:200-260`). Records still go oldest
  first (`ConfirmedKept`), but sooner than `doc/configuration.md:392` says, which has the
  oldest file deleted when there are more than `max_files`: run `file_age`.
* A JobID that a client chose does not advance the counter, so a generated id can be
  that of a registered job (`job_registry.cpp:493`): with `RequestIds = {0, 1}` TLC refutes
  `GeneratedIdUnique`. No run repeats this; section 4 says what is proved.
* When the stream of the default path cannot be opened again after a rotation, no
  later flush tries to (`file_writer.cpp:480-493`); those of other paths do (496-503).

Every property of a passing run has a mutant: a slip in one mapped definition
(kept beside it under "Faults") that makes TLC find the property violated.

## 4. Proofs

All proofs hold for every value of the constants that meets the modules' named
assumptions (a finite non-empty set of workers, natural bounds, intervals in
Nat, `StartOutcomes` a non-empty set of the three outcomes, a byte limit below the word, thread
names distinct, so that no thread is client, callback and main at once).

* `TimerSchedulerProofs`: `IInv` says where each timer is: its phase is
  "queued" exactly if it is at one place of `ready`, "running" exactly if one
  worker has it, and its deadline, if any, is `<<next, id>>`, which is why
  cancelTimer's `deadlines.erase({next, id})` removes it. `AtMostOne` alone is not
  inductive: it needs that link from phase to place. From it follow `TypeOK`,
  `AtMostOne`, `CancelledNeverQueued`, `NoTimerLost`, `NeverOversleeps`,
  `ShutdownLeavesNothing` and the action property `NoBurst`. `NoIdleWorkerWithWork`
  compares two numbers, the tasks in `ready` and the workers on their way to it; its
  lemmas say how a set's cardinality changes with the one worker a step moves.
  `NobodyLeftAsleep` is the safety half of `ShutdownReturns`: after the notifications no
  thread waits, so the joins depend on the running callbacks alone.
* `BaseWriterProofs`: `IInv` adds to the properties that the flush thread's place
  determines what is in the back buffer and that only one caller is inside
  shutdown. From it follow all five invariants and the refinement
  `WriterImplementsChannel` (`Spec => ChannelSafety`): every step is a step of
  `RecordChannel` or leaves its variables alone.
* `JobLifecycleProofs`: `TimerMatchesRunning`, from an invariant on the threads'
  program counters and the collectors' tables, whatever the starts come to.
* `JobSafetyProofs`: `TypeOK`, `RecordsMatchJobs` and `JobMonitored`, without further
  hypotheses: the exceptions are in the properties. The argument: a job that is in the
  table is not being deleted (`Erased`), because a deletion begins by taking it out,
  unless it was added during the deletion, and then it is `reused`. So what its addition has done stays, and what it has not done
  the inserting thread has yet to do (`Linked` for the lists, `Recorded` for the
  record), unless it found no callback (`missed`); and a record without a job is one
  being deleted or restored, or that of a restored job that was refused (`Removed`).
  The counter after a restart is the maximum of a set of ids. That it exists is
  drawn from the well-foundedness of `<` on Nat, not from an induction.
  `GeneratedIdsUnique`: if no request brings an id of its own (`RequestIds = {0}`), the
  counter is above every id known to the table, the records and the archive (`Given`),
  after a restart as well, and `GeneratedIdUnique` holds. So the chosen ids are what
  breaks it, and nothing else.
* `PidTrackerProofs`: `TypeOK` and `NothingMissed`. The latter is not inductive:
  `IInv` adds that FORK events on their way stand for what the lists lack, that
  EXIT events are of processes that have ended, that JobIDs not added yet are
  unknown everywhere, and that whatever a thread still has to write from an old
  snapshot is listed while job and process exist. That last part is why the late
  writes of addJob and of the reconcile loop do no harm to running processes.
  `RunningStayListed`, defined beside its proof: a list loses a process only when that
  has ended.
* `EsBulkProofs`: an open document is in exactly one of `todo`, `chunk` and `retry`
  (`Placed`), which of them tells how often it was sent (`Counted`), and sizes that
  were packed once fit (`Measured`), so no unsigned difference wraps. From it follow
  `TypeOK`, `SentAtMost`, `TrueMeansDelivered` (through `OkTells`: while none has failed, each
  document of the batch is still to be sent, or confirmed and stored), the action property `NeverResent`, and
  that every step is a step of `DocDelivery` or a stutter. `RequestWithinLimit` compares a
  sum over the documents of a request, a fold, with the limit. The lemmas on `Total`
  say that such a sum exists for every finite set and does not depend on the order, by
  induction over subsets: a smallest counterexample is drawn from a set of subsets, so no
  theorem with an operator parameter is needed. With them `Summed` ties the byte count
  to the sum, and `Measured` keeps it in range. Beside the properties of the run: a
  confirmed document is in the store (`ConfirmedStored`), and a fate is final (`EsFateFinal`).
* `FileRotationProofs`: all five invariants of the run. The batch is newer than
  everything on disk (`Newer`), and each rename goes to a place that was emptied
  before (`Gap`), wherever an earlier cascade stopped. The action property
  `RecordsGoByAge` says the same of each step, for records nobody confirmed as well:
  removing path.N is the only way a record leaves the disk.
* `TriggerConfigProofs`: `TypeOK`, `RestoredToEtcd` and `JobLensRestarted`. Whoever
  makes one of the copies differ leaves a thread that has yet to compare them
  (`Followed`, `Written`), and whoever saves has yet to ask for the restart
  (`RestartDue`). The lock is not part of the argument: it keeps saves apart, not
  the values they use. `WorkersLeft` bounds the watches that are started. `LockOwned`
  says what the lock does: the threads in code that needs it are at most one, the one that
  holds it. `ConfigStuckForGood` states the consequence of the self-deadlock at
  `config_manager.py:171`: from then on nothing is adopted or saved. `ConfigNoEmptyLanding` is
  about the property run `config_empty` refutes: with one mode, and no content in etcd that
  parses to nothing, the test at line 92 is enough, because what was usable when
  it was tested stays usable until it is written (`UsableKept`).

Each inductive invariant was checked with TLC before it was proved.

All safety properties of the passing runs, action properties and the safety part of
both refinements included, are theorems. Model-checked only: liveness (`DueRuns`,
`ShutdownReturns`, `EndedJobRemoved`, `Converges`, `LockReleased`, the fairness parts of
`ImplementsChannel` and `ImplementsDelivery`), since liveness under fairness and ENABLED
are outside what the installed provers do. The violations are TLC's alone: a
counterexample is not a theorem. Of the theorems with hypotheses beyond the
constants' assumptions (`GeneratedIdsUnique`, `ConfigNoEmptyLanding`) each hypothesis is one
that TLC shows to be needed.

## 5. Plan

Done: `TimerScheduler`, `RecordChannel`, `BaseWriter`, `JobRegistry`,
`CollectorScheduler`, `JobLifecycle`, `PidTracker`, `DocDelivery`, `EsBulk`,
`FileRotation`, `TriggerConfig` and the proofs of section 4.

Left, most important first:

1. `DaemonShutdown`: the signal and the wait for it, the order of stopping the
   RPC server, scheduler and writers, with `KafkaWriter`, whose produce loop may
   keep a flush thread for ever.
2. `EtcdWatch`: reconnection, and watch ids used twice after stop_watch gave up;
   `TriggerRules`, the same three copies for rules, with synchronisations that
   are skipped while another one runs.
3. `RuleWatch` (rule table, inotify watches and the watcher's mutex),
   `CollectorRuntime` (phase and failure flag under overlapping operations).
4. In `JobLifecycle`: System-scope collectors (job 0), whose first tick may come
   before `running` is set, `CollectorScheduler::shutdown`, and native ids shared
   between JobIDs. In `PidTracker`: reuse of PIDs, `cgroup2job`, failing map writes.
5. The registrar's lease with its keep-alive, and the set of series of the
   Prometheus writer.
6. Proofs: the modules of points 1 to 5, as they come.

Components of points 1 to 3 and 5 have no module yet, and their hazards in
`PROJECT.json` say so.

Not modelled, and why: reading of /proc, devices and netlink, formatting and
parsing (pure I/O and data); static registries filled before main; the command
line, packaging and test code.
