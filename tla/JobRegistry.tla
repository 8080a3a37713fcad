----------------------------- MODULE JobRegistry -----------------------------
(***************************************************************************)
(* The state of src/core/job_registry.cpp - the job table, its LevelDB     *)
(* records and the JobID counter - and what its critical sections do to    *)
(* it.  JobLifecycle runs these effects in the threads that call them.     *)
(*                                                                         *)
(* A job is its JobID; the fake job 0, which is never collected for, is    *)
(* left out.  Whether any of its processes runs is all that matters of its *)
(* PIDs.  LevelDB calls succeed: a failed one is only logged by the code.  *)
(***************************************************************************)
EXTENDS Integers, FiniteSets

CONSTANT MaxJobId    \* bound: JobIDs are 1 .. MaxJobId

ASSUME RegistryAssumption == MaxJobId \in Nat

VARIABLES
  jobs,        \* keys of jobs_
  alive,       \* JobIDs with a running process
  db,          \* JobIDs with a "j:" record
  history,     \* JobIDs with an "h:" record
  nextJobId,   \* next_job_id_
  counter      \* the persisted "c:job_id" record

registryVars == <<jobs, db, history, nextJobId, counter>>

JobIds == 1 .. MaxJobId
MaxOf(S) == IF S = {} THEN 0 ELSE CHOOSE x \in S : \A y \in S : y <= x

RegistryInit ==
  /\ jobs = {} /\ alive = {}
  /\ db = {} /\ history = {}
  /\ nextJobId = 1 /\ counter = 1

\* Faults for the mutants.
PersistUnchecked(j) == db' = db \cup {j}

\* getNextJobID: the counter is persisted with every id it hands out.
GetNextJobID ==
  /\ nextJobId' = nextJobId + 1
  /\ counter' = nextJobId + 1

\* The checks and the insertion of addJob(job, false), under mtx_.
Emplace(j) == jobs' = jobs \cup {j}

\* The tail of addJob(job, false): persist unless the job went meanwhile.
Persist(j) == db' = IF j \in jobs THEN db \cup {j} ELSE db

\* delJob's erase, under mtx_.
EraseJob(j) == jobs' = jobs \ {j}

\* end_job_in_db: one batch moves the record; none if there is no record.
Archive(j) ==
  /\ db' = db \ {j}
  /\ history' = IF j \in db THEN history \cup {j} ELSE history

\* init_job_id_counter after a restart.
RestoredCounter ==
  LET top == MaxOf(db \cup history) + 1
  IN  IF counter > top THEN counter ELSE top

RegistryTypeOK ==
  /\ jobs \subseteq JobIds /\ alive \subseteq JobIds
  /\ db \subseteq JobIds /\ history \subseteq JobIds
  /\ nextJobId \in Nat /\ counter \in Nat
=============================================================================
