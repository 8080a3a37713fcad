------------------------- MODULE CollectorScheduler -------------------------
(***************************************************************************)
(* The per-collector state of src/core/collector_scheduler.cpp and what    *)
(* its handlers do to it.  JobLifecycle puts these effects into the        *)
(* threads that run them and interleaves them with the job registry.       *)
(*                                                                         *)
(* Every effect below runs under the collector's own mutex m_, so it is    *)
(* one step.  jobid_list is a set: addJob2Collector never pushes an id     *)
(* twice, and only membership is ever asked for.  A timer is a count of    *)
(* live repeating timers of the collector; that one timer's callback never *)
(* overlaps itself is what module TimerScheduler shows (AtMostOne).        *)
(***************************************************************************)
EXTENDS Naturals, FiniteSets

CONSTANTS
  Collectors,    \* names in collector_info_dict, all of scope Job
  StartOutcomes  \* how startCollector may end

\* "failed": init_handle returns false or throws.  "refused": it succeeds, but
\* registerRepeatingTimer throws (the interval rounds to zero, or the timer
\* scheduler was stopped), which startCollector catches.
ASSUME StartAssumption ==
  StartOutcomes \subseteq {"up", "failed", "refused"} /\ StartOutcomes # {}

VARIABLES
  jobList,    \* collector_state_dict[c].jobid_list
  running,    \* collector_state_dict[c].running
  timers,     \* live timers registered for c
  handle      \* how the last startCollector ended, "down" after a deinit

schedVars == <<jobList, running, timers, handle>>

\* Faults for the mutants.
StartsIfListWasEmpty(c) == jobList[c] = {}
RmEveryJob(j, c) ==
  jobList' = [jobList EXCEPT ![c] = {}] /\ UNCHANGED <<running, timers, handle>>

\* `if (!state.running)` in addJob2Collector
MustStart(c) == ~running[c]

\* timerScheduler_.cancelTimer(task_id)
CancelTimer(c) == timers' = [timers EXCEPT ![c] = @ - 1]

SchedInit ==
  /\ jobList = [c \in Collectors |-> {}]
  /\ running = [c \in Collectors |-> FALSE]
  /\ timers = [c \in Collectors |-> 0]
  /\ handle = [c \in Collectors |-> "down"]

\* startCollector: no timer when it fails or is refused, and no clean-up; a
\* refused instance stays initialised.  Only the next addJob2Collector retries.
StartCollector(c) ==
  \E outcome \in StartOutcomes :
    /\ handle' = [handle EXCEPT ![c] = outcome]
    /\ IF outcome = "up"
       THEN /\ timers' = [timers EXCEPT ![c] = @ + 1]
            /\ running' = [running EXCEPT ![c] = TRUE]
       ELSE UNCHANGED <<timers, running>>

AddJob2Collector(j, c) ==
  IF j \in jobList[c]
  THEN UNCHANGED schedVars
  ELSE /\ jobList' = [jobList EXCEPT ![c] = @ \cup {j}]
       /\ IF MustStart(c)
          THEN StartCollector(c)
          ELSE UNCHANGED <<running, timers, handle>>

\* one round of rmJobCollect's loop
RmJobFromCollector(j, c) ==
  /\ jobList' = [jobList EXCEPT ![c] = @ \ {j}]
  /\ UNCHANGED <<running, timers, handle>>

\* The timer callback finds nothing to collect for.
IsIdle(c) == jobList[c] = {} /\ running[c]

StopCollector(c) ==
  /\ handle' = [handle EXCEPT ![c] = "down"]
  /\ CancelTimer(c)
  /\ running' = [running EXCEPT ![c] = FALSE]
  /\ UNCHANGED jobList

SchedTypeOK ==
  /\ running \in [Collectors -> BOOLEAN]
  /\ timers \in [Collectors -> Nat]
  /\ handle \in [Collectors -> {"down", "up", "failed", "refused"}]
=============================================================================
