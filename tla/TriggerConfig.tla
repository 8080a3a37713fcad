---------------------------- MODULE TriggerConfig ----------------------------
(***************************************************************************)
(* ConfigManager of the trigger (config_manager.py): the configuration     *)
(* file of JobLens, its copy in memory and the one in etcd.  The threads   *)
(* are the watch of the mode, the watch of the mode's configuration (one   *)
(* worker for each watch that was started, etcd_client.py), the observer   *)
(* of the file, and an HTTP request.  They share one lock, which is not    *)
(* reentrant, and remote_config and etcd_raw_content, which it does not    *)
(* protect.                                                                *)
(*                                                                         *)
(* A content is a usable configuration, no bytes at all, or bytes that     *)
(* parse to nothing (comments).  Left out: YAML that does not parse or is  *)
(* no dictionary, reads of the mode that fail, stop(), the backup file,    *)
(* which nothing reads, and watch ids that are used twice.                 *)
(***************************************************************************)
EXTENDS Naturals, Sequences

CONSTANTS
  Configs,  \* contents that parse to a non-empty dictionary
  Comments, \* contents that parse to nothing: {"blank"}, or {} to leave them out
  Modes,
  FirstMode, \* the mode when the trigger starts
  MaxPuts,  \* bound: writes to etcd
  MaxEdits  \* bound: edits of the file

ASSUME ConfigAssumption ==
  /\ Comments \subseteq {"blank"}
  /\ Configs \cap {"empty", "blank", "none"} = {}
  /\ FirstMode \in Modes /\ "none" \notin Modes
  /\ MaxPuts \in Nat /\ MaxEdits \in Nat

Contents == Configs \cup Comments \cup {"empty"}
Dicts == Configs \cup {"none"}
Workers == 1 .. MaxPuts + 1
Handlers == {"observer", "http"}

VARIABLES
  etcdMode, etcdConfig,  \* etcd: the mode, and the configuration of each mode
  puts, edits,           \* bounds: writes to etcd and edits so far
  priority,              \* etcd_priority
  boot,                  \* start(): "fetch", "watch", "up"
  mode, remote, raw,     \* mode, remote_config, etcd_raw_content
  local, file,           \* local_config, the file
  lock,                  \* who holds it: "free", "mode", "config" or "local"
  modeEvents, mpc,       \* the watch of the mode: its events, its thread
  watched, events, cur,  \* the configuration's watch: mode, events, worker
  wpc, wev,              \* each worker and the event it handles
  dirty,                 \* the observer has an event
  lpc, seen,             \* _handle_config_change: its threads, what they read
  behind,                \* history: since the last good save, one failed or wrote
                         \* another content than local_config, an edit was not
                         \* undone as etcd was empty, or something changed
                         \* before start() was over
  fresh                  \* history: JobLens restarted after the last save

etcdVars == <<etcdMode, etcdConfig, puts>>
managerVars == <<mode, remote, raw, local>>
modeVars == <<modeEvents, mpc>>
workerVars == <<watched, events, cur, wpc, wev>>
localVars == <<dirty, lpc, seen>>
vars == <<etcdVars, edits, priority, boot, managerVars, file, lock,
          modeVars, workerVars, localVars, behind, fresh>>

-----------------------------------------------------------------------------
(* Faults for the mutants.                                                 *)

NotNormalised(c) == IF c \in Configs THEN c ELSE "null"
KeepsRaw(w) == raw
UntilItEnds == wpc[cur] = "idle"
WithoutRestart(w) == "idle"

-----------------------------------------------------------------------------
(* Contents.                                                               *)

\* yaml.safe_load(...) or {}
Parse(c) == IF c \in Configs THEN c ELSE "none"

\* yaml.dump: a dictionary without keys gives bytes that parse to nothing.
Dump(d) == IF d = "none" THEN "blank" ELSE d

\* _is_remote_config_usable
Usable(d) == d # "none"

\* The answer to a get: nothing when it fails.
Answers(m) == {etcdConfig[m], "empty"}

-----------------------------------------------------------------------------
(* Saving, and the restart of JobLens.                                     *)

\* _is_diff_local_config and the test before it.
MustSync == Usable(remote) /\ remote # local

\* save_local_config(use_raw_content=True); its result is not looked at.
Save ==
  \/ /\ file' = IF raw # "empty" THEN raw ELSE Dump(local)
     /\ behind' = (Parse(file') # local) /\ fresh' = FALSE
  \/ behind' = TRUE /\ UNCHANGED <<file, fresh>>

\* _notify_callbacks: JobLens restarts and reads the file.
Restart == fresh' = TRUE

-----------------------------------------------------------------------------
(* __init__ and start().                                                   *)

Init ==
  /\ etcdMode = FirstMode /\ etcdConfig \in [Modes -> Contents]
  /\ puts = 0 /\ edits = 0
  /\ priority \in BOOLEAN
  /\ boot = "fetch"
  /\ mode = etcdMode
  /\ \E got \in Answers(etcdMode), old \in Contents, saved \in BOOLEAN :
       /\ remote = Parse(got) /\ raw = got
       /\ IF Usable(remote) /\ remote # Parse(old)
          THEN /\ local = remote
               /\ file = IF saved THEN raw ELSE old
               /\ behind = ~saved
          ELSE local = Parse(old) /\ file = old /\ behind = FALSE
  /\ lock = "free"
  /\ modeEvents = <<>> /\ mpc = "idle"
  /\ watched = "none" /\ events = <<>> /\ cur = 1
  /\ wpc = [w \in Workers |-> "idle"] /\ wev = [w \in Workers |-> "empty"]
  /\ dirty = FALSE
  /\ lpc = [h \in Handlers |-> "idle"] /\ seen = [h \in Handlers |-> "none"]
  /\ fresh = TRUE

\* Both are read again, and nothing is synchronised.
Refetch ==
  /\ boot = "fetch"
  /\ boot' = "watch"
  /\ mode' = etcdMode
  /\ \E got \in Answers(etcdMode) :
       /\ remote' = Parse(got) /\ raw' = got
       /\ behind' = (behind \/ remote' # local)
  /\ UNCHANGED <<etcdVars, edits, priority, local, file, lock, modeVars,
                 workerVars, localVars, fresh>>

StartWatches ==
  /\ boot = "watch"
  /\ boot' = "up" /\ watched' = mode
  /\ UNCHANGED <<etcdVars, edits, priority, managerVars, file, lock, modeVars,
                 events, cur, wpc, wev, localVars, behind, fresh>>

-----------------------------------------------------------------------------
(* Other programs: etcd and the file.                                      *)

PutMode(m) ==
  /\ puts < MaxPuts /\ puts' = puts + 1
  /\ etcdMode' = m
  /\ modeEvents' = IF boot = "up" THEN Append(modeEvents, m) ELSE modeEvents
  /\ UNCHANGED <<etcdConfig, edits, priority, boot, managerVars, file, lock, mpc,
                 workerVars, localVars, behind, fresh>>

PutConfig(m, c) ==
  /\ puts < MaxPuts /\ puts' = puts + 1
  /\ etcdConfig' = [etcdConfig EXCEPT ![m] = c]
  /\ events' = IF watched = m THEN Append(events, c) ELSE events
  /\ UNCHANGED <<etcdMode, edits, priority, boot, managerVars, file, lock, modeVars,
                 watched, cur, wpc, wev, localVars, behind, fresh>>

Edit(c) ==
  /\ edits < MaxEdits /\ edits' = edits + 1
  /\ file' = c
  /\ dirty' = (boot = "up")
  /\ behind' = (behind \/ boot # "up")
  /\ UNCHANGED <<etcdVars, priority, boot, managerVars, lock, modeVars, workerVars,
                 lpc, seen, fresh>>

-----------------------------------------------------------------------------
(* _handle_config_change.                                                  *)

\* Reads the file and compares it, before it takes the lock.
ReadFile(h) ==
  /\ boot = "up" /\ lpc[h] = "idle"
  /\ h = "observer" => dirty
  /\ dirty' = (dirty /\ h # "observer")
  /\ IF Parse(file) # local
     THEN lpc' = [lpc EXCEPT ![h] = "lock"] /\ seen' = [seen EXCEPT ![h] = Parse(file)]
     ELSE UNCHANGED <<lpc, seen>>
  /\ UNCHANGED <<etcdVars, edits, priority, boot, managerVars, file, lock, modeVars,
                 workerVars, behind, fresh>>

\* With etcd_priority it goes back to etcd's raw content, if there is any.
Decide(h) ==
  /\ lpc[h] = "lock" /\ lock = "free"
  /\ lock' = "local"
  /\ seen' = [seen EXCEPT ![h] = "none"]
  /\ \/ /\ priority /\ raw # "empty"
        /\ local' = Parse(raw)
        /\ lpc' = [lpc EXCEPT ![h] = "save"]
        /\ UNCHANGED behind
     \/ /\ priority /\ raw = "empty"
        /\ lpc' = [lpc EXCEPT ![h] = "notify"]
        /\ behind' = TRUE
        /\ UNCHANGED local
     \/ /\ ~priority
        /\ local' = seen[h]
        /\ lpc' = [lpc EXCEPT ![h] = "notify"]
        /\ UNCHANGED behind
  /\ UNCHANGED <<etcdVars, edits, priority, boot, mode, remote, raw, file, modeVars,
                 workerVars, dirty, fresh>>

Restore(h) ==
  /\ lpc[h] = "save"
  /\ Save
  /\ lpc' = [lpc EXCEPT ![h] = "notify"]
  /\ UNCHANGED <<etcdVars, edits, priority, boot, managerVars, lock, modeVars,
                 workerVars, dirty, seen>>

\* The callbacks run with the lock.
ChangeDone(h) ==
  /\ lpc[h] = "notify"
  /\ Restart
  /\ lock' = "free" /\ lpc' = [lpc EXCEPT ![h] = "idle"]
  /\ UNCHANGED <<etcdVars, edits, priority, boot, managerVars, file, modeVars,
                 workerVars, dirty, seen, behind>>

-----------------------------------------------------------------------------
(* _handle_etcd_config_update, in the worker of a watch.                   *)

\* An event after the watch was stopped ends the worker instead.
Receive(w) ==
  /\ w = cur /\ watched # "none" /\ wpc[w] = "idle" /\ events # <<>>
  /\ events' = Tail(events)
  /\ remote' = Parse(Head(events))
  /\ wpc' = [wpc EXCEPT ![w] = "raw"]
  /\ wev' = [wev EXCEPT ![w] = Head(events)]
  /\ UNCHANGED <<etcdVars, edits, priority, boot, mode, raw, local, file, lock,
                 modeVars, watched, cur, localVars, behind, fresh>>

NewRaw(w) == wev[w]

SetRaw(w) ==
  /\ wpc[w] = "raw"
  /\ raw' = NewRaw(w)
  /\ wpc' = [wpc EXCEPT ![w] = "test"] /\ wev' = [wev EXCEPT ![w] = "empty"]
  /\ UNCHANGED <<etcdVars, edits, priority, boot, mode, remote, local, file, lock,
                 modeVars, watched, events, cur, localVars, behind, fresh>>

\* _sync_config_from_etcd2local up to its lock.
Test(w) ==
  /\ wpc[w] = "test"
  /\ wpc' = [wpc EXCEPT ![w] = IF MustSync THEN "lock" ELSE "notify"]
  /\ UNCHANGED <<etcdVars, edits, priority, boot, managerVars, file, lock, modeVars,
                 watched, events, cur, wev, localVars, behind, fresh>>

Adopt(w) ==
  /\ wpc[w] = "lock" /\ lock = "free"
  /\ lock' = "config"
  /\ local' = remote
  /\ wpc' = [wpc EXCEPT ![w] = "save"]
  /\ UNCHANGED <<etcdVars, edits, priority, boot, mode, remote, raw, file, modeVars,
                 watched, events, cur, wev, localVars, behind, fresh>>

AfterSave(w) == "notify"

SaveAdopted(w) ==
  /\ wpc[w] = "save"
  /\ Save
  /\ lock' = "free" /\ wpc' = [wpc EXCEPT ![w] = AfterSave(w)]
  /\ UNCHANGED <<etcdVars, edits, priority, boot, managerVars, modeVars,
                 watched, events, cur, wev, localVars>>

UpdateDone(w) ==
  /\ wpc[w] = "notify"
  /\ Restart
  /\ wpc' = [wpc EXCEPT ![w] = "idle"]
  /\ UNCHANGED <<etcdVars, edits, priority, boot, managerVars, file, lock, modeVars,
                 watched, events, cur, wev, localVars, behind>>

-----------------------------------------------------------------------------
(* _handle_etcd_mode_update.                                               *)

\* With the lock: the configuration's watch is told to stop.
SwitchMode ==
  /\ mpc = "idle" /\ modeEvents # <<>> /\ lock = "free"
  /\ modeEvents' = Tail(modeEvents)
  /\ IF Head(modeEvents) = mode
     THEN UNCHANGED <<lock, mode, watched, events, mpc>>
     ELSE /\ lock' = "mode" /\ mode' = Head(modeEvents)
          /\ watched' = "none" /\ events' = <<>>
          /\ mpc' = "join"
  /\ UNCHANGED <<etcdVars, edits, priority, boot, remote, raw, local, file, cur,
                 wpc, wev, localVars, behind, fresh>>

\* stop_watch waits 5 s for the worker, which only a lock or a restart takes.
Joined == wpc[cur] \notin {"raw", "test"}

\* It holds the lock, and to synchronise it would need it: that is the end.
FetchMode ==
  /\ mpc = "join" /\ Joined
  /\ \E got \in Answers(mode) :
       /\ remote' = Parse(got) /\ raw' = got
       /\ mpc' = IF Usable(remote') /\ remote' # local THEN "stuck" ELSE "watch"
  /\ UNCHANGED <<etcdVars, edits, priority, boot, mode, local, file, lock,
                 modeEvents, workerVars, localVars, behind, fresh>>

Rewatch ==
  /\ mpc = "watch"
  /\ watched' = mode /\ cur' = cur + 1
  /\ mpc' = "notify"
  /\ UNCHANGED <<etcdVars, edits, priority, boot, managerVars, file, lock, modeEvents,
                 events, wpc, wev, localVars, behind, fresh>>

SwitchDone ==
  /\ mpc = "notify"
  /\ Restart
  /\ lock' = "free" /\ mpc' = "idle"
  /\ UNCHANGED <<etcdVars, edits, priority, boot, managerVars, file, modeEvents,
                 workerVars, localVars, behind>>

-----------------------------------------------------------------------------
Start == Refetch \/ StartWatches
Handler(h) == ReadFile(h) \/ Decide(h) \/ Restore(h) \/ ChangeDone(h)
Worker(w) ==
  Receive(w) \/ SetRaw(w) \/ Test(w) \/ Adopt(w) \/ SaveAdopted(w) \/ UpdateDone(w)
ModeWatch == SwitchMode \/ FetchMode \/ Rewatch \/ SwitchDone
Others ==
  \/ \E m \in Modes : PutMode(m) \/ \E c \in Contents : PutConfig(m, c)
  \/ \E c \in Contents : Edit(c)

Next ==
  \/ Start
  \/ \E h \in Handlers : Handler(h)
  \/ \E w \in Workers : Worker(w)
  \/ ModeWatch
  \/ Others

Fairness ==
  /\ WF_vars(Start) /\ WF_vars(ModeWatch)
  /\ \A h \in Handlers : WF_vars(Handler(h))
  /\ \A w \in Workers : WF_vars(Worker(w))

Spec == Init /\ [][Next]_vars /\ Fairness

-----------------------------------------------------------------------------
TypeOK ==
  /\ etcdMode \in Modes /\ etcdConfig \in [Modes -> Contents]
  /\ puts \in 0 .. MaxPuts /\ edits \in 0 .. MaxEdits
  /\ priority \in BOOLEAN /\ boot \in {"fetch", "watch", "up"}
  /\ mode \in Modes /\ remote \in Dicts /\ raw \in Contents
  /\ local \in Dicts /\ file \in Contents \cup {"blank"}
  /\ lock \in {"free", "mode", "config", "local"}
  /\ modeEvents \in Seq(Modes)
  /\ mpc \in {"idle", "join", "stuck", "watch", "notify"}
  /\ watched \in Modes \cup {"none"} /\ events \in Seq(Contents)
  /\ cur \in Workers
  /\ wpc \in [Workers -> {"idle", "raw", "test", "lock", "save", "notify"}]
  /\ wev \in [Workers -> Contents]
  /\ dirty \in BOOLEAN
  /\ lpc \in [Handlers -> {"idle", "lock", "save", "notify"}]
  /\ seen \in [Handlers -> Dicts]
  /\ behind \in BOOLEAN /\ fresh \in BOOLEAN

Quiet ==
  /\ boot = "up" /\ mpc = "idle" /\ modeEvents = <<>> /\ events = <<>>
  /\ \A w \in Workers : wpc[w] = "idle"
  /\ \A h \in Handlers : lpc[h] = "idle"
  /\ ~dirty

\* With etcd_priority ("etcd 优先级高，拒绝本地修改", line 191): when every event
\* is dealt with, the file and the copy in memory are the usable configuration
\* the manager last had from etcd, whatever was edited meanwhile and in
\* whatever order the threads ran.  Not so when the last save failed or met a
\* raw content that had just changed, when something changed before the watches
\* were there, and when an edit came while etcd had no configuration: an event
\* with the old configuration does not undo those.
RestoredToEtcd ==
  priority /\ Quiet /\ Usable(remote) /\ ~behind => file = raw /\ local = remote

\* Every file the manager writes is followed by a restart of JobLens, which may
\* be another thread's.
JobLensRestarted == Quiet => fresh

\* The lock is always released again, although callbacks run under it and the
\* mode's thread waits under it for a worker that may want it: only a switch to
\* a mode whose configuration differs keeps it for good.
LockReleased == []<>(lock = "free" \/ mpc = "stuck")

\* "etcd 空 = 未配置（不是清空指令），禁止空配置落盘拖死 core 和 trigger" (line 92):
\* the manager does not write a configuration without content to the file.
NoEmptyLanding ==
  [][file' # file /\ edits' = edits => Usable(Parse(file'))]_vars
=============================================================================
