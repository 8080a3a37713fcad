------------------------ MODULE TriggerConfigProofs ------------------------
(***************************************************************************)
(* Proofs about TriggerConfig, for any configurations, modes and bounds.   *)
(*                                                                         *)
(* The argument for RestoredToEtcd: whoever makes the copy in memory       *)
(* differ from remote_config, or the file from that copy, leaves a thread  *)
(* behind that has yet to look at them (Followed, Written).  The lock is   *)
(* not part of it: it keeps saves apart, not the values they use.          *)
(***************************************************************************)
EXTENDS TriggerConfig, TLAPS

\* Before start() is over no thread has anything to do.
NotYet ==
  boot # "up" =>
    /\ mpc = "idle" /\ modeEvents = <<>> /\ watched = "none"
    /\ \A w \in Workers : wpc[w] = "idle"
    /\ \A h \in Handlers : lpc[h] = "idle"

\* A watch is started again at most once for each mode that was put.
Switching == IF mpc \in {"join", "stuck", "watch"} THEN 1 ELSE 0
WorkersLeft == cur + Len(modeEvents) + Switching <= puts + 1

\* Only the last worker is between remote_config and its test, and not when
\* the mode's thread has read the other configuration.
OneReader ==
  /\ \A w \in Workers : wpc[w] \in {"raw", "test"} => w = cur
  /\ mpc \in {"stuck", "watch"} => wpc[cur] \notin {"raw", "test"}
  /\ mpc \in {"join", "stuck", "watch"} => watched = "none"

\* remote_config is what etcd_raw_content says, or is about to say.
SameSource ==
  remote = IF wpc[cur] = "raw" THEN Parse(wev[cur]) ELSE Parse(raw)

Pending == (\E w \in Workers : wpc[w] \in {"raw", "test", "lock"}) \/ mpc = "stuck"
Saving == (\E w \in Workers : wpc[w] = "save") \/ (\E h \in Handlers : lpc[h] = "save")

\* A usable remote_config is in local_config, or somebody will see to it.
Followed ==
  priority /\ boot # "fetch" /\ Usable(remote) /\ (~behind \/ Saving) /\ local # remote
    => Pending

\* The file holds local_config, or somebody will see to it.
Written ==
  priority /\ ~behind =>
    \/ Parse(file) = local \/ dirty \/ Saving
    \/ \E h \in Handlers : lpc[h] = "lock"

\* A restart is to come for each save.
RestartDue ==
  ~fresh => (\E w \in Workers : wpc[w] = "notify") \/ (\E h \in Handlers : lpc[h] = "notify")

IInv == TypeOK /\ NotYet /\ WorkersLeft /\ OneReader /\ SameSource
          /\ Followed /\ Written /\ RestartDue

\* What parsing gives.
LEMMA ParseType == \A c : Parse(c) \in Dicts
BY DEF Parse, Dicts

\* A save writes a content, or nothing.
LEMMA SaveType ==
  ASSUME TypeOK, Save
  PROVE  file' \in Contents \cup {"blank"} /\ behind' \in BOOLEAN /\ fresh' \in BOOLEAN
<1>1. Dump(local) \in Contents \cup {"blank"}
  BY DEF TypeOK, Dicts, Contents, Dump
<1>. QED  BY <1>1 DEF TypeOK, Save

\* Taking the first event.
LEMMA TakeEvent ==
  ASSUME NEW S, NEW q \in Seq(S), q # <<>>
  PROVE  Head(q) \in S /\ Tail(q) \in Seq(S) /\ Len(Tail(q)) = Len(q) - 1 /\ Len(q) \in Nat \ {0}
OBVIOUS

\* Adding one.
LEMMA AddEvent ==
  ASSUME NEW S, NEW q \in Seq(S), NEW e \in S
  PROVE  Append(q, e) \in Seq(S) /\ Len(Append(q, e)) = Len(q) + 1 /\ Len(q) \in Nat
OBVIOUS

\* Every step keeps the types.
LEMMA TypeStep ==
  ASSUME IInv, [Next]_vars PROVE TypeOK'
<1>. USE DEF IInv, TypeOK
<1>1. ASSUME Refetch PROVE TypeOK'
  BY <1>1, ParseType DEF Refetch, etcdVars, modeVars, workerVars, localVars,
     Answers, Contents
<1>2. ASSUME StartWatches PROVE TypeOK'
  BY <1>2 DEF StartWatches, etcdVars, managerVars, modeVars, localVars
<1>3. ASSUME NEW m \in Modes, PutMode(m) PROVE TypeOK'
  BY <1>3, ConfigAssumption DEF PutMode, managerVars, workerVars, localVars
<1>4. ASSUME NEW m \in Modes, NEW c \in Contents, PutConfig(m, c) PROVE TypeOK'
  BY <1>4, ConfigAssumption DEF PutConfig, managerVars, modeVars, localVars
<1>5. ASSUME NEW c \in Contents, Edit(c) PROVE TypeOK'
  <2>1. dirty' \in BOOLEAN
    BY <1>5 DEF Edit
  <2>2. behind' \in BOOLEAN
    BY <1>5 DEF Edit
  <2>3. edits' \in 0 .. MaxEdits /\ file' \in Contents \cup {"blank"}
    BY <1>5, ConfigAssumption DEF Edit
  <2>. QED
    BY <1>5, <2>1, <2>2, <2>3 DEF Edit, etcdVars, managerVars, modeVars, workerVars,
       localVars
<1>6. ASSUME NEW h \in Handlers, ReadFile(h) PROVE TypeOK'
  <2>1. dirty' \in BOOLEAN
    BY <1>6 DEF ReadFile
  <2>2. Parse(file) \in Dicts
    BY ParseType
  <2>3. /\ lpc' \in [Handlers -> {"idle", "lock", "save", "notify"}]
        /\ seen' \in [Handlers -> Dicts]
    BY <1>6, <2>2 DEF ReadFile
  <2>. QED
    BY <1>6, <2>1, <2>3 DEF ReadFile, etcdVars, managerVars, modeVars, workerVars,
       localVars
<1>7. ASSUME NEW h \in Handlers, Decide(h) PROVE TypeOK'
  <2>1. Parse(raw) \in Dicts /\ "none" \in Dicts
    BY ParseType DEF Dicts
  <2>2. /\ lpc' \in [Handlers -> {"idle", "lock", "save", "notify"}]
        /\ seen' \in [Handlers -> Dicts]
    BY <1>7, <2>1 DEF Decide
  <2>3. local' \in Dicts
    BY <1>7, <2>1 DEF Decide
  <2>4. behind' \in BOOLEAN
    BY <1>7 DEF Decide
  <2>5. lock' = "local"
    BY <1>7 DEF Decide
  <2>. QED
    BY <1>7, <2>2, <2>3, <2>4, <2>5 DEF Decide, etcdVars, managerVars, modeVars,
       workerVars, localVars
<1>8. ASSUME NEW h \in Handlers, Restore(h) PROVE TypeOK'
  BY <1>8, SaveType DEF Restore, etcdVars, managerVars, modeVars, workerVars
<1>9. ASSUME NEW h \in Handlers, ChangeDone(h) PROVE TypeOK'
  BY <1>9 DEF ChangeDone, etcdVars, managerVars, modeVars, workerVars, Restart
<1>10. ASSUME NEW w \in Workers, Receive(w) PROVE TypeOK'
  BY <1>10, ParseType, TakeEvent DEF Receive, etcdVars, modeVars, localVars
<1>11. ASSUME NEW w \in Workers, SetRaw(w) PROVE TypeOK'
  BY <1>11 DEF SetRaw, etcdVars, modeVars, localVars, NewRaw, Contents
<1>12. ASSUME NEW w \in Workers, Test(w) PROVE TypeOK'
  BY <1>12 DEF Test, etcdVars, managerVars, modeVars, localVars
<1>13. ASSUME NEW w \in Workers, Adopt(w) PROVE TypeOK'
  BY <1>13 DEF Adopt, etcdVars, modeVars, localVars
<1>14. ASSUME NEW w \in Workers, SaveAdopted(w) PROVE TypeOK'
  BY <1>14, SaveType DEF SaveAdopted, etcdVars, managerVars, modeVars, localVars,
     AfterSave
<1>15. ASSUME NEW w \in Workers, UpdateDone(w) PROVE TypeOK'
  BY <1>15 DEF UpdateDone, etcdVars, managerVars, modeVars, localVars, Restart
<1>16. ASSUME SwitchMode PROVE TypeOK'
  <2>1. Head(modeEvents) \in Modes /\ Tail(modeEvents) \in Seq(Modes)
    BY <1>16, TakeEvent DEF SwitchMode
  <2>2. modeEvents' \in Seq(Modes) /\ mode' \in Modes
    BY <1>16, <2>1 DEF SwitchMode
  <2>. <<>> \in Seq(Contents)
    OBVIOUS
  <2>6. events' \in Seq(Contents)
    BY <1>16 DEF SwitchMode
  <2>3. watched' \in Modes \cup {"none"}
    BY <1>16 DEF SwitchMode
  <2>4. /\ mpc' \in {"idle", "join", "stuck", "watch", "notify"}
        /\ lock' \in {"free", "mode", "config", "local"}
    BY <1>16 DEF SwitchMode
  <2>. QED
    BY <1>16, <2>2, <2>3, <2>4, <2>6 DEF SwitchMode, etcdVars, managerVars,
       modeVars, workerVars, localVars
<1>17. ASSUME FetchMode PROVE TypeOK'
  BY <1>17, ParseType DEF FetchMode, etcdVars, workerVars, localVars, Answers,
     Contents
<1>18. ASSUME Rewatch PROVE TypeOK'
  BY <1>18, ConfigAssumption DEF Rewatch, etcdVars, managerVars, localVars,
     WorkersLeft, Switching, Workers
<1>19. ASSUME SwitchDone PROVE TypeOK'
  BY <1>19 DEF SwitchDone, etcdVars, managerVars, workerVars, localVars, Restart
<1>20. ASSUME UNCHANGED vars PROVE TypeOK'
  BY <1>20 DEF vars, etcdVars, managerVars, modeVars, workerVars, localVars
<1>. QED
  BY <1>1, <1>2, <1>3, <1>4, <1>5, <1>6, <1>7, <1>8, <1>9, <1>10, <1>11, <1>12,
     <1>13, <1>14, <1>15, <1>16, <1>17, <1>18, <1>19, <1>20
  DEF Next, Start, Handler, Worker, ModeWatch, Others

\* The watches and the observer only exist once start() is over.
LEMMA NotYetStep ==
  ASSUME IInv, [Next]_vars PROVE NotYet'
<1>. USE DEF IInv, NotYet, TypeOK
<1>1. ASSUME Refetch PROVE NotYet'
  BY <1>1 DEF Refetch, etcdVars, modeVars, workerVars, localVars
<1>2. ASSUME StartWatches PROVE NotYet'
  BY <1>2 DEF StartWatches, etcdVars, managerVars, modeVars, localVars
<1>3. ASSUME NEW m \in Modes, PutMode(m) PROVE NotYet'
  BY <1>3 DEF PutMode, managerVars, workerVars, localVars
<1>4. ASSUME NEW m \in Modes, NEW c \in Contents, PutConfig(m, c) PROVE NotYet'
  BY <1>4 DEF PutConfig, managerVars, modeVars, localVars
<1>5. ASSUME NEW c \in Contents, Edit(c) PROVE NotYet'
  BY <1>5 DEF Edit, etcdVars, managerVars, modeVars, workerVars
<1>6. ASSUME NEW h \in Handlers, ReadFile(h) PROVE NotYet'
  BY <1>6 DEF ReadFile, etcdVars, managerVars, modeVars, workerVars
<1>7. ASSUME NEW h \in Handlers, Decide(h) PROVE NotYet'
  BY <1>7 DEF Decide, etcdVars, modeVars, workerVars
<1>8. ASSUME NEW h \in Handlers, Restore(h) PROVE NotYet'
  BY <1>8 DEF Restore, etcdVars, managerVars, modeVars, workerVars
<1>9. ASSUME NEW h \in Handlers, ChangeDone(h) PROVE NotYet'
  BY <1>9 DEF ChangeDone, etcdVars, managerVars, modeVars, workerVars
<1>10. ASSUME NEW w \in Workers, Receive(w) PROVE NotYet'
  BY <1>10 DEF Receive, etcdVars, modeVars, localVars
<1>11. ASSUME NEW w \in Workers, SetRaw(w) PROVE NotYet'
  BY <1>11 DEF SetRaw, etcdVars, modeVars, localVars
<1>12. ASSUME NEW w \in Workers, Test(w) PROVE NotYet'
  BY <1>12 DEF Test, etcdVars, managerVars, modeVars, localVars
<1>13. ASSUME NEW w \in Workers, Adopt(w) PROVE NotYet'
  BY <1>13 DEF Adopt, etcdVars, modeVars, localVars
<1>14. ASSUME NEW w \in Workers, SaveAdopted(w) PROVE NotYet'
  BY <1>14 DEF SaveAdopted, etcdVars, managerVars, modeVars, localVars
<1>15. ASSUME NEW w \in Workers, UpdateDone(w) PROVE NotYet'
  BY <1>15 DEF UpdateDone, etcdVars, managerVars, modeVars, localVars
<1>16. ASSUME SwitchMode PROVE NotYet'
  BY <1>16 DEF SwitchMode, etcdVars, localVars
<1>17. ASSUME FetchMode PROVE NotYet'
  BY <1>17 DEF FetchMode, etcdVars, workerVars, localVars
<1>18. ASSUME Rewatch PROVE NotYet'
  BY <1>18 DEF Rewatch, etcdVars, managerVars, localVars
<1>19. ASSUME SwitchDone PROVE NotYet'
  BY <1>19 DEF SwitchDone, etcdVars, managerVars, workerVars, localVars
<1>20. ASSUME UNCHANGED vars PROVE NotYet'
  BY <1>20 DEF vars, etcdVars, managerVars, modeVars, workerVars, localVars
<1>. QED
  BY <1>1, <1>2, <1>3, <1>4, <1>5, <1>6, <1>7, <1>8, <1>9, <1>10, <1>11, <1>12,
     <1>13, <1>14, <1>15, <1>16, <1>17, <1>18, <1>19, <1>20
  DEF Next, Start, Handler, Worker, ModeWatch, Others

\* Each watch after the first one answers a mode that was put.
LEMMA WorkersStep ==
  ASSUME IInv, [Next]_vars PROVE WorkersLeft'
<1>. USE ConfigAssumption DEF IInv, WorkersLeft, Switching, TypeOK, Workers, NotYet
<1>1. ASSUME Refetch PROVE WorkersLeft'
  BY <1>1 DEF Refetch, etcdVars, modeVars, workerVars, localVars
<1>2. ASSUME StartWatches PROVE WorkersLeft'
  BY <1>2 DEF StartWatches, etcdVars, managerVars, modeVars, localVars
<1>3. ASSUME NEW m \in Modes, PutMode(m) PROVE WorkersLeft'
  <2>1. puts' = puts + 1 /\ puts \in Nat /\ cur \in Nat
    BY <1>3, ConfigAssumption DEF IInv, TypeOK, Workers, PutMode
  <2>2. Len(modeEvents') <= Len(modeEvents) + 1 /\ Len(modeEvents) \in Nat /\ Len(modeEvents') \in Nat
    BY <1>3, AddEvent DEF IInv, TypeOK, PutMode
  <2>3. Switching' = Switching /\ Switching \in Nat /\ cur' = cur
    BY <1>3 DEF PutMode, Switching, workerVars
  <2>. QED
    BY <2>1, <2>2, <2>3 DEF IInv, WorkersLeft
<1>4. ASSUME NEW m \in Modes, NEW c \in Contents, PutConfig(m, c) PROVE WorkersLeft'
  BY <1>4 DEF PutConfig, managerVars, modeVars, localVars
<1>5. ASSUME NEW c \in Contents, Edit(c) PROVE WorkersLeft'
  BY <1>5 DEF Edit, etcdVars, managerVars, modeVars, workerVars
<1>6. ASSUME NEW h \in Handlers, ReadFile(h) PROVE WorkersLeft'
  BY <1>6 DEF ReadFile, etcdVars, managerVars, modeVars, workerVars
<1>7. ASSUME NEW h \in Handlers, Decide(h) PROVE WorkersLeft'
  BY <1>7 DEF Decide, etcdVars, modeVars, workerVars
<1>8. ASSUME NEW h \in Handlers, Restore(h) PROVE WorkersLeft'
  BY <1>8 DEF Restore, etcdVars, managerVars, modeVars, workerVars
<1>9. ASSUME NEW h \in Handlers, ChangeDone(h) PROVE WorkersLeft'
  BY <1>9 DEF ChangeDone, etcdVars, managerVars, modeVars, workerVars
<1>10. ASSUME NEW w \in Workers, Receive(w) PROVE WorkersLeft'
  BY <1>10 DEF Receive, etcdVars, modeVars, localVars
<1>11. ASSUME NEW w \in Workers, SetRaw(w) PROVE WorkersLeft'
  BY <1>11 DEF SetRaw, etcdVars, modeVars, localVars
<1>12. ASSUME NEW w \in Workers, Test(w) PROVE WorkersLeft'
  BY <1>12 DEF Test, etcdVars, managerVars, modeVars, localVars
<1>13. ASSUME NEW w \in Workers, Adopt(w) PROVE WorkersLeft'
  BY <1>13 DEF Adopt, etcdVars, modeVars, localVars
<1>14. ASSUME NEW w \in Workers, SaveAdopted(w) PROVE WorkersLeft'
  BY <1>14 DEF SaveAdopted, etcdVars, managerVars, modeVars, localVars
<1>15. ASSUME NEW w \in Workers, UpdateDone(w) PROVE WorkersLeft'
  BY <1>15 DEF UpdateDone, etcdVars, managerVars, modeVars, localVars
<1>16. ASSUME SwitchMode PROVE WorkersLeft'
  BY <1>16, TakeEvent, ConfigAssumption DEF SwitchMode, etcdVars, localVars
<1>17. ASSUME FetchMode PROVE WorkersLeft'
  BY <1>17 DEF FetchMode, etcdVars, workerVars, localVars
<1>18. ASSUME Rewatch PROVE WorkersLeft'
  BY <1>18 DEF Rewatch, etcdVars, managerVars, localVars
<1>19. ASSUME SwitchDone PROVE WorkersLeft'
  BY <1>19 DEF SwitchDone, etcdVars, managerVars, workerVars, localVars
<1>20. ASSUME UNCHANGED vars PROVE WorkersLeft'
  BY <1>20 DEF vars, etcdVars, managerVars, modeVars, workerVars, localVars
<1>. QED
  BY <1>1, <1>2, <1>3, <1>4, <1>5, <1>6, <1>7, <1>8, <1>9, <1>10, <1>11, <1>12,
     <1>13, <1>14, <1>15, <1>16, <1>17, <1>18, <1>19, <1>20
  DEF Next, Start, Handler, Worker, ModeWatch, Others

\* stop_watch outlasts the two assignments of the worker it waits for.
LEMMA ReaderStep ==
  ASSUME IInv, [Next]_vars PROVE OneReader'
<1>. USE ConfigAssumption DEF IInv, OneReader, TypeOK, Workers, NotYet
<1>1. ASSUME Refetch PROVE OneReader'
  BY <1>1 DEF Refetch, etcdVars, modeVars, workerVars, localVars
<1>2. ASSUME StartWatches PROVE OneReader'
  BY <1>2 DEF StartWatches, etcdVars, managerVars, modeVars, localVars
<1>3. ASSUME NEW m \in Modes, PutMode(m) PROVE OneReader'
  BY <1>3 DEF PutMode, managerVars, workerVars, localVars
<1>4. ASSUME NEW m \in Modes, NEW c \in Contents, PutConfig(m, c) PROVE OneReader'
  BY <1>4 DEF PutConfig, managerVars, modeVars, localVars
<1>5. ASSUME NEW c \in Contents, Edit(c) PROVE OneReader'
  BY <1>5 DEF Edit, etcdVars, managerVars, modeVars, workerVars
<1>6. ASSUME NEW h \in Handlers, ReadFile(h) PROVE OneReader'
  BY <1>6 DEF ReadFile, etcdVars, managerVars, modeVars, workerVars
<1>7. ASSUME NEW h \in Handlers, Decide(h) PROVE OneReader'
  BY <1>7 DEF Decide, etcdVars, modeVars, workerVars
<1>8. ASSUME NEW h \in Handlers, Restore(h) PROVE OneReader'
  BY <1>8 DEF Restore, etcdVars, managerVars, modeVars, workerVars
<1>9. ASSUME NEW h \in Handlers, ChangeDone(h) PROVE OneReader'
  BY <1>9 DEF ChangeDone, etcdVars, managerVars, modeVars, workerVars
<1>10. ASSUME NEW w \in Workers, Receive(w) PROVE OneReader'
  BY <1>10 DEF Receive, etcdVars, modeVars, localVars
<1>11. ASSUME NEW w \in Workers, SetRaw(w) PROVE OneReader'
  BY <1>11 DEF SetRaw, etcdVars, modeVars, localVars
<1>12. ASSUME NEW w \in Workers, Test(w) PROVE OneReader'
  BY <1>12 DEF Test, etcdVars, managerVars, modeVars, localVars
<1>13. ASSUME NEW w \in Workers, Adopt(w) PROVE OneReader'
  BY <1>13 DEF Adopt, etcdVars, modeVars, localVars
<1>14. ASSUME NEW w \in Workers, SaveAdopted(w) PROVE OneReader'
  BY <1>14 DEF SaveAdopted, AfterSave, etcdVars, managerVars, modeVars, localVars
<1>15. ASSUME NEW w \in Workers, UpdateDone(w) PROVE OneReader'
  BY <1>15 DEF UpdateDone, etcdVars, managerVars, modeVars, localVars
<1>16. ASSUME SwitchMode PROVE OneReader'
  BY <1>16 DEF SwitchMode, etcdVars, localVars
<1>17. ASSUME FetchMode PROVE OneReader'
  BY <1>17 DEF FetchMode, Joined, etcdVars, workerVars, localVars
<1>18. ASSUME Rewatch PROVE OneReader'
  BY <1>18 DEF Rewatch, etcdVars, managerVars, localVars
<1>19. ASSUME SwitchDone PROVE OneReader'
  BY <1>19 DEF SwitchDone, etcdVars, managerVars, workerVars, localVars
<1>20. ASSUME UNCHANGED vars PROVE OneReader'
  BY <1>20 DEF vars, etcdVars, managerVars, modeVars, workerVars, localVars
<1>. QED
  BY <1>1, <1>2, <1>3, <1>4, <1>5, <1>6, <1>7, <1>8, <1>9, <1>10, <1>11, <1>12,
     <1>13, <1>14, <1>15, <1>16, <1>17, <1>18, <1>19, <1>20
  DEF Next, Start, Handler, Worker, ModeWatch, Others

\* remote_config and etcd_raw_content change together, but for one step.
LEMMA SourceStep ==
  ASSUME IInv, [Next]_vars PROVE SameSource'
<1>. USE DEF IInv, SameSource, OneReader, TypeOK, NotYet
<1>1. ASSUME Refetch PROVE SameSource'
  BY <1>1 DEF Refetch, etcdVars, modeVars, workerVars, localVars
<1>2. ASSUME StartWatches PROVE SameSource'
  BY <1>2 DEF StartWatches, etcdVars, managerVars, modeVars, localVars
<1>3. ASSUME NEW m \in Modes, PutMode(m) PROVE SameSource'
  BY <1>3 DEF PutMode, managerVars, workerVars, localVars
<1>4. ASSUME NEW m \in Modes, NEW c \in Contents, PutConfig(m, c) PROVE SameSource'
  BY <1>4 DEF PutConfig, managerVars, modeVars, localVars
<1>5. ASSUME NEW c \in Contents, Edit(c) PROVE SameSource'
  BY <1>5 DEF Edit, etcdVars, managerVars, modeVars, workerVars
<1>6. ASSUME NEW h \in Handlers, ReadFile(h) PROVE SameSource'
  BY <1>6 DEF ReadFile, etcdVars, managerVars, modeVars, workerVars
<1>7. ASSUME NEW h \in Handlers, Decide(h) PROVE SameSource'
  BY <1>7 DEF Decide, etcdVars, modeVars, workerVars
<1>8. ASSUME NEW h \in Handlers, Restore(h) PROVE SameSource'
  BY <1>8 DEF Restore, etcdVars, managerVars, modeVars, workerVars
<1>9. ASSUME NEW h \in Handlers, ChangeDone(h) PROVE SameSource'
  BY <1>9 DEF ChangeDone, etcdVars, managerVars, modeVars, workerVars
<1>10. ASSUME NEW w \in Workers, Receive(w) PROVE SameSource'
  BY <1>10 DEF Receive, etcdVars, modeVars, localVars
<1>11. ASSUME NEW w \in Workers, SetRaw(w) PROVE SameSource'
  BY <1>11 DEF SetRaw, NewRaw, etcdVars, modeVars, localVars
<1>12. ASSUME NEW w \in Workers, Test(w) PROVE SameSource'
  BY <1>12 DEF Test, etcdVars, managerVars, modeVars, localVars
<1>13. ASSUME NEW w \in Workers, Adopt(w) PROVE SameSource'
  BY <1>13 DEF Adopt, etcdVars, modeVars, localVars
<1>14. ASSUME NEW w \in Workers, SaveAdopted(w) PROVE SameSource'
  BY <1>14 DEF SaveAdopted, AfterSave, etcdVars, managerVars, modeVars, localVars
<1>15. ASSUME NEW w \in Workers, UpdateDone(w) PROVE SameSource'
  BY <1>15 DEF UpdateDone, etcdVars, managerVars, modeVars, localVars
<1>16. ASSUME SwitchMode PROVE SameSource'
  BY <1>16 DEF SwitchMode, etcdVars, localVars
<1>17. ASSUME FetchMode PROVE SameSource'
  BY <1>17 DEF FetchMode, Joined, etcdVars, workerVars, localVars
<1>18. ASSUME Rewatch PROVE SameSource'
  <2>1. wpc[cur] # "raw" /\ remote = Parse(raw)
    BY <1>18 DEF IInv, OneReader, SameSource, Rewatch
  <2>2. wpc' = wpc /\ cur' = cur + 1 /\ remote' = remote /\ raw' = raw
    BY <1>18 DEF Rewatch, managerVars
  <2>3. cur + 1 \in Workers /\ cur + 1 # cur
    <3>1. cur \in Nat /\ puts \in Nat /\ puts <= MaxPuts /\ Len(modeEvents) \in Nat /\ cur >= 1
      BY ConfigAssumption DEF IInv, TypeOK, Workers
    <3>2. cur + Len(modeEvents) + 1 <= puts + 1
      BY <1>18 DEF IInv, WorkersLeft, Switching, Rewatch
    <3>. QED
      BY <3>1, <3>2, ConfigAssumption DEF Workers
  <2>4. wpc[cur + 1] # "raw"
    BY <2>3 DEF IInv, OneReader
  <2>. QED
    BY <2>1, <2>2, <2>4 DEF SameSource
<1>19. ASSUME SwitchDone PROVE SameSource'
  BY <1>19 DEF SwitchDone, etcdVars, managerVars, workerVars, localVars
<1>20. ASSUME UNCHANGED vars PROVE SameSource'
  BY <1>20 DEF vars, etcdVars, managerVars, modeVars, workerVars, localVars
<1>. QED
  BY <1>1, <1>2, <1>3, <1>4, <1>5, <1>6, <1>7, <1>8, <1>9, <1>10, <1>11, <1>12,
     <1>13, <1>14, <1>15, <1>16, <1>17, <1>18, <1>19, <1>20
  DEF Next, Start, Handler, Worker, ModeWatch, Others

\* Whoever changes remote_config still has to test it against local_config.
LEMMA FollowedStep ==
  ASSUME IInv, [Next]_vars PROVE Followed'
<1>. USE DEF IInv, Followed, SameSource, OneReader, Pending, Saving, TypeOK, NotYet
<1>1. ASSUME Refetch PROVE Followed'
  BY <1>1 DEF Refetch, etcdVars, modeVars, workerVars, localVars
<1>2. ASSUME StartWatches PROVE Followed'
  BY <1>2 DEF StartWatches, etcdVars, managerVars, modeVars, localVars
<1>3. ASSUME NEW m \in Modes, PutMode(m) PROVE Followed'
  BY <1>3 DEF PutMode, managerVars, workerVars, localVars
<1>4. ASSUME NEW m \in Modes, NEW c \in Contents, PutConfig(m, c) PROVE Followed'
  BY <1>4 DEF PutConfig, managerVars, modeVars, localVars
<1>5. ASSUME NEW c \in Contents, Edit(c) PROVE Followed'
  BY <1>5 DEF Edit, etcdVars, managerVars, modeVars, workerVars
<1>6. ASSUME NEW h \in Handlers, ReadFile(h) PROVE Followed'
  BY <1>6 DEF ReadFile, etcdVars, managerVars, modeVars, workerVars
<1>7. ASSUME NEW h \in Handlers, Decide(h) PROVE Followed'
  BY <1>7 DEF Decide, etcdVars, modeVars, workerVars
<1>8. ASSUME NEW h \in Handlers, Restore(h) PROVE Followed'
  BY <1>8 DEF Restore, Save, etcdVars, managerVars, modeVars, workerVars
<1>9. ASSUME NEW h \in Handlers, ChangeDone(h) PROVE Followed'
  BY <1>9 DEF ChangeDone, etcdVars, managerVars, modeVars, workerVars
<1>10. ASSUME NEW w \in Workers, Receive(w) PROVE Followed'
  BY <1>10 DEF Receive, etcdVars, modeVars, localVars
<1>11. ASSUME NEW w \in Workers, SetRaw(w) PROVE Followed'
  BY <1>11 DEF SetRaw, etcdVars, modeVars, localVars
<1>12. ASSUME NEW w \in Workers, Test(w) PROVE Followed'
  BY <1>12 DEF Test, MustSync, etcdVars, managerVars, modeVars, localVars
<1>13. ASSUME NEW w \in Workers, Adopt(w) PROVE Followed'
  BY <1>13 DEF Adopt, etcdVars, modeVars, localVars
<1>14. ASSUME NEW w \in Workers, SaveAdopted(w) PROVE Followed'
  BY <1>14 DEF SaveAdopted, Save, AfterSave, etcdVars, managerVars, modeVars,
     localVars
<1>15. ASSUME NEW w \in Workers, UpdateDone(w) PROVE Followed'
  BY <1>15 DEF UpdateDone, etcdVars, managerVars, modeVars, localVars
<1>16. ASSUME SwitchMode PROVE Followed'
  BY <1>16 DEF SwitchMode, etcdVars, localVars
<1>17. ASSUME FetchMode PROVE Followed'
  BY <1>17 DEF FetchMode, etcdVars, workerVars, localVars
<1>18. ASSUME Rewatch PROVE Followed'
  BY <1>18 DEF Rewatch, etcdVars, managerVars, localVars
<1>19. ASSUME SwitchDone PROVE Followed'
  BY <1>19 DEF SwitchDone, etcdVars, managerVars, workerVars, localVars
<1>20. ASSUME UNCHANGED vars PROVE Followed'
  BY <1>20 DEF vars, etcdVars, managerVars, modeVars, workerVars, localVars
<1>. QED
  BY <1>1, <1>2, <1>3, <1>4, <1>5, <1>6, <1>7, <1>8, <1>9, <1>10, <1>11, <1>12,
     <1>13, <1>14, <1>15, <1>16, <1>17, <1>18, <1>19, <1>20
  DEF Next, Start, Handler, Worker, ModeWatch, Others

\* Whoever changes the file or local_config still has to save.
LEMMA WrittenStep ==
  ASSUME IInv, [Next]_vars PROVE Written'
<1>. USE DEF IInv, Written, Saving, TypeOK, NotYet
<1>1. ASSUME Refetch PROVE Written'
  BY <1>1 DEF Refetch, etcdVars, modeVars, workerVars, localVars
<1>2. ASSUME StartWatches PROVE Written'
  BY <1>2 DEF StartWatches, etcdVars, managerVars, modeVars, localVars
<1>3. ASSUME NEW m \in Modes, PutMode(m) PROVE Written'
  BY <1>3 DEF PutMode, managerVars, workerVars, localVars
<1>4. ASSUME NEW m \in Modes, NEW c \in Contents, PutConfig(m, c) PROVE Written'
  BY <1>4 DEF PutConfig, managerVars, modeVars, localVars
<1>5. ASSUME NEW c \in Contents, Edit(c) PROVE Written'
  BY <1>5 DEF Edit, etcdVars, managerVars, modeVars, workerVars
<1>6. ASSUME NEW h \in Handlers, ReadFile(h) PROVE Written'
  BY <1>6 DEF ReadFile, etcdVars, managerVars, modeVars, workerVars
<1>7. ASSUME NEW h \in Handlers, Decide(h) PROVE Written'
  BY <1>7 DEF Decide, etcdVars, modeVars, workerVars
<1>8. ASSUME NEW h \in Handlers, Restore(h) PROVE Written'
  BY <1>8 DEF Restore, Save, etcdVars, managerVars, modeVars, workerVars
<1>9. ASSUME NEW h \in Handlers, ChangeDone(h) PROVE Written'
  BY <1>9 DEF ChangeDone, etcdVars, managerVars, modeVars, workerVars
<1>10. ASSUME NEW w \in Workers, Receive(w) PROVE Written'
  BY <1>10 DEF Receive, etcdVars, modeVars, localVars
<1>11. ASSUME NEW w \in Workers, SetRaw(w) PROVE Written'
  BY <1>11 DEF SetRaw, etcdVars, modeVars, localVars
<1>12. ASSUME NEW w \in Workers, Test(w) PROVE Written'
  BY <1>12 DEF Test, etcdVars, managerVars, modeVars, localVars
<1>13. ASSUME NEW w \in Workers, Adopt(w) PROVE Written'
  BY <1>13 DEF Adopt, etcdVars, modeVars, localVars
<1>14. ASSUME NEW w \in Workers, SaveAdopted(w) PROVE Written'
  BY <1>14 DEF SaveAdopted, Save, AfterSave, etcdVars, managerVars, modeVars,
     localVars
<1>15. ASSUME NEW w \in Workers, UpdateDone(w) PROVE Written'
  BY <1>15 DEF UpdateDone, etcdVars, managerVars, modeVars, localVars
<1>16. ASSUME SwitchMode PROVE Written'
  BY <1>16 DEF SwitchMode, etcdVars, localVars
<1>17. ASSUME FetchMode PROVE Written'
  BY <1>17 DEF FetchMode, etcdVars, workerVars, localVars
<1>18. ASSUME Rewatch PROVE Written'
  BY <1>18 DEF Rewatch, etcdVars, managerVars, localVars
<1>19. ASSUME SwitchDone PROVE Written'
  BY <1>19 DEF SwitchDone, etcdVars, managerVars, workerVars, localVars
<1>20. ASSUME UNCHANGED vars PROVE Written'
  BY <1>20 DEF vars, etcdVars, managerVars, modeVars, workerVars, localVars
<1>. QED
  BY <1>1, <1>2, <1>3, <1>4, <1>5, <1>6, <1>7, <1>8, <1>9, <1>10, <1>11, <1>12,
     <1>13, <1>14, <1>15, <1>16, <1>17, <1>18, <1>19, <1>20
  DEF Next, Start, Handler, Worker, ModeWatch, Others

\* Whoever saves still has to restart JobLens.
LEMMA RestartStep ==
  ASSUME IInv, [Next]_vars PROVE RestartDue'
<1>. USE DEF IInv, RestartDue, TypeOK, NotYet
<1>1. ASSUME Refetch PROVE RestartDue'
  BY <1>1 DEF Refetch, etcdVars, modeVars, workerVars, localVars
<1>2. ASSUME StartWatches PROVE RestartDue'
  BY <1>2 DEF StartWatches, etcdVars, managerVars, modeVars, localVars
<1>3. ASSUME NEW m \in Modes, PutMode(m) PROVE RestartDue'
  BY <1>3 DEF PutMode, managerVars, workerVars, localVars
<1>4. ASSUME NEW m \in Modes, NEW c \in Contents, PutConfig(m, c) PROVE RestartDue'
  BY <1>4 DEF PutConfig, managerVars, modeVars, localVars
<1>5. ASSUME NEW c \in Contents, Edit(c) PROVE RestartDue'
  BY <1>5 DEF Edit, etcdVars, managerVars, modeVars, workerVars
<1>6. ASSUME NEW h \in Handlers, ReadFile(h) PROVE RestartDue'
  BY <1>6 DEF ReadFile, etcdVars, managerVars, modeVars, workerVars
<1>7. ASSUME NEW h \in Handlers, Decide(h) PROVE RestartDue'
  BY <1>7 DEF Decide, etcdVars, modeVars, workerVars
<1>8. ASSUME NEW h \in Handlers, Restore(h) PROVE RestartDue'
  BY <1>8 DEF Restore, Save, etcdVars, managerVars, modeVars, workerVars
<1>9. ASSUME NEW h \in Handlers, ChangeDone(h) PROVE RestartDue'
  BY <1>9 DEF ChangeDone, Restart, etcdVars, managerVars, modeVars, workerVars
<1>10. ASSUME NEW w \in Workers, Receive(w) PROVE RestartDue'
  BY <1>10 DEF Receive, etcdVars, modeVars, localVars
<1>11. ASSUME NEW w \in Workers, SetRaw(w) PROVE RestartDue'
  BY <1>11 DEF SetRaw, etcdVars, modeVars, localVars
<1>12. ASSUME NEW w \in Workers, Test(w) PROVE RestartDue'
  BY <1>12 DEF Test, etcdVars, managerVars, modeVars, localVars
<1>13. ASSUME NEW w \in Workers, Adopt(w) PROVE RestartDue'
  BY <1>13 DEF Adopt, etcdVars, modeVars, localVars
<1>14. ASSUME NEW w \in Workers, SaveAdopted(w) PROVE RestartDue'
  BY <1>14 DEF SaveAdopted, Save, AfterSave, etcdVars, managerVars, modeVars,
     localVars
<1>15. ASSUME NEW w \in Workers, UpdateDone(w) PROVE RestartDue'
  BY <1>15 DEF UpdateDone, Restart, etcdVars, managerVars, modeVars, localVars
<1>16. ASSUME SwitchMode PROVE RestartDue'
  BY <1>16 DEF SwitchMode, etcdVars, localVars
<1>17. ASSUME FetchMode PROVE RestartDue'
  BY <1>17 DEF FetchMode, etcdVars, workerVars, localVars
<1>18. ASSUME Rewatch PROVE RestartDue'
  BY <1>18 DEF Rewatch, etcdVars, managerVars, localVars
<1>19. ASSUME SwitchDone PROVE RestartDue'
  BY <1>19 DEF SwitchDone, Restart, etcdVars, managerVars, workerVars, localVars
<1>20. ASSUME UNCHANGED vars PROVE RestartDue'
  BY <1>20 DEF vars, etcdVars, managerVars, modeVars, workerVars, localVars
<1>. QED
  BY <1>1, <1>2, <1>3, <1>4, <1>5, <1>6, <1>7, <1>8, <1>9, <1>10, <1>11, <1>12,
     <1>13, <1>14, <1>15, <1>16, <1>17, <1>18, <1>19, <1>20
  DEF Next, Start, Handler, Worker, ModeWatch, Others

\* What the manager read, or failed to read, when it was made.
LEMMA InitType == Init => TypeOK
<1>. SUFFICES ASSUME Init PROVE TypeOK
  OBVIOUS
<1>1. PICK got \in Answers(etcdMode), old \in Contents, saved \in BOOLEAN :
        /\ remote = Parse(got) /\ raw = got
        /\ IF Usable(remote) /\ remote # Parse(old)
           THEN /\ local = remote
                /\ file = IF saved THEN raw ELSE old
                /\ behind = ~saved
           ELSE local = Parse(old) /\ file = old /\ behind = FALSE
  BY DEF Init
<1>2. got \in Contents
  BY <1>1, ConfigAssumption DEF Init, Answers, Contents
<1>3. remote \in Dicts /\ raw \in Contents
  BY <1>1, <1>2, ParseType
<1>4. local \in Dicts /\ file \in Contents \cup {"blank"}
  BY <1>1, <1>3, ParseType
<1>5. behind \in BOOLEAN
  BY <1>1
<1>6. cur \in Workers /\ puts \in 0 .. MaxPuts /\ edits \in 0 .. MaxEdits
  BY ConfigAssumption DEF Init, Workers
<1>7. modeEvents \in Seq(Modes) /\ events \in Seq(Contents)
  BY DEF Init
<1>8. wev \in [Workers -> Contents] /\ seen \in [Handlers -> Dicts]
  BY DEF Init, Contents, Dicts
<1>9. etcdMode \in Modes /\ mode \in Modes
  BY ConfigAssumption DEF Init
<1>. QED
  BY <1>3, <1>4, <1>5, <1>6, <1>7, <1>8, <1>9 DEF Init, TypeOK

\* The invariant holds when the manager was made: it has just synchronised.
LEMMA InitInv == Init => IInv
<1>. SUFFICES ASSUME Init PROVE IInv
  OBVIOUS
<1>1. TypeOK
  BY InitType
<1>2. NotYet /\ OneReader /\ RestartDue
  BY <1>1 DEF Init, NotYet, OneReader, RestartDue
<1>3. WorkersLeft
  BY DEF Init, WorkersLeft, Switching
<1>4. SameSource
  BY <1>1 DEF Init, SameSource, TypeOK
<1>5. Followed
  BY DEF Init, Followed
<1>6. Written
  BY DEF Init, Written
<1>. QED
  BY <1>1, <1>2, <1>3, <1>4, <1>5, <1>6 DEF IInv

\* Every step keeps the invariant.
LEMMA InvStep == IInv /\ [Next]_vars => IInv'
<1>. SUFFICES ASSUME IInv, [Next]_vars PROVE IInv'
  OBVIOUS
<1>. QED
  BY TypeStep, NotYetStep, WorkersStep, ReaderStep, SourceStep, FollowedStep,
     WrittenStep, RestartStep DEF IInv

\* The inductive invariant of the configuration manager.
THEOREM ConfigInvariant == Spec => []IInv
<1>. QED
  BY InitInv, InvStep, PTL DEF Spec

\* Every variable has its type.
THEOREM ConfigTypes == Spec => []TypeOK
<1>1. IInv => TypeOK
  BY DEF IInv
<1>. QED
  BY ConfigInvariant, <1>1, PTL

\* Whatever was edited and whichever threads raced, the file and the copy in
\* memory are in the end the configuration the manager last had from etcd.
THEOREM ConfigRestored == Spec => []RestoredToEtcd
<1>1. IInv => RestoredToEtcd
  <2>. SUFFICES ASSUME IInv, priority, Quiet, Usable(remote), ~behind
                PROVE  file = raw /\ local = remote
    BY DEF RestoredToEtcd
  <2>1. ~Pending /\ ~Saving /\ boot = "up" /\ ~dirty
        /\ (\A h \in Handlers : lpc[h] = "idle") /\ wpc[cur] = "idle"
    BY DEF Quiet, Pending, Saving, IInv, TypeOK
  <2>2. local = remote
    BY <2>1 DEF IInv, Followed
  <2>3. Parse(file) = local
    BY <2>1 DEF IInv, Written
  <2>4. remote = Parse(raw)
    BY <2>1 DEF IInv, SameSource
  <2>5. file = local /\ raw = remote
    BY <2>2, <2>3, <2>4, ConfigAssumption DEF Parse, Usable
  <2>. QED
    BY <2>2, <2>5
<1>. QED
  BY ConfigInvariant, <1>1, PTL

\* After every save JobLens has been started again once all is quiet.
THEOREM ConfigRestarted == Spec => []JobLensRestarted
<1>1. IInv => JobLensRestarted
  BY DEF IInv, RestartDue, JobLensRestarted, Quiet
<1>. QED
  BY ConfigInvariant, <1>1, PTL

-----------------------------------------------------------------------------
(* The lock.                                                               *)

\* The parts of the code that run with the lock.
InMode == mpc # "idle"
InConfig(w) == wpc[w] = "save"
InLocal(h) == lpc[h] \in {"save", "notify"}

\* The lock says who is in such a part, and there is only one.
LockOwned ==
  /\ lock = "mode" <=> InMode
  /\ lock = "config" <=> \E w \in Workers : InConfig(w)
  /\ lock = "local" <=> \E h \in Handlers : InLocal(h)
  /\ \A v, w \in Workers : InConfig(v) /\ InConfig(w) => v = w
  /\ \A g, h \in Handlers : InLocal(g) /\ InLocal(h) => g = h

\* Steps of threads that neither take nor release the lock.
LEMMA LockUntouched ==
  ASSUME LockOwned, lock' = lock, InMode' = InMode,
         \A w \in Workers : InConfig(w)' = InConfig(w),
         \A h \in Handlers : InLocal(h)' = InLocal(h)
  PROVE  LockOwned'
BY DEF LockOwned

\* The lock is taken when it is free, and released by the thread that has it.
LEMMA LockStep ==
  ASSUME TypeOK, LockOwned, [Next]_vars PROVE LockOwned'
<1>0. /\ wpc \in [Workers -> {"idle", "raw", "test", "lock", "save", "notify"}]
      /\ lpc \in [Handlers -> {"idle", "lock", "save", "notify"}]
  BY DEF TypeOK
<1>1. CASE Start \/ Others \/ UNCHANGED vars
  <2>1. UNCHANGED <<lock, mpc, wpc, lpc>>
    BY <1>1 DEF Start, Refetch, StartWatches, Others, PutMode, PutConfig, Edit,
       vars, modeVars, workerVars, localVars
  <2>. QED
    BY <2>1, LockUntouched DEF InMode, InConfig, InLocal
<1>2. ASSUME NEW h \in Handlers, ReadFile(h) \/ Restore(h) PROVE LockOwned'
  <2>1. /\ UNCHANGED <<lock, mpc, wpc>>
        /\ \A g \in Handlers : InLocal(g)' = InLocal(g)
    BY <1>0, <1>2 DEF ReadFile, Restore, modeVars, workerVars, InLocal
  <2>. QED
    BY <2>1, LockUntouched DEF InMode, InConfig
<1>3. ASSUME NEW h \in Handlers, Decide(h) PROVE LockOwned'
  <2>1. /\ lock = "free" /\ lock' = "local" /\ UNCHANGED <<mpc, wpc>>
        /\ \A g \in Handlers : InLocal(g)' <=> g = h \/ InLocal(g)
    BY <1>0, <1>3 DEF Decide, modeVars, workerVars, InLocal
  <2>. QED
    BY <2>1 DEF LockOwned, InMode, InConfig
<1>4. ASSUME NEW h \in Handlers, ChangeDone(h) PROVE LockOwned'
  <2>1. /\ lock' = "free" /\ UNCHANGED <<mpc, wpc>> /\ InLocal(h)
        /\ \A g \in Handlers : InLocal(g)' <=> g # h /\ InLocal(g)
    BY <1>0, <1>4 DEF ChangeDone, modeVars, workerVars, InLocal
  <2>. QED
    BY <2>1 DEF LockOwned, InMode, InConfig
<1>5. ASSUME NEW w \in Workers, Receive(w) \/ SetRaw(w) \/ Test(w) \/ UpdateDone(w)
      PROVE  LockOwned'
  <2>1. /\ UNCHANGED <<lock, mpc, lpc>>
        /\ \A v \in Workers : InConfig(v)' = InConfig(v)
    BY <1>0, <1>5 DEF Receive, SetRaw, Test, UpdateDone, modeVars, localVars, InConfig
  <2>. QED
    BY <2>1, LockUntouched DEF InMode, InLocal
<1>6. ASSUME NEW w \in Workers, Adopt(w) PROVE LockOwned'
  <2>1. /\ lock = "free" /\ lock' = "config" /\ UNCHANGED <<mpc, lpc>>
        /\ \A v \in Workers : InConfig(v)' <=> v = w \/ InConfig(v)
    BY <1>0, <1>6 DEF Adopt, modeVars, localVars, InConfig
  <2>. QED
    BY <2>1 DEF LockOwned, InMode, InLocal
<1>7. ASSUME NEW w \in Workers, SaveAdopted(w) PROVE LockOwned'
  <2>1. /\ lock' = "free" /\ UNCHANGED <<mpc, lpc>> /\ InConfig(w)
        /\ \A v \in Workers : InConfig(v)' <=> v # w /\ InConfig(v)
    BY <1>0, <1>7 DEF SaveAdopted, AfterSave, modeVars, localVars, InConfig
  <2>. QED
    BY <2>1 DEF LockOwned, InMode, InLocal
<1>8. CASE SwitchMode
  <2>1. /\ lock = "free" /\ UNCHANGED <<wpc, lpc>> /\ mpc = "idle"
        /\ \/ UNCHANGED <<lock, mpc>>
           \/ lock' = "mode" /\ mpc' = "join"
    BY <1>8 DEF SwitchMode, localVars
  <2>. QED
    BY <2>1 DEF LockOwned, InMode, InConfig, InLocal
<1>9. CASE FetchMode \/ Rewatch
  <2>1. UNCHANGED <<lock, wpc, lpc>> /\ mpc # "idle" /\ mpc' # "idle"
    BY <1>9 DEF FetchMode, Rewatch, workerVars, localVars
  <2>. QED
    BY <2>1, LockUntouched DEF InMode, InConfig, InLocal
<1>10. CASE SwitchDone
  <2>1. lock' = "free" /\ mpc = "notify" /\ mpc' = "idle" /\ UNCHANGED <<wpc, lpc>>
    BY <1>10 DEF SwitchDone, workerVars, localVars
  <2>. QED
    BY <2>1 DEF LockOwned, InMode, InConfig, InLocal
<1>. QED
  BY <1>1, <1>2, <1>3, <1>4, <1>5, <1>6, <1>7, <1>8, <1>9, <1>10
  DEF Next, Handler, Worker, ModeWatch

\* One thread at a time is in a part of the code that needs the lock: no two
\* saves overlap, and none overlaps a switch of the mode.
THEOREM ConfigLock == Spec => []LockOwned
<1>1. Init => LockOwned
  BY DEF Init, LockOwned, InMode, InConfig, InLocal
<1>2. IInv /\ LockOwned /\ [Next]_vars => LockOwned'
  BY LockStep DEF IInv
<1>. QED
  BY <1>1, <1>2, ConfigInvariant, PTL DEF Spec

\* A mode's thread that needs the lock it holds never gets on, and nobody else
\* does: from then on the manager adopts no configuration, undoes no edit and
\* writes no file.
THEOREM ConfigStuckForGood ==
  Spec => [][mpc = "stuck" => /\ mpc' = "stuck" /\ lock' = "mode"
                              /\ local' = local
                              /\ file' = file \/ edits' = edits + 1]_vars
<1>1. TypeOK /\ LockOwned /\ [Next]_vars
        => [mpc = "stuck" => /\ mpc' = "stuck" /\ lock' = "mode"
                             /\ local' = local
                             /\ file' = file \/ edits' = edits + 1]_vars
  <2>. SUFFICES ASSUME TypeOK, LockOwned, Next, mpc = "stuck"
                PROVE  /\ mpc' = "stuck" /\ lock' = "mode" /\ local' = local
                       /\ file' = file \/ edits' = edits + 1
    OBVIOUS
  <2>0. /\ lock = "mode"
        /\ \A w \in Workers : wpc[w] # "save"
        /\ \A h \in Handlers : lpc[h] \notin {"save", "notify"}
    BY DEF LockOwned, InMode, InConfig, InLocal
  <2>1. CASE Start \/ Others
    BY <2>0, <2>1 DEF Start, Refetch, StartWatches, Others, PutMode, PutConfig,
       Edit, managerVars, modeVars
  <2>2. ASSUME NEW h \in Handlers, Handler(h) PROVE ReadFile(h)
    BY <2>0, <2>2 DEF Handler, Decide, Restore, ChangeDone
  <2>3. ASSUME NEW w \in Workers, Worker(w)
        PROVE  Receive(w) \/ SetRaw(w) \/ Test(w) \/ UpdateDone(w)
    BY <2>0, <2>3 DEF Worker, Adopt, SaveAdopted
  <2>4. ~ModeWatch
    BY DEF ModeWatch, SwitchMode, FetchMode, Rewatch, SwitchDone
  <2>. QED
    BY <2>0, <2>1, <2>2, <2>3, <2>4 DEF Next, ReadFile, Receive, SetRaw, Test,
       UpdateDone, managerVars, modeVars
<1>2. IInv => TypeOK
  BY DEF IInv
<1>. QED
  BY <1>1, <1>2, ConfigInvariant, ConfigLock, PTL DEF Spec

-----------------------------------------------------------------------------
(* Empty configurations.                                                   *)

\* With one mode, what a thread decided to write stays usable until it is
\* written: remote_config changes only under the hands of the worker itself,
\* local_config under the lock.
UsableKept ==
  /\ mpc = "idle"
  /\ \A w \in Workers : wpc[w] = "lock" => Usable(remote)
  /\ \A w \in Workers : InConfig(w) => Usable(local)
  /\ \A h \in Handlers : lpc[h] = "save" => Usable(local)
  /\ cur = 1 /\ \A w \in Workers : wpc[w] # "idle" => w = cur

\* Without comments a content that is not empty is a configuration.
LEMMA OnlyConfigs ==
  ASSUME Comments = {}, NEW c \in Contents, c # "empty"
  PROVE  c \in Configs /\ Usable(Parse(c))
BY ConfigAssumption DEF Contents, Parse, Usable

\* A configuration is dumped as it is.
LEMMA DumpKeeps ==
  ASSUME NEW d \in Dicts, Usable(d) PROVE Usable(Parse(Dump(d)))
BY ConfigAssumption DEF Dicts, Usable, Parse, Dump

\* Nothing usable turns into nothing between a thread's test and its save.
LEMMA UsableStep ==
  ASSUME Modes = {FirstMode}, Comments = {}, TypeOK, NotYet, LockOwned, UsableKept,
         [Next]_vars
  PROVE  UsableKept'
<1>. USE DEF UsableKept
<1>0. /\ wpc \in [Workers -> {"idle", "raw", "test", "lock", "save", "notify"}]
      /\ lpc \in [Handlers -> {"idle", "lock", "save", "notify"}]
      /\ raw \in Contents /\ cur \in Workers
  BY DEF TypeOK
<1>1. CASE UNCHANGED <<wpc, lpc, mpc, cur, remote, local>>
  BY <1>1 DEF InConfig
<1>2. ASSUME Refetch PROVE UsableKept'
  <2>1. UNCHANGED <<wpc, lpc, mpc, cur, local>>
    BY <1>2 DEF Refetch, modeVars, workerVars, localVars
  <2>2. /\ \A w \in Workers : wpc[w] = "idle"
        /\ \A h \in Handlers : lpc[h] = "idle"
    BY <1>2 DEF NotYet, Refetch
  <2>. QED
    BY <2>1, <2>2 DEF InConfig
<1>3. CASE StartWatches \/ Others \/ UNCHANGED vars
  BY <1>1, <1>3 DEF StartWatches, Others, PutMode, PutConfig, Edit, vars, managerVars,
     modeVars, workerVars, localVars
<1>4. ASSUME NEW h \in Handlers, ReadFile(h) \/ Restore(h) \/ ChangeDone(h)
      PROVE  UsableKept'
  <2>1. /\ UNCHANGED <<wpc, mpc, cur, remote, local>>
        /\ \A g \in Handlers : lpc'[g] = "save" => lpc[g] = "save"
    BY <1>0, <1>4 DEF ReadFile, Restore, ChangeDone, managerVars, modeVars, workerVars
  <2>. QED
    BY <2>1 DEF InConfig
<1>5. ASSUME NEW h \in Handlers, Decide(h) PROVE UsableKept'
  <2>1. /\ \A w \in Workers : wpc[w] # "save"
        /\ \A g \in Handlers : lpc[g] # "save"
    BY <1>5 DEF Decide, LockOwned, InConfig, InLocal
  <2>2. UNCHANGED <<wpc, mpc, cur, remote>>
    BY <1>5 DEF Decide, modeVars, workerVars
  <2>3. ASSUME NEW g \in Handlers, lpc'[g] = "save" PROVE Usable(local')
    <3>1. raw # "empty" /\ local' = Parse(raw)
      BY <1>0, <1>5, <2>1, <2>3 DEF Decide
    <3>. QED
      BY <1>0, <3>1, OnlyConfigs
  <2>. QED
    BY <2>1, <2>2, <2>3 DEF InConfig
<1>6. ASSUME NEW w \in Workers, Receive(w) PROVE UsableKept'
  <2>1. /\ w = cur /\ wpc[w] = "idle" /\ wpc' = [wpc EXCEPT ![w] = "raw"]
        /\ UNCHANGED <<lpc, mpc, cur, local>>
    BY <1>6 DEF Receive, modeVars, localVars
  <2>. QED
    BY <1>0, <2>1 DEF InConfig
<1>7. ASSUME NEW w \in Workers, SetRaw(w) \/ Test(w) \/ UpdateDone(w)
      PROVE  UsableKept'
  <2>1. /\ wpc[w] # "idle" /\ UNCHANGED <<lpc, mpc, cur, remote, local>>
        /\ \A v \in Workers : v # w => wpc'[v] = wpc[v]
        /\ wpc'[w] # "save"
        /\ wpc'[w] = "lock" => Usable(remote)
    BY <1>0, <1>7 DEF SetRaw, Test, UpdateDone, MustSync, managerVars, modeVars, localVars
  <2>. QED
    BY <1>0, <2>1 DEF InConfig
<1>8. ASSUME NEW w \in Workers, Adopt(w) PROVE UsableKept'
  <2>1. \A h \in Handlers : lpc[h] # "save"
    BY <1>8 DEF Adopt, LockOwned, InLocal
  <2>2. /\ wpc[w] = "lock" /\ wpc' = [wpc EXCEPT ![w] = "save"] /\ local' = remote
        /\ UNCHANGED <<lpc, mpc, cur, remote>>
    BY <1>8 DEF Adopt, modeVars, localVars
  <2>3. Usable(local')
    BY <2>2
  <2>. QED
    BY <1>0, <2>1, <2>2, <2>3 DEF InConfig
<1>9. ASSUME NEW w \in Workers, SaveAdopted(w) PROVE UsableKept'
  <2>1. /\ wpc[w] = "save" /\ wpc' = [wpc EXCEPT ![w] = "notify"]
        /\ UNCHANGED <<lpc, mpc, cur, remote, local>>
    BY <1>9 DEF SaveAdopted, AfterSave, managerVars, modeVars, localVars
  <2>. QED
    BY <1>0, <2>1 DEF InConfig
<1>10. CASE ModeWatch
  <2>1. SwitchMode
    BY <1>10 DEF ModeWatch, FetchMode, Rewatch, SwitchDone
  <2>2. Head(modeEvents) = mode
    <3>1. Head(modeEvents) \in Modes /\ mode \in Modes
      BY <2>1, TakeEvent DEF SwitchMode, TypeOK
    <3>. QED
      BY <3>1
  <2>. QED
    BY <1>1, <2>1, <2>2 DEF SwitchMode, localVars
<1>. QED
  BY <1>2, <1>3, <1>4, <1>5, <1>6, <1>7, <1>8, <1>9, <1>10
  DEF Next, Start, Handler, Worker

\* Line 92 holds as long as the mode never changes and etcd holds no content
\* that parses to nothing: the manager then never writes an empty
\* configuration.  NoEmptyLanding fails only because of these two.
THEOREM ConfigNoEmptyLanding ==
  ASSUME Modes = {FirstMode}, Comments = {} PROVE Spec => NoEmptyLanding
<1> DEFINE Lands == file' # file /\ edits' = edits => Usable(Parse(file'))
<1>1. Init => UsableKept
  BY DEF Init, UsableKept, InConfig
<1>2. IInv /\ LockOwned /\ UsableKept /\ [Next]_vars => UsableKept'
  BY UsableStep DEF IInv
<1>3. IInv /\ UsableKept /\ [Next]_vars => [Lands]_vars
  <2>. SUFFICES ASSUME IInv, UsableKept, Next, file' # file, edits' = edits
                PROVE  Usable(Parse(file'))
    OBVIOUS
  <2>0. raw \in Contents /\ local \in Dicts /\ edits \in Nat
    BY DEF IInv, TypeOK
  <2>1. ASSUME Save, Usable(local) PROVE Usable(Parse(file'))
    BY <2>0, <2>1, OnlyConfigs, DumpKeeps DEF Save
  <2>2. \/ \E h \in Handlers : Restore(h)
        \/ \E w \in Workers : SaveAdopted(w)
    <3>1. CASE Start \/ ModeWatch
      BY <3>1 DEF Start, Refetch, StartWatches, ModeWatch, SwitchMode, FetchMode,
         Rewatch, SwitchDone
    <3>2. CASE Others
      BY <2>0, <3>2 DEF Others, PutMode, PutConfig, Edit
    <3>3. ASSUME NEW h \in Handlers, Handler(h) PROVE Restore(h)
      BY <3>3 DEF Handler, ReadFile, Decide, ChangeDone
    <3>4. ASSUME NEW w \in Workers, Worker(w) PROVE SaveAdopted(w)
      BY <3>4 DEF Worker, Receive, SetRaw, Test, Adopt, UpdateDone
    <3>. QED
      BY <3>1, <3>2, <3>3, <3>4 DEF Next
  <2>. QED
    BY <2>1, <2>2 DEF Restore, SaveAdopted, UsableKept, InConfig
<1>. QED
  BY <1>1, <1>2, <1>3, ConfigInvariant, ConfigLock, PTL DEF Spec, NoEmptyLanding
=============================================================================
