------------------------- MODULE JobSafetyProofs -------------------------
(***************************************************************************)
(* Proofs that registered jobs are monitored and that the records agree    *)
(* with the table, for any number of clients, collectors, jobs, requests   *)
(* and crashes, whatever JobIDs are added again and when, and however      *)
(* early requests come.                                                    *)
(*                                                                         *)
(* The argument: a job that is in the table is not being deleted (Erased), *)
(* so whatever its addition has done stays, and what it has not done yet   *)
(* is still to be done by the thread that inserted it (Linked, Recorded).  *)
(* Where the code breaks the argument - a job inserted during a deletion   *)
(* of its id, an addition that finds no callback, a restored job that is   *)
(* refused - the history variables say so, and of no other job.            *)
(***************************************************************************)
EXTENDS JobLifecycleProofs, WellFoundedInduction

\* Deletion starts by taking the job out of the table.
Erased == \A j \in jobs \ reused : ~Deleting(j)

\* Only a client that deletes several jobs has more of them to clean up.
OwnRest ==
  \A t \in Threads \ Collectors :
    th[t].rest # {} => t \in Clients /\ th[t].pc \in {"unlink", "archive"}

\* A collector with jobs runs, or its start failed.
Served ==
  \A c \in Collectors :
    jobList[c] # {} => running[c] \/ handle[c] \in {"failed", "refused"}

\* A job in the table is in each list, or its addition will put it there.
Coming(j, c) ==
  \E t \in Threads :
    /\ th[t].id = j
    /\ th[t].pc = "copy" \/ (th[t].pc = "link" /\ c \in th[t].todo)
Linked ==
  \A j \in jobs \ (reused \cup missed), c \in Collectors :
    j \in jobList[c] \/ Coming(j, c)

\* A job in the table has its record, or its addition will write it.
Adding(j) == \E t \in Threads : th[t].id = j /\ th[t].pc \in {"copy", "link", "persist"}
Recorded == \A j \in jobs \ reused : j \in db \/ Adding(j)

\* A record without a job is one to restore or one that is being deleted.
Restoring(j) == j \in restore \/ (th[Main].pc = "emplace" /\ th[Main].id = j)
Removed == \A j \in db \ orphans : j \in jobs \/ Deleting(j) \/ Restoring(j)

\* The invariant, of which the first parts are those of JobLifecycleProofs.
Safe == WorkOK /\ IInv /\ Erased /\ OwnRest /\ Served /\ Linked /\ Recorded /\ Removed

-----------------------------------------------------------------------------
(* What a step does to its thread: the thread's new place, job, collectors *)
(* and further jobs.  All other threads stay where they are.               *)

Moves(t, p, j, s, q) ==
  /\ th'[t].pc = p /\ th'[t].id = j /\ th'[t].todo = s /\ th'[t].rest = q
  /\ \A u \in Threads \ {t} : th'[u] = th[u]

Stops(t) == Moves(t, "idle", 0, {}, {})
GoesTo(t, p) == Moves(t, p, th[t].id, th[t].todo, th[t].rest)
NextJob(t) ==
  \E j \in th[t].rest : Moves(t, "unlink", j, Collectors, th[t].rest \ {j})

\* A thread that becomes idle.
LEMMA IdleShape ==
  ASSUME WorkOK, NEW t \in Threads, th' = [th EXCEPT ![t] = Idle] PROVE Stops(t)
BY DEF WorkOK, ThreadsOK, Moves, Stops, Idle

\* A thread that goes on with its call.
LEMMA GotoShape ==
  ASSUME WorkOK, NEW t \in Threads, NEW p, Goto(t, p) PROVE GoesTo(t, p)
BY DEF WorkOK, ThreadsOK, Thread, Moves, GoesTo, Goto

\* A thread that begins a loop, or goes on in it.
LEMMA LoopShape ==
  ASSUME WorkOK, NEW t \in Threads, NEW p, NEW s,
         th' = [th EXCEPT ![t].pc = p, ![t].todo = s]
  PROVE  Moves(t, p, th[t].id, s, th[t].rest)
BY DEF WorkOK, ThreadsOK, Thread, Moves

\* A thread that begins a call.
LEMMA BeginShape ==
  ASSUME WorkOK, NEW t \in Threads, NEW p, NEW j, NEW s, NEW q, NEW w, NEW r,
         th' = [th EXCEPT ![t] = r],
         \/ r = [Idle EXCEPT !.pc = p, !.id = j] /\ s = {} /\ q = {}
         \/ r = [Idle EXCEPT !.pc = p, !.id = j, !.want = w] /\ s = {} /\ q = {}
         \/ r = [Idle EXCEPT !.pc = p, !.id = j, !.rest = q] /\ s = {}
         \/ r = [Idle EXCEPT !.pc = p, !.id = j, !.todo = s, !.rest = q]
  PROVE  Moves(t, p, j, s, q)
<1>1. r.pc = p /\ r.id = j /\ r.todo = s /\ r.rest = q
  BY DEF Idle
<1>. QED
  BY <1>1 DEF WorkOK, ThreadsOK, Moves

\* A call that returns: a callback collects, others stop or clean up the next.
LEMMA ReturnShape ==
  ASSUME WorkOK, NEW t \in Threads, Return(t)
  PROVE  \/ t \in Collectors /\ GoesTo(t, "collect")
         \/ t \notin Collectors /\ th[t].rest = {} /\ Stops(t)
         \/ t \notin Collectors /\ NextJob(t)
<1>1. CASE t \in Collectors
  BY <1>1, GotoShape DEF Return
<1>2. CASE t \notin Collectors /\ th[t].rest = {}
  BY <1>2, IdleShape DEF Return
<1>3. CASE t \notin Collectors /\ th[t].rest # {}
  <2>1. PICK j \in th[t].rest :
          th' = [th EXCEPT ![t] = [Idle EXCEPT !.pc = "unlink", !.id = j,
                     !.todo = Collectors, !.rest = th[t].rest \ {j}]]
    BY <1>3 DEF Return
  <2>2. Moves(t, "unlink", j, Collectors, th[t].rest \ {j})
    BY <2>1, BeginShape
  <2>. QED
    BY <1>3, <2>2 DEF NextJob
<1>. QED
  BY <1>1, <1>2, <1>3

\* addJob begins.
LEMMA AddShape ==
  ASSUME WorkOK, NEW t \in Clients, AddJob(t)
  PROVE  /\ th[t].pc = "idle"
         /\ \E j \in JobIds : Moves(t, "emplace", j, {}, {})
         /\ UNCHANGED <<jobs, db, jobList, running, timers, handle, attached, restore, reused, missed, orphans>>
<1>1. PICK r \in RequestIds :
        /\ r = 0 => nextJobId \in JobIds
        /\ th' = [th EXCEPT ![t] = [Idle EXCEPT !.pc = "emplace", !.id = IdFor(r)]]
  BY DEF AddJob
<1>2. IdFor(r) \in JobIds
  BY <1>1, RequestAssumption, RegistryAssumption DEF IdFor, JobIds
<1>3. t \in Threads
  BY DEF Threads
<1>4. Moves(t, "emplace", IdFor(r), {}, {})
  BY <1>1, <1>3, BeginShape
<1>. QED
  BY <1>2, <1>4 DEF AddJob, schedVars, historyVars

\* The job is inserted, or refused.
LEMMA EmplaceShape ==
  ASSUME WorkOK, NEW t \in Threads, EmplaceJob(t)
  PROVE  /\ th[t].pc = "emplace"
         /\ \/ /\ Stops(t) /\ UNCHANGED <<jobs, reused, missed>>
               /\ orphans' = IF t = Main /\ th[t].id \notin jobs
                             THEN orphans \cup {th[t].id} ELSE orphans
            \/ /\ GoesTo(t, "copy") /\ jobs' = jobs \cup {th[t].id}
               /\ reused' = IF Deleting(th[t].id) THEN reused \cup {th[t].id}
                                                  ELSE reused \ {th[t].id}
               /\ missed' = missed \ {th[t].id} /\ orphans' = orphans \ {th[t].id}
         /\ UNCHANGED <<db, jobList, running, timers, handle, attached, restore>>
<1>1. /\ th[t].pc = "emplace"
      /\ UNCHANGED <<db, jobList, running, timers, handle, attached, restore>>
  BY DEF EmplaceJob, schedVars, bookVars
<1>2. CASE /\ th' = [th EXCEPT ![t] = Idle] /\ UNCHANGED <<jobs, reused, missed>>
           /\ orphans' = IF t = Main /\ th[t].id \notin jobs
                         THEN orphans \cup {th[t].id} ELSE orphans
  BY <1>1, <1>2, IdleShape
<1>3. CASE /\ jobs' = jobs \cup {th[t].id} /\ Goto(t, "copy")
           /\ reused' = IF Deleting(th[t].id) THEN reused \cup {th[t].id}
                                              ELSE reused \ {th[t].id}
           /\ missed' = missed \ {th[t].id} /\ orphans' = orphans \ {th[t].id}
  BY <1>1, <1>3, GotoShape
<1>. QED
  BY <1>2, <1>3 DEF EmplaceJob, Emplace

\* The job is copied, unless it has gone.
LEMMA CopyShape ==
  ASSUME WorkOK, NEW t \in Threads, CopyJob(t)
  PROVE  /\ th[t].pc = "copy"
         /\ \/ th[t].id \in jobs /\ Moves(t, "link", th[t].id, Collectors, th[t].rest)
            \/ th[t].id \notin jobs /\ Stops(t)
         /\ UNCHANGED <<jobs, db, jobList, running, timers, handle, attached, restore, reused, missed, orphans>>
BY IdleShape, LoopShape DEF CopyJob, Loop, registryVars, schedVars, bookVars, historyVars

\* A loop over no callbacks.
LEMMA NoCallbackShape ==
  ASSUME WorkOK, NEW t \in Threads, NoCallback(t)
  PROVE  /\ ~attached
         /\ \/ th[t].pc = "link" /\ GoesTo(t, "persist") /\ missed' = missed \cup {th[t].id}
            \/ th[t].pc = "unlink" /\ GoesTo(t, "archive") /\ missed' = missed
         /\ UNCHANGED <<jobs, db, jobList, running, timers, handle, attached, restore, reused, orphans>>
BY GotoShape DEF NoCallback, registryVars, schedVars, bookVars

\* The job is put into one list.
LEMMA LinkShape ==
  ASSUME WorkOK, NEW t \in Threads, LinkJob(t)
  PROVE  /\ th[t].pc = "link"
         /\ \E c \in th[t].todo :
              /\ c \in Collectors /\ AddJob2Collector(th[t].id, c)
              /\ \/ th[t].todo = {c} /\ Moves(t, "persist", th[t].id, {}, th[t].rest)
                 \/ Moves(t, "link", th[t].id, th[t].todo \ {c}, th[t].rest)
         /\ attached /\ UNCHANGED <<jobs, db, attached, restore, reused, missed, orphans>>
<1>1. PICK c \in th[t].todo :
        /\ AddJob2Collector(th[t].id, c)
        /\ th' = [th EXCEPT ![t].todo = @ \ {c},
                    ![t].pc = IF th[t].todo = {c} THEN "persist" ELSE "link"]
  BY DEF LinkJob
<1>2. c \in Collectors
  BY DEF WorkOK, ThreadsOK, Thread
<1>. DEFINE p == IF th[t].todo = {c} THEN "persist" ELSE "link"
<1>4. Moves(t, p, th[t].id, th[t].todo \ {c}, th[t].rest)
  <2>1. th' = [th EXCEPT ![t].pc = p, ![t].todo = th[t].todo \ {c}]
    BY <1>1 DEF WorkOK, ThreadsOK, Thread
  <2>. HIDE DEF p
  <2>. QED
    BY <2>1, LoopShape
<1>5. \/ th[t].todo = {c} /\ Moves(t, "persist", th[t].id, {}, th[t].rest)
      \/ Moves(t, "link", th[t].id, th[t].todo \ {c}, th[t].rest)
  BY <1>4
<1>. QED
  BY <1>1, <1>2, <1>5 DEF LinkJob, registryVars, bookVars, historyVars

\* The job's record is written.
LEMMA PersistShape ==
  ASSUME WorkOK, NEW t \in Threads, PersistJob(t)
  PROVE  /\ th[t].pc = "persist" /\ Stops(t)
         /\ db' = IF th[t].id \in jobs THEN db \cup {th[t].id} ELSE db
         /\ UNCHANGED <<jobs, jobList, running, timers, handle, attached, restore, reused, missed, orphans>>
BY IdleShape DEF PersistJob, Persist, schedVars, bookVars, historyVars

\* A client looks a job up.
LEMMA QueryShape ==
  ASSUME WorkOK, NEW t \in Clients, QueryJob(t)
  PROVE  /\ th[t].pc = "idle"
         /\ \E j \in jobs : Moves(t, "lookup", j, {}, {})
         /\ UNCHANGED <<jobs, db, jobList, running, timers, handle, attached, restore, reused, missed, orphans>>
<1>1. PICK j \in jobs, w \in BOOLEAN :
        th' = [th EXCEPT ![t] = [Idle EXCEPT !.pc = "lookup", !.id = j, !.want = w]]
  BY DEF QueryJob
<1>2. Moves(t, "lookup", j, {}, {})
  BY <1>1, BeginShape DEF Threads
<1>. QED
  BY <1>2 DEF QueryJob, registryVars, schedVars, bookVars, historyVars

\* A client takes some jobs out of the table.
LEMMA MatcherShape ==
  ASSUME WorkOK, NEW t \in Clients, DeleteByMatcher(t)
  PROVE  /\ th[t].pc = "idle"
         /\ \E S \in SUBSET jobs : \E j \in S :
              /\ jobs' = jobs \ S
              /\ Moves(t, "unlink", j, Collectors, S \ {j})
         /\ UNCHANGED <<db, jobList, running, timers, handle, attached, restore, reused, missed, orphans>>
<1>1. PICK S \in SUBSET jobs : \E j \in S :
        /\ th' = [th EXCEPT ![t] = [Idle EXCEPT !.pc = "unlink", !.id = j,
                                      !.todo = Collectors, !.rest = S \ {j}]]
        /\ jobs' = jobs \ S
  BY DEF DeleteByMatcher
<1>2. PICK j \in S :
        /\ th' = [th EXCEPT ![t] = [Idle EXCEPT !.pc = "unlink", !.id = j,
                                      !.todo = Collectors, !.rest = S \ {j}]]
        /\ jobs' = jobs \ S
  BY <1>1
<1>3. Moves(t, "unlink", j, Collectors, S \ {j})
  BY <1>2, BeginShape DEF Threads
<1>. QED
  BY <1>2, <1>3 DEF DeleteByMatcher, schedVars, bookVars, historyVars

\* A lookup only rewrites the record of a job in the table.
LEMMA FindShape ==
  ASSUME WorkOK, NEW t \in Threads, FindJob(t)
  PROVE  /\ th[t].pc = "lookup"
         /\ Return(t) \/ GoesTo(t, "erase")
         /\ db' = db \/ (th[t].id \in jobs /\ db' = db \cup {th[t].id})
         /\ UNCHANGED <<jobs, jobList, running, timers, handle, attached, restore, reused, missed, orphans>>
BY GotoShape DEF FindJob, schedVars, bookVars, historyVars

\* A deletion takes the job out of the table, if it is there.
LEMMA DelShape ==
  ASSUME WorkOK, NEW t \in Threads, DelJob(t)
  PROVE  /\ th[t].pc = "erase"
         /\ \/ /\ jobs' = jobs \ {th[t].id}
               /\ Moves(t, "unlink", th[t].id, Collectors, th[t].rest)
            \/ Return(t) /\ jobs' = jobs
         /\ UNCHANGED <<db, jobList, running, timers, handle, attached, restore, reused, missed, orphans>>
BY LoopShape DEF DelJob, EraseJob, Loop, schedVars, bookVars, historyVars

\* The job is taken out of one list.
LEMMA UnlinkShape ==
  ASSUME WorkOK, NEW t \in Threads, UnlinkJob(t)
  PROVE  /\ th[t].pc = "unlink"
         /\ \E c \in th[t].todo :
              jobList' = [jobList EXCEPT ![c] = @ \ {th[t].id}]
         /\ \E p \in {"unlink", "archive"}, s \in SUBSET Collectors :
              Moves(t, p, th[t].id, s, th[t].rest)
         /\ UNCHANGED <<jobs, db, running, timers, handle, attached, restore, reused, missed, orphans>>
<1>1. PICK c \in th[t].todo :
        /\ RmJobFromCollector(th[t].id, c)
        /\ th' = [th EXCEPT ![t].todo = @ \ {c},
                    ![t].pc = IF th[t].todo = {c} THEN "archive" ELSE "unlink"]
  BY DEF UnlinkJob
<1>. DEFINE p == IF th[t].todo = {c} THEN "archive" ELSE "unlink"
<1>2. th' = [th EXCEPT ![t].pc = p, ![t].todo = th[t].todo \ {c}]
  BY <1>1 DEF WorkOK, ThreadsOK, Thread
<1>3. p \in {"unlink", "archive"} /\ th[t].todo \ {c} \in SUBSET Collectors
  BY DEF WorkOK, ThreadsOK, Thread
<1>. HIDE DEF p
<1>4. Moves(t, p, th[t].id, th[t].todo \ {c}, th[t].rest)
  BY <1>2, LoopShape
<1>. QED
  BY <1>1, <1>3, <1>4 DEF UnlinkJob, RmJobFromCollector, registryVars, bookVars, historyVars

\* The record goes.
LEMMA ArchiveShape ==
  ASSUME WorkOK, NEW t \in Threads, ArchiveJob(t)
  PROVE  /\ th[t].pc = "archive" /\ Return(t) /\ db' = db \ {th[t].id}
         /\ UNCHANGED <<jobs, jobList, running, timers, handle, attached, restore, reused, missed, orphans>>
BY DEF ArchiveJob, Archive, schedVars, bookVars, historyVars

\* A collector stops, or begins to look its jobs up.
LEMMA TickShape ==
  ASSUME WorkOK, NEW c \in Collectors, Tick(c)
  PROVE  /\ th[c].pc = "idle" /\ timers[c] > 0
         /\ \/ jobList[c] = {} /\ StopCollector(c) /\ th' = th
            \/ /\ \E j \in JobIds, q \in SUBSET JobIds : Moves(c, "lookup", j, {}, q)
               /\ UNCHANGED <<jobList, running, timers, handle>>
         /\ UNCHANGED <<jobs, db, attached, restore, reused, missed, orphans>>
<1>1. CASE IsIdle(c) /\ StopCollector(c) /\ UNCHANGED th
  BY <1>1 DEF IsIdle, Tick, registryVars, bookVars, historyVars
<1>2. ASSUME UNCHANGED schedVars, NEW j \in jobList[c],
             th' = [th EXCEPT ![c] = [Idle EXCEPT !.pc = "lookup", !.id = j,
                                                  !.rest = jobList[c]]]
      PROVE  \E i \in JobIds, q \in SUBSET JobIds : Moves(c, "lookup", i, {}, q)
  <2>1. c \in Threads /\ j \in JobIds /\ jobList[c] \in SUBSET JobIds
    BY DEF WorkOK, TablesOK, Threads
  <2>2. Moves(c, "lookup", j, {}, jobList[c])
    BY <1>2, <2>1, BeginShape
  <2>. QED
    BY <2>1, <2>2
<1>. QED
  BY <1>1, <1>2 DEF Tick, registryVars, bookVars, historyVars, schedVars

\* A collector goes on to its next job, or is done.
LEMMA CollectShape ==
  ASSUME WorkOK, NEW c \in Collectors, Collect(c)
  PROVE  /\ th[c].pc = "collect"
         /\ Stops(c) \/ \E j \in JobIds, q \in SUBSET JobIds : Moves(c, "lookup", j, {}, q)
         /\ UNCHANGED <<jobs, db, jobList, running, timers, handle, attached, restore, reused, missed, orphans>>
<1>1. c \in Threads
  BY DEF Threads
<1>. DEFINE left == th[c].rest \ {th[c].id}
<1>2. left \in SUBSET JobIds
  BY <1>1 DEF WorkOK, ThreadsOK, Thread
<1>3. \/ th' = [th EXCEPT ![c] = Idle]
      \/ \E j \in left :
           th' = [th EXCEPT ![c] = [Idle EXCEPT !.pc = "lookup", !.id = j, !.rest = left]]
  BY DEF Collect
<1>. HIDE DEF left
<1>4. ASSUME NEW j \in left,
             th' = [th EXCEPT ![c] = [Idle EXCEPT !.pc = "lookup", !.id = j, !.rest = left]]
      PROVE  j \in JobIds /\ Moves(c, "lookup", j, {}, left)
  BY <1>1, <1>2, <1>4, BeginShape
<1>5. Stops(c) \/ \E j \in JobIds, q \in SUBSET JobIds : Moves(c, "lookup", j, {}, q)
  BY <1>1, <1>2, <1>3, <1>4, IdleShape
<1>. QED
  BY <1>5 DEF Collect, registryVars, schedVars, bookVars, historyVars

\* Main goes on with a restored job.
LEMMA RestoreShape ==
  ASSUME WorkOK, RestoreNext
  PROVE  /\ attached /\ th[Main].pc = "idle"
         /\ \E j \in restore : Moves(Main, "emplace", j, {}, {}) /\ restore' = restore \ {j}
         /\ UNCHANGED <<jobs, db, jobList, running, timers, handle, attached, reused, missed, orphans>>
<1>1. PICK j \in restore :
        /\ th' = [th EXCEPT ![Main] = [Idle EXCEPT !.pc = "emplace", !.id = j]]
        /\ restore' = restore \ {j}
  BY DEF RestoreNext
<1>2. Moves(Main, "emplace", j, {}, {})
  BY <1>1, BeginShape DEF Threads
<1>. QED
  BY <1>1, <1>2 DEF RestoreNext, registryVars, schedVars, historyVars

-----------------------------------------------------------------------------
(* What the step of one thread changes in the relations the invariant is   *)
(* about.                                                                  *)

\* Only the thread that moves can begin, or cease, to delete or add a job.
LEMMA DeletingMoves ==
  ASSUME NEW t \in Threads, NEW p, NEW j, NEW s, NEW q, Moves(t, p, j, s, q), NEW x
  PROVE  /\ Deleting(x)' =>
              Deleting(x) \/ (p \in {"unlink", "archive"} /\ (x = j \/ (t \in Clients /\ x \in q)))
         /\ Deleting(x) =>
              Deleting(x)' \/ (th[t].pc \in {"unlink", "archive"} /\ Holds(t, x))
         /\ p \in {"unlink", "archive"} /\ (x = j \/ (t \in Clients /\ x \in q)) => Deleting(x)'
BY DEF Moves, Deleting, Holds

\* The same about adding.
LEMMA AddingMoves ==
  ASSUME NEW t \in Threads, NEW p, NEW j, NEW s, NEW q, Moves(t, p, j, s, q), NEW x
  PROVE  /\ Adding(x) =>
              Adding(x)' \/ (th[t].id = x /\ th[t].pc \in {"copy", "link", "persist"})
         /\ p \in {"copy", "link", "persist"} /\ x = j => Adding(x)'
BY DEF Moves, Adding

\* The same about a list.
LEMMA ComingMoves ==
  ASSUME NEW t \in Threads, NEW p, NEW j, NEW s, NEW q, Moves(t, p, j, s, q), NEW x, NEW c
  PROVE  /\ Coming(x, c) =>
              \/ Coming(x, c)'
              \/ th[t].id = x /\ (th[t].pc = "copy" \/ (th[t].pc = "link" /\ c \in th[t].todo))
         /\ (p = "copy" \/ (p = "link" /\ c \in s)) /\ x = j => Coming(x, c)'
BY DEF Moves, Coming

\* A lookup, and a deletion that finds nothing, return to their caller.
LEMMA PlainReturn ==
  ASSUME WorkOK, OwnRest, NEW t \in Threads, th[t].pc \in {"lookup", "erase"}, Return(t)
  PROVE  GoesTo(t, "collect") \/ Stops(t)
BY ReturnShape DEF OwnRest, NextJob

\* The jobs a deletion has still to clean up have been taken out before.
LEMMA NextReturn ==
  ASSUME WorkOK, OwnRest, NEW t \in Threads, Return(t)
  PROVE  GoesTo(t, "collect") \/ Stops(t) \/ (t \in Clients /\ NextJob(t))
BY ReturnShape DEF OwnRest, NextJob, Threads


\* The same about restoring.
LEMMA RestoringMoves ==
  ASSUME NEW t \in Threads, NEW p, NEW j, NEW s, NEW q, Moves(t, p, j, s, q),
         restore' = restore, NEW x, Restoring(x)
  PROVE  Restoring(x)' \/ (t = Main /\ th[t].pc = "emplace" /\ th[t].id = x)
BY DEF Moves, Restoring, Threads

\* A job comes into the table only when its deletion is over.
LEMMA ErasedStep ==
  ASSUME Safe, [Next]_vars PROVE Erased'
<1>. USE DEF Safe, Erased
<1>0. Clients \subseteq Threads /\ Collectors \subseteq Threads /\ Main \in Threads
  BY DEF Threads
<1>1. ASSUME NEW t \in Clients, AddJob(t) PROVE Erased'
  BY <1>0, <1>1, AddShape, DeletingMoves DEF GoesTo, Stops
<1>2. ASSUME NEW t \in Threads, EmplaceJob(t) PROVE Erased'
  <2>1. CASE Stops(t) /\ UNCHANGED <<jobs, reused>>
    BY <2>1, DeletingMoves DEF Stops
  <2>2. CASE /\ GoesTo(t, "copy") /\ jobs' = jobs \cup {th[t].id}
             /\ reused' = IF Deleting(th[t].id) THEN reused \cup {th[t].id}
                                                ELSE reused \ {th[t].id}
    <3>1. \A x : Deleting(x)' => Deleting(x)
      BY <2>2, DeletingMoves DEF GoesTo
    <3>. QED
      BY <2>2, <3>1
  <2>. QED
    BY <1>2, <2>1, <2>2, EmplaceShape
<1>3. ASSUME NEW t \in Threads, CopyJob(t) PROVE Erased'
  BY <1>0, <1>3, CopyShape, DeletingMoves DEF GoesTo, Stops
<1>4. ASSUME NEW t \in Threads, LinkJob(t) PROVE Erased'
  <2>1. ASSUME NEW p \in {"persist", "link"}, NEW s, Moves(t, p, th[t].id, s, th[t].rest)
        PROVE  \A x : Deleting(x)' => Deleting(x)
    BY <2>1, DeletingMoves
  <2>2. \A x : Deleting(x)' => Deleting(x)
    BY <1>4, <2>1, LinkShape
  <2>. QED
    BY <1>4, <2>2, LinkShape
<1>5. ASSUME NEW t \in Threads, PersistJob(t) PROVE Erased'
  BY <1>0, <1>5, PersistShape, DeletingMoves DEF GoesTo, Stops
<1>6. ASSUME NEW t \in Clients, QueryJob(t) PROVE Erased'
  BY <1>0, <1>6, QueryShape, DeletingMoves DEF GoesTo, Stops
<1>7. ASSUME NEW t \in Clients, DeleteByMatcher(t) PROVE Erased'
  <2>1. PICK S \in SUBSET jobs, j \in jobs :
          /\ j \in S /\ jobs' = jobs \ S /\ reused' = reused
          /\ Moves(t, "unlink", j, Collectors, S \ {j})
    BY <1>7, MatcherShape
  <2>2. \A x : Deleting(x)' => Deleting(x) \/ x \in S
    BY <1>0, <2>1, DeletingMoves
  <2>. QED
    BY <2>1, <2>2
<1>8. ASSUME NEW t \in Threads, FindJob(t) PROVE Erased'
  BY <1>0, <1>8, FindShape, DeletingMoves, PlainReturn DEF GoesTo, Stops
<1>9. ASSUME NEW t \in Threads, DelJob(t) PROVE Erased'
  <2>1. CASE Return(t) /\ UNCHANGED <<jobs, reused>>
    BY <2>1, <1>9, DelShape, PlainReturn, DeletingMoves DEF GoesTo, Stops
  <2>2. CASE /\ jobs' = jobs \ {th[t].id} /\ reused' = reused
             /\ Moves(t, "unlink", th[t].id, Collectors, th[t].rest)
    <3>1. t \in Clients => th[t].rest = {}
      BY <1>9, DelShape, RequestAssumption DEF OwnRest, Threads
    <3>2. \A x : Deleting(x)' => Deleting(x) \/ x = th[t].id
      BY <2>2, <3>1, DeletingMoves
    <3>. QED
      BY <2>2, <3>2
  <2>. QED
    BY <1>9, <2>1, <2>2, DelShape
<1>10. ASSUME NEW t \in Threads, UnlinkJob(t) PROVE Erased'
  BY <1>0, <1>10, UnlinkShape, DeletingMoves DEF GoesTo, Stops, Deleting, Holds
<1>11. ASSUME NEW t \in Threads, ArchiveJob(t) PROVE Erased'
  <2>1. th[t].pc = "archive" /\ Return(t) /\ UNCHANGED <<jobs, reused>>
    BY <1>11, ArchiveShape
  <2>2. CASE GoesTo(t, "collect") \/ Stops(t)
    BY <2>1, <2>2, DeletingMoves DEF GoesTo, Stops
  <2>3. CASE t \in Clients /\ NextJob(t)
    <3>1. PICK j \in th[t].rest : Moves(t, "unlink", j, Collectors, th[t].rest \ {j})
      BY <2>3 DEF NextJob
    <3>2. \A x \in th[t].rest : Deleting(x)
      BY <2>1, <2>3 DEF Deleting, Holds
    <3>3. \A x : Deleting(x)' => Deleting(x)
      BY <3>1, <3>2, DeletingMoves
    <3>. QED
      BY <2>1, <3>3
  <2>. QED
    BY <2>1, <2>2, <2>3, NextReturn
<1>12. ASSUME NEW c \in Collectors, Tick(c) PROVE Erased'
  <2>1. th' = th \/ \E j \in JobIds, q \in SUBSET JobIds : Moves(c, "lookup", j, {}, q)
    BY <1>12, TickShape
  <2>2. \A x : Deleting(x)' => Deleting(x)
    <3>1. CASE th' = th
      BY <3>1 DEF Deleting, Holds
    <3>2. CASE \E j \in JobIds, q \in SUBSET JobIds : Moves(c, "lookup", j, {}, q)
      BY <1>0, <3>2, DeletingMoves
    <3>. QED
      BY <2>1, <3>1, <3>2
  <2>. QED
    BY <1>12, <2>2, TickShape
<1>13. ASSUME NEW c \in Collectors, Collect(c) PROVE Erased'
  BY <1>0, <1>13, CollectShape, DeletingMoves DEF GoesTo, Stops
<1>14. ASSUME AddLifecycleCb PROVE Erased'
  BY <1>14 DEF AddLifecycleCb, registryVars, historyVars, Deleting, Holds
<1>15. ASSUME RestoreNext PROVE Erased'
  BY <1>0, <1>15, RestoreShape, DeletingMoves DEF GoesTo, Stops
<1>16. ASSUME ProcessesExit PROVE Erased'
  BY <1>16 DEF ProcessesExit, registryVars, bookVars, historyVars, Deleting, Holds
<1>17. ASSUME CrashRestart PROVE Erased'
  BY <1>17 DEF CrashRestart
<1>19. ASSUME NEW t \in Threads, NoCallback(t) PROVE Erased'
  BY <1>19, NoCallbackShape, DeletingMoves DEF GoesTo, Holds, Deleting
<1>18. ASSUME UNCHANGED vars PROVE Erased'
  BY <1>18 DEF vars, registryVars, historyVars, Deleting, Holds
<1>. QED
  BY <1>0, <1>1, <1>2, <1>3, <1>4, <1>5, <1>6, <1>7, <1>8, <1>9, <1>10, <1>11, <1>12, <1>13, <1>14, <1>15, <1>16, <1>17, <1>18, <1>19
  DEF Next, Callback, InCall

\* Further jobs are only kept from one deletion to the next.
LEMMA OwnRestStep ==
  ASSUME Safe, [Next]_vars PROVE OwnRest'
<1>. USE DEF Safe, OwnRest
<1>0. Clients \subseteq Threads /\ Collectors \subseteq Threads /\ Main \in Threads
  BY DEF Threads
<1>1. ASSUME NEW t \in Clients, AddJob(t) PROVE OwnRest'
  BY <1>0, <1>1, AddShape DEF Moves, GoesTo, Stops
<1>2. ASSUME NEW t \in Threads, EmplaceJob(t) PROVE OwnRest'
  BY <1>0, <1>2, EmplaceShape DEF Moves, GoesTo, Stops
<1>3. ASSUME NEW t \in Threads, CopyJob(t) PROVE OwnRest'
  BY <1>0, <1>3, CopyShape DEF Moves, GoesTo, Stops
<1>4. ASSUME NEW t \in Threads, LinkJob(t) PROVE OwnRest'
  BY <1>0, <1>4, LinkShape DEF Moves, GoesTo, Stops
<1>5. ASSUME NEW t \in Threads, PersistJob(t) PROVE OwnRest'
  BY <1>0, <1>5, PersistShape DEF Moves, GoesTo, Stops
<1>6. ASSUME NEW t \in Clients, QueryJob(t) PROVE OwnRest'
  BY <1>0, <1>6, QueryShape DEF Moves, GoesTo, Stops
<1>7. ASSUME NEW t \in Clients, DeleteByMatcher(t) PROVE OwnRest'
  BY <1>0, <1>7, MatcherShape DEF Moves, GoesTo, Stops
<1>8. ASSUME NEW t \in Threads, FindJob(t) PROVE OwnRest'
  BY <1>0, <1>8, FindShape, PlainReturn DEF Moves, GoesTo, Stops
<1>9. ASSUME NEW t \in Threads, DelJob(t) PROVE OwnRest'
  BY <1>0, <1>9, DelShape, PlainReturn DEF Moves, GoesTo, Stops
<1>10. ASSUME NEW t \in Threads, UnlinkJob(t) PROVE OwnRest'
  BY <1>0, <1>10, UnlinkShape DEF Moves, GoesTo, Stops
<1>11. ASSUME NEW t \in Threads, ArchiveJob(t) PROVE OwnRest'
  <2>1. Return(t) /\ (t \notin Collectors => t \in Clients \/ th[t].rest = {})
    BY <1>11, ArchiveShape
  <2>2. CASE GoesTo(t, "collect") \/ Stops(t)
    BY <2>1, <2>2, ReturnShape DEF Moves, GoesTo, Stops, NextJob
  <2>3. CASE t \in Clients /\ NextJob(t)
    <3>1. PICK j \in th[t].rest : Moves(t, "unlink", j, Collectors, th[t].rest \ {j})
      BY <2>3 DEF NextJob
    <3>. QED
      BY <2>3, <3>1 DEF Moves
  <2>. QED
    BY <2>1, <2>2, <2>3, NextReturn
<1>12. ASSUME NEW c \in Collectors, Tick(c) PROVE OwnRest'
  BY <1>0, <1>12, TickShape DEF Moves, GoesTo, Stops
<1>13. ASSUME NEW c \in Collectors, Collect(c) PROVE OwnRest'
  BY <1>0, <1>13, CollectShape DEF Moves, GoesTo, Stops
<1>14. ASSUME AddLifecycleCb PROVE OwnRest'
  BY <1>14 DEF AddLifecycleCb, bookVars
<1>15. ASSUME RestoreNext PROVE OwnRest'
  BY <1>0, <1>15, RestoreShape DEF Moves, GoesTo, Stops
<1>16. ASSUME ProcessesExit PROVE OwnRest'
  BY <1>16 DEF ProcessesExit, bookVars
<1>17. ASSUME CrashRestart PROVE OwnRest'
  BY <1>17 DEF CrashRestart, Idle
<1>19. ASSUME NEW t \in Threads, NoCallback(t) PROVE OwnRest'
  BY <1>19, NoCallbackShape DEF Moves, GoesTo
<1>18. ASSUME UNCHANGED vars PROVE OwnRest'
  BY <1>18 DEF vars
<1>. QED
  BY <1>0, <1>1, <1>2, <1>3, <1>4, <1>5, <1>6, <1>7, <1>8, <1>9, <1>10, <1>11, <1>12, <1>13, <1>14, <1>15, <1>16, <1>17, <1>18, <1>19
  DEF Next, Callback, InCall

\* A collector is started with its first job and stops without any.
LEMMA ServedStep ==
  ASSUME Safe, [Next]_vars PROVE Served'
<1>. USE DEF Safe, Served
<1>0. Clients \subseteq Threads /\ Collectors \subseteq Threads /\ Main \in Threads
  BY DEF Threads
<1>1. ASSUME NEW t \in Clients, AddJob(t) PROVE Served'
  BY <1>1, AddShape
<1>2. ASSUME NEW t \in Threads, EmplaceJob(t) PROVE Served'
  BY <1>2, EmplaceShape
<1>3. ASSUME NEW t \in Threads, CopyJob(t) PROVE Served'
  BY <1>3, CopyShape
<1>4. ASSUME NEW t \in Threads, LinkJob(t) PROVE Served'
  <2>1. PICK c \in Collectors : AddJob2Collector(th[t].id, c)
    BY <1>4, LinkShape
  <2>. QED
    BY <2>1, StartAssumption
    DEF WorkOK, TablesOK, IInv, SchedTypeOK, AddJob2Collector, schedVars, MustStart,
        StartCollector
<1>5. ASSUME NEW t \in Threads, PersistJob(t) PROVE Served'
  BY <1>5, PersistShape
<1>6. ASSUME NEW t \in Clients, QueryJob(t) PROVE Served'
  BY <1>6, QueryShape
<1>7. ASSUME NEW t \in Clients, DeleteByMatcher(t) PROVE Served'
  BY <1>7, MatcherShape
<1>8. ASSUME NEW t \in Threads, FindJob(t) PROVE Served'
  BY <1>8, FindShape
<1>9. ASSUME NEW t \in Threads, DelJob(t) PROVE Served'
  BY <1>9, DelShape
<1>10. ASSUME NEW t \in Threads, UnlinkJob(t) PROVE Served'
  BY <1>10, UnlinkShape DEF WorkOK, TablesOK
<1>11. ASSUME NEW t \in Threads, ArchiveJob(t) PROVE Served'
  BY <1>11, ArchiveShape
<1>12. ASSUME NEW c \in Collectors, Tick(c) PROVE Served'
  BY <1>12, TickShape DEF StopCollector, CancelTimer, IInv, SchedTypeOK
<1>13. ASSUME NEW c \in Collectors, Collect(c) PROVE Served'
  BY <1>13, CollectShape
<1>14. ASSUME AddLifecycleCb PROVE Served'
  BY <1>14 DEF AddLifecycleCb, schedVars
<1>15. ASSUME RestoreNext PROVE Served'
  BY <1>15, RestoreShape
<1>16. ASSUME ProcessesExit PROVE Served'
  BY <1>16 DEF ProcessesExit, schedVars
<1>17. ASSUME CrashRestart PROVE Served'
  BY <1>17 DEF CrashRestart
<1>19. ASSUME NEW t \in Threads, NoCallback(t) PROVE Served'
  BY <1>19, NoCallbackShape
<1>18. ASSUME UNCHANGED vars PROVE Served'
  BY <1>18 DEF vars, schedVars
<1>. QED
  BY <1>0, <1>1, <1>2, <1>3, <1>4, <1>5, <1>6, <1>7, <1>8, <1>9, <1>10, <1>11, <1>12, <1>13, <1>14, <1>15, <1>16, <1>17, <1>18, <1>19
  DEF Next, Callback, InCall

\* Whoever inserted a job goes on until it is in every list, unless it is deleted.
LEMMA LinkedStep ==
  ASSUME Safe, [Next]_vars PROVE Linked'
<1>. USE DEF Safe, Linked
<1>0. Clients \subseteq Threads /\ Collectors \subseteq Threads /\ Main \in Threads
  BY DEF Threads
<1>1. ASSUME NEW t \in Clients, AddJob(t) PROVE Linked'
  BY <1>0, <1>1, AddShape, ComingMoves DEF GoesTo, Stops
<1>2. ASSUME NEW t \in Threads, EmplaceJob(t) PROVE Linked'
  <2>1. th[t].pc = "emplace" /\ jobList' = jobList
    BY <1>2, EmplaceShape
  <2>2. CASE Stops(t) /\ UNCHANGED <<jobs, reused, missed>>
    BY <2>1, <2>2, ComingMoves DEF Stops
  <2>3. CASE /\ GoesTo(t, "copy") /\ jobs' = jobs \cup {th[t].id}
             /\ reused \ {th[t].id} \subseteq reused'
             /\ missed' = missed \ {th[t].id}
    <3>0. PICK i : i = th[t].id
      OBVIOUS
    <3>1. Moves(t, "copy", i, th[t].todo, th[t].rest)
      BY <2>3, <3>0 DEF GoesTo
    <3>2. \A c \in Collectors : Coming(i, c)'
      BY <3>1, ComingMoves
    <3>3. \A x : \A c \in Collectors : Coming(x, c) => Coming(x, c)'
      BY <2>1, <3>1, ComingMoves
    <3>. QED
      BY <2>1, <2>3, <3>0, <3>2, <3>3
  <2>. QED
    BY <1>2, <2>2, <2>3, EmplaceShape
<1>3. ASSUME NEW t \in Threads, CopyJob(t) PROVE Linked'
  <2>1. th[t].pc = "copy" /\ UNCHANGED <<jobs, jobList, reused, missed>>
    BY <1>3, CopyShape
  <2>2. CASE Moves(t, "link", th[t].id, Collectors, th[t].rest)
    BY <2>1, <2>2, ComingMoves
  <2>3. CASE th[t].id \notin jobs /\ Stops(t)
    BY <2>1, <2>3, ComingMoves DEF Stops
  <2>. QED
    BY <1>3, <2>1, <2>2, <2>3, CopyShape
<1>4. ASSUME NEW t \in Threads, LinkJob(t) PROVE Linked'
  <2>1. PICK c \in th[t].todo :
          /\ c \in Collectors /\ AddJob2Collector(th[t].id, c)
          /\ \/ th[t].todo = {c} /\ Moves(t, "persist", th[t].id, {}, th[t].rest)
             \/ Moves(t, "link", th[t].id, th[t].todo \ {c}, th[t].rest)
    BY <1>4, LinkShape
  <2>2. th[t].pc = "link" /\ UNCHANGED <<jobs, reused, missed>>
    BY <1>4, LinkShape
  <2>3. /\ \A d \in Collectors : jobList[d] \subseteq jobList'[d]
        /\ th[t].id \in jobList'[c]
    BY <2>1 DEF AddJob2Collector, schedVars, WorkOK, TablesOK
  <2>4. \A x : \A d \in Collectors :
          Coming(x, d) => Coming(x, d)' \/ (x = th[t].id /\ d = c)
    <3>1. CASE th[t].todo = {c} /\ Moves(t, "persist", th[t].id, {}, th[t].rest)
      BY <2>2, <3>1, ComingMoves
    <3>2. CASE Moves(t, "link", th[t].id, th[t].todo \ {c}, th[t].rest)
      BY <2>2, <3>2, ComingMoves
    <3>. QED
      BY <2>1, <3>1, <3>2
  <2>. QED
    BY <2>2, <2>3, <2>4
<1>5. ASSUME NEW t \in Threads, PersistJob(t) PROVE Linked'
  BY <1>0, <1>5, PersistShape, ComingMoves DEF GoesTo, Stops
<1>6. ASSUME NEW t \in Clients, QueryJob(t) PROVE Linked'
  BY <1>0, <1>6, QueryShape, ComingMoves DEF GoesTo, Stops
<1>7. ASSUME NEW t \in Clients, DeleteByMatcher(t) PROVE Linked'
  <2>1. PICK S \in SUBSET jobs, j \in jobs :
          /\ j \in S /\ jobs' = jobs \ S
          /\ Moves(t, "unlink", j, Collectors, S \ {j})
    BY <1>7, MatcherShape
  <2>2. th[t].pc = "idle" /\ UNCHANGED <<jobList, reused, missed>>
    BY <1>7, MatcherShape
  <2>. QED
    BY <1>0, <2>1, <2>2, ComingMoves
<1>8. ASSUME NEW t \in Threads, FindJob(t) PROVE Linked'
  <2>1. UNCHANGED <<jobs, jobList, reused, missed>> /\ th[t].pc = "lookup"
    BY <1>8, FindShape
  <2>2. GoesTo(t, "erase") \/ GoesTo(t, "collect") \/ Stops(t)
    BY <1>8, FindShape, PlainReturn
  <2>. QED
    BY <2>1, <2>2, ComingMoves DEF GoesTo, Stops
<1>9. ASSUME NEW t \in Threads, DelJob(t) PROVE Linked'
  <2>1. jobs' \subseteq jobs /\ UNCHANGED <<jobList, reused, missed>> /\ th[t].pc = "erase"
    BY <1>9, DelShape
  <2>2. \/ Moves(t, "unlink", th[t].id, Collectors, th[t].rest)
        \/ GoesTo(t, "collect") \/ Stops(t)
    BY <1>9, DelShape, PlainReturn
  <2>. QED
    BY <2>1, <2>2, ComingMoves DEF GoesTo, Stops
<1>10. ASSUME NEW t \in Threads, UnlinkJob(t) PROVE Linked'
  <2>1. PICK p \in {"unlink", "archive"}, s \in SUBSET Collectors :
          Moves(t, p, th[t].id, s, th[t].rest)
    BY <1>10, UnlinkShape
  <2>2. th[t].pc = "unlink" /\ UNCHANGED <<jobs, reused, missed>>
    BY <1>10, UnlinkShape
  <2>3. th[t].id \notin jobs \ reused
    BY <2>2 DEF Erased, Deleting, Holds
  <2>4. \A x \in jobs \ reused, d \in Collectors : x \in jobList[d] => x \in jobList'[d]
    BY <1>10, <2>3, UnlinkShape DEF WorkOK, TablesOK
  <2>. QED
    BY <2>1, <2>2, <2>4, ComingMoves
<1>11. ASSUME NEW t \in Threads, ArchiveJob(t) PROVE Linked'
  <2>1. UNCHANGED <<jobs, jobList, reused, missed>> /\ th[t].pc = "archive" /\ Return(t)
    BY <1>11, ArchiveShape
  <2>2. CASE GoesTo(t, "collect") \/ Stops(t)
    BY <2>1, <2>2, ComingMoves DEF GoesTo, Stops
  <2>3. CASE NextJob(t)
    BY <2>1, <2>3, ComingMoves DEF NextJob
  <2>. QED
    BY <2>1, <2>2, <2>3, NextReturn
<1>12. ASSUME NEW c \in Collectors, Tick(c) PROVE Linked'
  <2>1. UNCHANGED <<jobs, jobList, reused, missed>> /\ th[c].pc = "idle"
    BY <1>12, TickShape DEF StopCollector
  <2>2. CASE th' = th
    BY <2>1, <2>2 DEF Coming
  <2>3. CASE \E j \in JobIds, q \in SUBSET JobIds : Moves(c, "lookup", j, {}, q)
    BY <1>0, <2>1, <2>3, ComingMoves
  <2>. QED
    BY <1>12, <2>2, <2>3, TickShape
<1>13. ASSUME NEW c \in Collectors, Collect(c) PROVE Linked'
  <2>1. UNCHANGED <<jobs, jobList, reused, missed>> /\ th[c].pc = "collect"
    BY <1>13, CollectShape
  <2>2. CASE Stops(c)
    BY <1>0, <2>1, <2>2, ComingMoves DEF Stops
  <2>3. CASE \E j \in JobIds, q \in SUBSET JobIds : Moves(c, "lookup", j, {}, q)
    BY <1>0, <2>1, <2>3, ComingMoves
  <2>. QED
    BY <1>13, <2>2, <2>3, CollectShape
<1>14. ASSUME AddLifecycleCb PROVE Linked'
  BY <1>14 DEF AddLifecycleCb, registryVars, historyVars, schedVars, Coming
<1>15. ASSUME RestoreNext PROVE Linked'
  BY <1>0, <1>15, RestoreShape, ComingMoves DEF GoesTo, Stops
<1>16. ASSUME ProcessesExit PROVE Linked'
  BY <1>16 DEF ProcessesExit, registryVars, historyVars, schedVars, Coming
<1>17. ASSUME CrashRestart PROVE Linked'
  BY <1>17 DEF CrashRestart
<1>19. ASSUME NEW t \in Threads, NoCallback(t) PROVE Linked'
  <2>1. CASE th[t].pc = "link" /\ GoesTo(t, "persist") /\ missed' = missed \cup {th[t].id}
    BY <1>19, <2>1, NoCallbackShape, ComingMoves DEF GoesTo
  <2>2. CASE th[t].pc = "unlink" /\ GoesTo(t, "archive") /\ missed' = missed
    BY <1>19, <2>2, NoCallbackShape, ComingMoves DEF GoesTo
  <2>. QED
    BY <1>19, <2>1, <2>2, NoCallbackShape
<1>18. ASSUME UNCHANGED vars PROVE Linked'
  BY <1>18 DEF vars, registryVars, historyVars, schedVars, Coming
<1>. QED
  BY <1>0, <1>1, <1>2, <1>3, <1>4, <1>5, <1>6, <1>7, <1>8, <1>9, <1>10, <1>11, <1>12, <1>13, <1>14, <1>15, <1>16, <1>17, <1>18, <1>19
  DEF Next, Callback, InCall

\* Whoever inserted a job goes on until it is recorded, unless it is deleted.
LEMMA RecordedStep ==
  ASSUME Safe, [Next]_vars PROVE Recorded'
<1>. USE DEF Safe, Recorded
<1>0. Clients \subseteq Threads /\ Collectors \subseteq Threads /\ Main \in Threads
  BY DEF Threads
<1>1. ASSUME NEW t \in Clients, AddJob(t) PROVE Recorded'
  <2>1. UNCHANGED <<jobs, db, reused>> /\ th[t].pc = "idle"
    BY <1>1, AddShape
  <2>2. CASE \E j \in JobIds : Moves(t, "emplace", j, {}, {})
    BY <1>0, <2>1, <2>2, AddingMoves
  <2>. QED
    BY <1>1, <2>2, AddShape
<1>2. ASSUME NEW t \in Threads, EmplaceJob(t) PROVE Recorded'
  <2>1. db' = db /\ th[t].pc = "emplace"
    BY <1>2, EmplaceShape
  <2>2. CASE Stops(t) /\ UNCHANGED <<jobs, reused>>
    BY <1>0, <2>1, <2>2, AddingMoves DEF Stops
  <2>3. CASE /\ GoesTo(t, "copy") /\ jobs' = jobs \cup {th[t].id}
             /\ reused \ {th[t].id} \subseteq reused'
    <3>0. PICK i : i = th[t].id
      OBVIOUS
    <3>1. Moves(t, "copy", i, th[t].todo, th[t].rest)
      BY <2>3, <3>0 DEF GoesTo
    <3>2. Adding(i)' /\ \A x : Adding(x) => Adding(x)'
      BY <2>1, <3>1, AddingMoves
    <3>. QED
      BY <2>1, <2>3, <3>0, <3>2
  <2>. QED
    BY <1>2, <2>2, <2>3, EmplaceShape
<1>3. ASSUME NEW t \in Threads, CopyJob(t) PROVE Recorded'
  <2>1. UNCHANGED <<jobs, db, reused>>
    BY <1>3, CopyShape
  <2>2. CASE Moves(t, "link", th[t].id, Collectors, th[t].rest)
    BY <1>0, <2>1, <2>2, AddingMoves
  <2>3. CASE th[t].id \notin jobs /\ Stops(t)
    BY <1>0, <2>1, <2>3, AddingMoves DEF Stops
  <2>. QED
    BY <1>3, <2>2, <2>3, CopyShape
<1>4. ASSUME NEW t \in Threads, LinkJob(t) PROVE Recorded'
  <2>1. UNCHANGED <<jobs, db, reused>>
    BY <1>4, LinkShape
  <2>2. CASE Moves(t, "persist", th[t].id, {}, th[t].rest)
    BY <1>0, <2>1, <2>2, AddingMoves
  <2>3. CASE \E c \in th[t].todo : Moves(t, "link", th[t].id, th[t].todo \ {c}, th[t].rest)
    BY <1>0, <2>1, <2>3, AddingMoves
  <2>. QED
    BY <1>4, <2>2, <2>3, LinkShape
<1>5. ASSUME NEW t \in Threads, PersistJob(t) PROVE Recorded'
  <2>1. UNCHANGED <<jobs, reused>> /\ db \subseteq db' /\ (th[t].id \in jobs => th[t].id \in db')
    BY <1>5, PersistShape
  <2>2. CASE Stops(t)
    BY <1>0, <2>1, <2>2, AddingMoves DEF Stops
  <2>. QED
    BY <1>5, <2>2, PersistShape
<1>6. ASSUME NEW t \in Clients, QueryJob(t) PROVE Recorded'
  <2>1. UNCHANGED <<jobs, db, reused>> /\ th[t].pc = "idle"
    BY <1>6, QueryShape
  <2>2. CASE \E j \in jobs : Moves(t, "lookup", j, {}, {})
    BY <1>0, <2>1, <2>2, AddingMoves
  <2>. QED
    BY <1>6, <2>2, QueryShape
<1>7. ASSUME NEW t \in Clients, DeleteByMatcher(t) PROVE Recorded'
  <2>1. PICK S \in SUBSET jobs, j \in jobs :
          /\ j \in S /\ jobs' = jobs \ S
          /\ Moves(t, "unlink", j, Collectors, S \ {j})
    BY <1>7, MatcherShape
  <2>2. th[t].pc = "idle" /\ UNCHANGED <<db, reused>>
    BY <1>7, MatcherShape
  <2>. QED
    BY <1>0, <2>1, <2>2, AddingMoves
<1>8. ASSUME NEW t \in Threads, FindJob(t) PROVE Recorded'
  <2>1. UNCHANGED <<jobs, reused>> /\ db \subseteq db' /\ th[t].pc = "lookup"
    BY <1>8, FindShape
  <2>2. GoesTo(t, "erase") \/ GoesTo(t, "collect") \/ Stops(t)
    BY <1>8, FindShape, PlainReturn
  <2>. QED
    BY <2>1, <2>2, AddingMoves DEF GoesTo, Stops
<1>9. ASSUME NEW t \in Threads, DelJob(t) PROVE Recorded'
  <2>1. jobs' \subseteq jobs /\ UNCHANGED <<db, reused>> /\ th[t].pc = "erase"
    BY <1>9, DelShape
  <2>2. \/ Moves(t, "unlink", th[t].id, Collectors, th[t].rest)
        \/ GoesTo(t, "collect") \/ Stops(t)
    BY <1>9, DelShape, PlainReturn
  <2>. QED
    BY <2>1, <2>2, AddingMoves DEF GoesTo, Stops
<1>10. ASSUME NEW t \in Threads, UnlinkJob(t) PROVE Recorded'
  <2>1. UNCHANGED <<jobs, db, reused>> /\ th[t].pc = "unlink"
    BY <1>10, UnlinkShape
  <2>2. CASE \E p \in {"unlink", "archive"}, s \in SUBSET Collectors : Moves(t, p, th[t].id, s, th[t].rest)
    BY <1>0, <2>1, <2>2, AddingMoves
  <2>. QED
    BY <1>10, <2>2, UnlinkShape
<1>11. ASSUME NEW t \in Threads, ArchiveJob(t) PROVE Recorded'
  <2>1. UNCHANGED <<jobs, reused>> /\ db' = db \ {th[t].id} /\ th[t].pc = "archive" /\ Return(t)
    BY <1>11, ArchiveShape
  <2>2. th[t].id \notin jobs \ reused
    BY <2>1 DEF Erased, Deleting, Holds
  <2>3. CASE GoesTo(t, "collect") \/ Stops(t)
    BY <2>1, <2>2, <2>3, AddingMoves DEF GoesTo, Stops
  <2>4. CASE NextJob(t)
    BY <2>1, <2>2, <2>4, AddingMoves DEF NextJob
  <2>. QED
    BY <2>1, <2>3, <2>4, NextReturn
<1>12. ASSUME NEW c \in Collectors, Tick(c) PROVE Recorded'
  <2>1. UNCHANGED <<jobs, db, reused>> /\ th[c].pc = "idle"
    BY <1>12, TickShape
  <2>2. CASE th' = th
    BY <1>0, <2>1, <2>2, AddingMoves DEF Adding
  <2>3. CASE \E j \in JobIds, q \in SUBSET JobIds : Moves(c, "lookup", j, {}, q)
    BY <1>0, <2>1, <2>3, AddingMoves
  <2>. QED
    BY <1>12, <2>2, <2>3, TickShape
<1>13. ASSUME NEW c \in Collectors, Collect(c) PROVE Recorded'
  <2>1. UNCHANGED <<jobs, db, reused>> /\ th[c].pc = "collect"
    BY <1>13, CollectShape
  <2>2. CASE Stops(c)
    BY <1>0, <2>1, <2>2, AddingMoves DEF Stops
  <2>3. CASE \E j \in JobIds, q \in SUBSET JobIds : Moves(c, "lookup", j, {}, q)
    BY <1>0, <2>1, <2>3, AddingMoves
  <2>. QED
    BY <1>13, <2>2, <2>3, CollectShape
<1>14. ASSUME AddLifecycleCb PROVE Recorded'
  BY <1>14 DEF AddLifecycleCb, registryVars, historyVars, Adding
<1>15. ASSUME RestoreNext PROVE Recorded'
  <2>1. UNCHANGED <<jobs, db, reused>> /\ th[Main].pc = "idle"
    BY <1>15, RestoreShape
  <2>2. CASE \E j \in restore : Moves(Main, "emplace", j, {}, {})
    BY <1>0, <2>1, <2>2, AddingMoves
  <2>. QED
    BY <1>15, <2>2, RestoreShape
<1>16. ASSUME ProcessesExit PROVE Recorded'
  BY <1>16 DEF ProcessesExit, registryVars, historyVars, Adding
<1>17. ASSUME CrashRestart PROVE Recorded'
  BY <1>17 DEF CrashRestart
<1>19. ASSUME NEW t \in Threads, NoCallback(t) PROVE Recorded'
  BY <1>19, NoCallbackShape, AddingMoves DEF GoesTo
<1>18. ASSUME UNCHANGED vars PROVE Recorded'
  BY <1>18 DEF vars, registryVars, historyVars, Adding
<1>. QED
  BY <1>0, <1>1, <1>2, <1>3, <1>4, <1>5, <1>6, <1>7, <1>8, <1>9, <1>10, <1>11, <1>12, <1>13, <1>14, <1>15, <1>16, <1>17, <1>18, <1>19
  DEF Next, Callback, InCall

\* A deletion goes on until the record is gone, and main until all are restored.
LEMMA RemovedStep ==
  ASSUME Safe, [Next]_vars PROVE Removed'
<1>. USE DEF Safe, Removed
<1>0. Clients \subseteq Threads /\ Collectors \subseteq Threads /\ Main \in Threads
  BY DEF Threads
<1>1. ASSUME NEW t \in Clients, AddJob(t) PROVE Removed'
  <2>1. UNCHANGED <<jobs, db, orphans>> /\ restore' = restore /\ th[t].pc = "idle"
    BY <1>1, AddShape
  <2>2. CASE \E j \in JobIds : Moves(t, "emplace", j, {}, {})
    BY <1>0, <2>1, <2>2, DeletingMoves, RestoringMoves, RequestAssumption
  <2>. QED
    BY <1>1, <2>2, AddShape
<1>2. ASSUME NEW t \in Threads, EmplaceJob(t) PROVE Removed'
  <2>1. db' = db /\ restore' = restore /\ th[t].pc = "emplace"
    BY <1>2, EmplaceShape
  <2>2. CASE /\ Stops(t) /\ jobs' = jobs
             /\ orphans' = IF t = Main /\ th[t].id \notin jobs
                           THEN orphans \cup {th[t].id} ELSE orphans
    <3>1. \A x : Deleting(x) => Deleting(x)'
      BY <2>1, <2>2, DeletingMoves DEF Stops
    <3>2. \A x : Restoring(x) => Restoring(x)' \/ (t = Main /\ x = th[t].id)
      BY <2>1, <2>2, RestoringMoves DEF Stops
    <3>. QED
      BY <2>1, <2>2, <3>1, <3>2
  <2>3. CASE /\ GoesTo(t, "copy") /\ jobs' = jobs \cup {th[t].id}
             /\ orphans' = orphans \ {th[t].id}
    <3>1. \A x : Deleting(x) => Deleting(x)'
      BY <2>1, <2>3, DeletingMoves DEF GoesTo
    <3>2. \A x : Restoring(x) => Restoring(x)' \/ x = th[t].id
      BY <2>1, <2>3, RestoringMoves DEF GoesTo
    <3>. QED
      BY <2>1, <2>3, <3>1, <3>2
  <2>. QED
    BY <1>2, <2>2, <2>3, EmplaceShape
<1>3. ASSUME NEW t \in Threads, CopyJob(t) PROVE Removed'
  <2>1. UNCHANGED <<jobs, db, orphans>> /\ restore' = restore /\ th[t].pc = "copy"
    BY <1>3, CopyShape
  <2>2. CASE Moves(t, "link", th[t].id, Collectors, th[t].rest)
    BY <1>0, <2>1, <2>2, DeletingMoves, RestoringMoves
  <2>3. CASE Stops(t)
    BY <1>0, <2>1, <2>3, DeletingMoves, RestoringMoves DEF Stops
  <2>. QED
    BY <1>3, <2>2, <2>3, CopyShape
<1>4. ASSUME NEW t \in Threads, LinkJob(t) PROVE Removed'
  <2>1. UNCHANGED <<jobs, db, orphans>> /\ restore' = restore /\ th[t].pc = "link"
    BY <1>4, LinkShape
  <2>2. CASE Moves(t, "persist", th[t].id, {}, th[t].rest)
    BY <1>0, <2>1, <2>2, DeletingMoves, RestoringMoves
  <2>3. CASE \E c \in th[t].todo : Moves(t, "link", th[t].id, th[t].todo \ {c}, th[t].rest)
    BY <1>0, <2>1, <2>3, DeletingMoves, RestoringMoves
  <2>. QED
    BY <1>4, <2>2, <2>3, LinkShape
<1>5. ASSUME NEW t \in Threads, PersistJob(t) PROVE Removed'
  <2>1. UNCHANGED <<jobs, restore, orphans>> /\ db' \subseteq db \cup jobs /\ th[t].pc = "persist"
    BY <1>5, PersistShape
  <2>2. CASE Stops(t)
    BY <1>0, <2>1, <2>2, DeletingMoves, RestoringMoves DEF Stops
  <2>. QED
    BY <1>5, <2>2, PersistShape
<1>6. ASSUME NEW t \in Clients, QueryJob(t) PROVE Removed'
  <2>1. UNCHANGED <<jobs, db, orphans>> /\ restore' = restore /\ th[t].pc = "idle"
    BY <1>6, QueryShape
  <2>2. CASE \E j \in jobs : Moves(t, "lookup", j, {}, {})
    BY <1>0, <2>1, <2>2, DeletingMoves, RestoringMoves
  <2>. QED
    BY <1>6, <2>2, QueryShape
<1>7. ASSUME NEW t \in Clients, DeleteByMatcher(t) PROVE Removed'
  <2>1. PICK S \in SUBSET jobs, j \in jobs :
          /\ j \in S /\ jobs' = jobs \ S
          /\ Moves(t, "unlink", j, Collectors, S \ {j})
    BY <1>7, MatcherShape
  <2>2. th[t].pc = "idle" /\ UNCHANGED <<db, restore, orphans>>
    BY <1>7, MatcherShape
  <2>3. \A x \in S : Deleting(x)'
    BY <1>0, <2>1, DeletingMoves
  <2>. QED
    BY <1>0, <2>1, <2>2, <2>3, DeletingMoves, RestoringMoves
<1>8. ASSUME NEW t \in Threads, FindJob(t) PROVE Removed'
  <2>1. UNCHANGED <<jobs, restore, orphans>> /\ db' \subseteq db \cup jobs /\ th[t].pc = "lookup"
    BY <1>8, FindShape
  <2>2. GoesTo(t, "erase") \/ GoesTo(t, "collect") \/ Stops(t)
    BY <1>8, FindShape, PlainReturn
  <2>. QED
    BY <2>1, <2>2, DeletingMoves, RestoringMoves DEF GoesTo, Stops
<1>9. ASSUME NEW t \in Threads, DelJob(t) PROVE Removed'
  <2>1. UNCHANGED <<db, restore, orphans>> /\ th[t].pc = "erase"
    BY <1>9, DelShape
  <2>2. CASE /\ jobs' = jobs \ {th[t].id}
             /\ Moves(t, "unlink", th[t].id, Collectors, th[t].rest)
    <3>1. PICK i : i = th[t].id
      OBVIOUS
    <3>2. Moves(t, "unlink", i, Collectors, th[t].rest) /\ jobs' = jobs \ {i}
      BY <2>2, <3>1
    <3>3. Deleting(i)'
      BY <3>2, DeletingMoves
    <3>. QED
      BY <2>1, <3>2, <3>3, DeletingMoves, RestoringMoves
  <2>3. CASE jobs' = jobs /\ (GoesTo(t, "collect") \/ Stops(t))
    BY <2>1, <2>3, DeletingMoves, RestoringMoves DEF GoesTo, Stops
  <2>. QED
    BY <1>9, <2>2, <2>3, DelShape, PlainReturn
<1>10. ASSUME NEW t \in Threads, UnlinkJob(t) PROVE Removed'
  <2>1. PICK p \in {"unlink", "archive"}, s \in SUBSET Collectors :
          Moves(t, p, th[t].id, s, th[t].rest)
    BY <1>10, UnlinkShape
  <2>2. UNCHANGED <<jobs, db, restore, orphans>> /\ th[t].pc = "unlink"
    BY <1>10, UnlinkShape
  <2>3. \A x : Deleting(x) => Deleting(x)'
    BY <2>1, DeletingMoves DEF Holds
  <2>. QED
    BY <2>1, <2>2, <2>3, RestoringMoves
<1>11. ASSUME NEW t \in Threads, ArchiveJob(t) PROVE Removed'
  <2>1. UNCHANGED <<jobs, restore, orphans>> /\ db' = db \ {th[t].id}
        /\ th[t].pc = "archive" /\ Return(t)
    BY <1>11, ArchiveShape
  <2>2. \A x : Deleting(x) => Deleting(x)' \/ x = th[t].id
    <3>1. CASE t \in Collectors /\ GoesTo(t, "collect")
      BY <3>1, DeletingMoves, RequestAssumption DEF GoesTo, Holds
    <3>2. CASE th[t].rest = {} /\ Stops(t)
      BY <3>2, DeletingMoves DEF Stops, Holds
    <3>3. CASE NextJob(t)
      <4>1. PICK j \in th[t].rest : Moves(t, "unlink", j, Collectors, th[t].rest \ {j})
        BY <3>3 DEF NextJob
      <4>. QED
        BY <4>1, DeletingMoves DEF Holds
    <3>. QED
      BY <2>1, <3>1, <3>2, <3>3, ReturnShape
  <2>3. \A x : Restoring(x) => Restoring(x)'
    <3>1. CASE GoesTo(t, "collect") \/ Stops(t)
      BY <2>1, <3>1, RestoringMoves DEF GoesTo, Stops
    <3>2. CASE NextJob(t)
      BY <2>1, <3>2, RestoringMoves DEF NextJob
    <3>. QED
      BY <2>1, <3>1, <3>2, NextReturn
  <2>. QED
    BY <2>1, <2>2, <2>3
<1>12. ASSUME NEW c \in Collectors, Tick(c) PROVE Removed'
  <2>1. UNCHANGED <<jobs, db, orphans>> /\ restore' = restore /\ th[c].pc = "idle"
    BY <1>12, TickShape
  <2>2. CASE th' = th
    BY <1>0, <2>1, <2>2, DeletingMoves, RestoringMoves DEF Deleting, Holds, Restoring
  <2>3. CASE \E j \in JobIds, q \in SUBSET JobIds : Moves(c, "lookup", j, {}, q)
    BY <1>0, <2>1, <2>3, DeletingMoves, RestoringMoves
  <2>. QED
    BY <1>12, <2>2, <2>3, TickShape
<1>13. ASSUME NEW c \in Collectors, Collect(c) PROVE Removed'
  <2>1. UNCHANGED <<jobs, db, orphans>> /\ restore' = restore /\ th[c].pc = "collect"
    BY <1>13, CollectShape
  <2>2. CASE Stops(c)
    BY <1>0, <2>1, <2>2, DeletingMoves, RestoringMoves DEF Stops
  <2>3. CASE \E j \in JobIds, q \in SUBSET JobIds : Moves(c, "lookup", j, {}, q)
    BY <1>0, <2>1, <2>3, DeletingMoves, RestoringMoves
  <2>. QED
    BY <1>13, <2>2, <2>3, CollectShape
<1>14. ASSUME AddLifecycleCb PROVE Removed'
  BY <1>14 DEF AddLifecycleCb, registryVars, historyVars, Deleting, Holds, Restoring
<1>15. ASSUME RestoreNext PROVE Removed'
  <2>1. PICK j \in restore : Moves(Main, "emplace", j, {}, {}) /\ restore' = restore \ {j}
    BY <1>15, RestoreShape
  <2>2. UNCHANGED <<jobs, db, orphans>> /\ th[Main].pc = "idle"
    BY <1>15, RestoreShape
  <2>3. \A x : Restoring(x) => Restoring(x)'
    BY <2>1, <2>2 DEF Restoring, Moves
  <2>. QED
    BY <1>0, <2>1, <2>2, <2>3, DeletingMoves
<1>16. ASSUME ProcessesExit PROVE Removed'
  BY <1>16 DEF ProcessesExit, registryVars, bookVars, historyVars, Deleting, Holds, Restoring
<1>17. ASSUME CrashRestart PROVE Removed'
  BY <1>17 DEF CrashRestart, Restoring
<1>19. ASSUME NEW t \in Threads, NoCallback(t) PROVE Removed'
  <2>1. \A x : Deleting(x) => Deleting(x)'
    BY <1>19, NoCallbackShape, DeletingMoves DEF GoesTo, Holds
  <2>2. \A x : Restoring(x) => Restoring(x)'
    BY <1>19, NoCallbackShape, RestoringMoves DEF GoesTo
  <2>. QED
    BY <1>19, <2>1, <2>2, NoCallbackShape
<1>18. ASSUME UNCHANGED vars PROVE Removed'
  BY <1>18 DEF vars, registryVars, bookVars, historyVars, Deleting, Holds, Restoring
<1>. QED
  BY <1>0, <1>1, <1>2, <1>3, <1>4, <1>5, <1>6, <1>7, <1>8, <1>9, <1>10, <1>11, <1>12, <1>13, <1>14, <1>15, <1>16, <1>17, <1>18, <1>19
  DEF Next, Callback, InCall

-----------------------------------------------------------------------------
(* Types: the counter after a restart is the maximum of a set.             *)

\* A set of numbers up to MaxJobId has a maximum.
LEMMA HasMax ==
  ASSUME NEW S \in SUBSET JobIds, S # {} PROVE \E x \in S : \A y \in S : y <= x
<1>. DEFINE Above == {MaxJobId - x : x \in S}
<1>. DEFINE R == {p \in Nat \X Nat : p[1] < p[2]}
<1>1. MaxJobId \in Nat /\ S \subseteq Nat /\ \A x \in S : x <= MaxJobId
  BY RegistryAssumption DEF JobIds
<1>2. Above \in SUBSET Nat /\ Above # {}
  <2>1. \A x \in S : MaxJobId - x \in Nat
    BY <1>1
  <2>. QED
    BY <2>1
<1>3. PICK m \in Above : \A n \in Above : ~(<<n, m>> \in R)
  <2>1. IsWellFoundedOn(R, Nat)
    BY NatLessThanWellFounded DEF OpToRel
  <2>. HIDE DEF R, Above
  <2>. QED
    BY <1>2, <2>1, WFMin
<1>4. ASSUME NEW n \in Above PROVE m <= n
  <2>1. m \in Nat /\ n \in Nat /\ <<n, m>> \in Nat \X Nat
    BY <1>2
  <2>2. <<n, m>> \notin R
    BY <1>3
  <2>3. ~(<<n, m>>[1] < <<n, m>>[2])
    <3>. HIDE DEF Above
    <3>. QED
      BY <2>1, <2>2
  <2>. QED
    BY <2>1, <2>3
<1>5. PICK x \in S : m = MaxJobId - x
  BY <1>3
<1>6. \A y \in S : MaxJobId - x <= MaxJobId - y
  BY <1>4, <1>5
<1>. QED
  BY <1>1, <1>6

\* So the restored counter is a number.
LEMMA RestoredType ==
  ASSUME counter \in Nat, db \subseteq JobIds, history \subseteq JobIds
  PROVE  RestoredCounter \in Nat
<1>1. MaxOf(db \cup history) \in Nat
  <2>1. CASE db \cup history = {}
    BY <2>1 DEF MaxOf
  <2>2. CASE db \cup history # {}
    <3>1. \E x \in db \cup history : \A y \in db \cup history : y <= x
      BY <2>2, HasMax
    <3>2. MaxOf(db \cup history) \in db \cup history
      BY <2>2, <3>1 DEF MaxOf
    <3>3. JobIds \subseteq Nat
      BY RegistryAssumption DEF JobIds
    <3>. QED
      BY <3>2, <3>3
  <2>. QED
    BY <2>1, <2>2
<1>. QED
  BY <1>1 DEF RestoredCounter

\* What the registry holds beside the tables.
NumbersOK ==
  /\ alive \subseteq JobIds /\ history \subseteq JobIds
  /\ nextJobId \in Nat /\ counter \in Nat
  /\ reused \cup missed \cup orphans \subseteq JobIds

\* m_ is held from the first list to the last.
LockOK ==
  addLock # Free => addLock \in Threads /\ th[addLock].pc = "link" /\ attached

\* Ids and counters.
LEMMA NumbersStep ==
  ASSUME WorkOK, [Next]_vars, NumbersOK PROVE NumbersOK'
<1>. USE DEF NumbersOK, historyVars
<1>0. Clients \subseteq Threads /\ Collectors \subseteq Threads /\ Main \in Threads
  BY DEF Threads
<1>1. ASSUME NEW t \in Clients, AddJob(t) PROVE NumbersOK'
  BY <1>1 DEF AddJob, GetNextJobID, historyVars
<1>2. ASSUME NEW t \in Threads, EmplaceJob(t) PROVE NumbersOK'
  <2>1. th[t].id \in JobIds
    BY <1>2 DEF EmplaceJob, WorkOK, ThreadsOK
  <2>. QED
    BY <1>2, <2>1 DEF EmplaceJob
<1>3. ASSUME NEW t \in Threads, CopyJob(t) PROVE NumbersOK'
  BY <1>3 DEF CopyJob, registryVars, historyVars
<1>4. ASSUME NEW t \in Threads, LinkJob(t) PROVE NumbersOK'
  BY <1>4 DEF LinkJob, registryVars, historyVars
<1>5. ASSUME NEW t \in Threads, PersistJob(t) PROVE NumbersOK'
  BY <1>5 DEF PersistJob, historyVars
<1>6. ASSUME NEW t \in Clients, QueryJob(t) PROVE NumbersOK'
  BY <1>6 DEF QueryJob, registryVars, historyVars
<1>7. ASSUME NEW t \in Clients, DeleteByMatcher(t) PROVE NumbersOK'
  BY <1>7 DEF DeleteByMatcher, historyVars
<1>8. ASSUME NEW t \in Threads, FindJob(t) PROVE NumbersOK'
  BY <1>8 DEF FindJob, historyVars
<1>9. ASSUME NEW t \in Threads, DelJob(t) PROVE NumbersOK'
  BY <1>9 DEF DelJob, historyVars
<1>10. ASSUME NEW t \in Threads, UnlinkJob(t) PROVE NumbersOK'
  BY <1>10 DEF UnlinkJob, registryVars, historyVars
<1>11. ASSUME NEW t \in Threads, ArchiveJob(t) PROVE NumbersOK'
  <2>1. th[t].id \in JobIds
    BY <1>11 DEF ArchiveJob, WorkOK, ThreadsOK
  <2>. QED
    BY <1>11, <2>1 DEF ArchiveJob, Archive, historyVars
<1>12. ASSUME NEW c \in Collectors, Tick(c) PROVE NumbersOK'
  BY <1>12 DEF Tick, registryVars, historyVars
<1>13. ASSUME NEW c \in Collectors, Collect(c) PROVE NumbersOK'
  BY <1>13 DEF Collect, registryVars, historyVars
<1>14. ASSUME AddLifecycleCb PROVE NumbersOK'
  BY <1>14 DEF AddLifecycleCb, registryVars, historyVars
<1>15. ASSUME RestoreNext PROVE NumbersOK'
  BY <1>15 DEF RestoreNext, registryVars, historyVars
<1>16. ASSUME ProcessesExit PROVE NumbersOK'
  BY <1>16 DEF ProcessesExit, registryVars, historyVars
<1>17. ASSUME CrashRestart PROVE NumbersOK'
  BY <1>17, RestoredType DEF CrashRestart, WorkOK, TablesOK
<1>19. ASSUME NEW t \in Threads, NoCallback(t) PROVE NumbersOK'
  <2>1. th[t].id \in JobIds
    BY <1>19 DEF NoCallback, WorkOK, ThreadsOK
  <2>. QED
    BY <1>19, <2>1 DEF NoCallback, registryVars
<1>18. ASSUME UNCHANGED vars PROVE NumbersOK'
  BY <1>18 DEF vars, registryVars, historyVars
<1>. QED
  BY <1>0, <1>1, <1>2, <1>3, <1>4, <1>5, <1>6, <1>7, <1>8, <1>9, <1>10, <1>11, <1>12, <1>13, <1>14, <1>15, <1>16, <1>17, <1>18, <1>19
  DEF Next, Callback, InCall

\* m_ is held by a thread in its loop.
LEMMA LockStep ==
  ASSUME WorkOK, [Next]_vars, LockOK PROVE LockOK'
<1>. USE DEF LockOK
<1>0. Clients \subseteq Threads /\ Collectors \subseteq Threads /\ Main \in Threads
  BY DEF Threads
<1>1. ASSUME NEW t \in Clients, AddJob(t) PROVE LockOK'
  BY <1>0, <1>1, AddShape DEF AddJob, Moves, GoesTo, Stops, bookVars
<1>2. ASSUME NEW t \in Threads, EmplaceJob(t) PROVE LockOK'
  BY <1>0, <1>2, EmplaceShape DEF EmplaceJob, Moves, GoesTo, Stops, bookVars
<1>3. ASSUME NEW t \in Threads, CopyJob(t) PROVE LockOK'
  BY <1>0, <1>3, CopyShape DEF CopyJob, Moves, GoesTo, Stops, bookVars
<1>4. ASSUME NEW t \in Threads, LinkJob(t) PROVE LockOK'
  <2>1. th[t].pc = "link" /\ th \in [Threads -> Thread]
    BY <1>4 DEF LinkJob, WorkOK, ThreadsOK
  <2>2. PICK c \in th[t].todo :
          /\ AddJob2Collector(th[t].id, c)
          /\ th' = [th EXCEPT ![t].todo = th[t].todo \ {c},
                              ![t].pc = IF th[t].todo = {c} THEN "persist" ELSE "link"]
          /\ addLock' = IF th[t].todo = {c} THEN Free ELSE t
          /\ attached /\ UNCHANGED attached
    BY <1>4 DEF LinkJob, bookVars
  <2>3. CASE th[t].todo = {c}
    BY <2>2, <2>3
  <2>4. CASE th[t].todo # {c}
    <3>1. th'[t].pc = "link" /\ addLock' = t
      BY <2>1, <2>2, <2>4 DEF Thread
    <3>. QED
      BY <2>2, <3>1
  <2>. QED
    BY <2>3, <2>4
<1>5. ASSUME NEW t \in Threads, PersistJob(t) PROVE LockOK'
  BY <1>0, <1>5, PersistShape DEF PersistJob, Moves, GoesTo, Stops, bookVars
<1>6. ASSUME NEW t \in Clients, QueryJob(t) PROVE LockOK'
  BY <1>0, <1>6, QueryShape DEF QueryJob, Moves, GoesTo, Stops, bookVars
<1>7. ASSUME NEW t \in Clients, DeleteByMatcher(t) PROVE LockOK'
  BY <1>0, <1>7, MatcherShape DEF DeleteByMatcher, Moves, GoesTo, Stops, bookVars
<1>8. ASSUME NEW t \in Threads, FindJob(t) PROVE LockOK'
  BY <1>0, <1>8, FindShape, ReturnShape DEF FindJob, Moves, GoesTo, Stops, NextJob, bookVars
<1>9. ASSUME NEW t \in Threads, DelJob(t) PROVE LockOK'
  BY <1>0, <1>9, DelShape, ReturnShape DEF DelJob, Moves, GoesTo, Stops, NextJob, bookVars
<1>10. ASSUME NEW t \in Threads, UnlinkJob(t) PROVE LockOK'
  BY <1>0, <1>10, UnlinkShape DEF UnlinkJob, Moves, GoesTo, Stops, bookVars
<1>11. ASSUME NEW t \in Threads, ArchiveJob(t) PROVE LockOK'
  BY <1>0, <1>11, ArchiveShape, ReturnShape DEF ArchiveJob, Moves, GoesTo, Stops, NextJob, bookVars
<1>12. ASSUME NEW c \in Collectors, Tick(c) PROVE LockOK'
  BY <1>0, <1>12, TickShape DEF Tick, Moves, GoesTo, Stops, bookVars
<1>13. ASSUME NEW c \in Collectors, Collect(c) PROVE LockOK'
  BY <1>0, <1>13, CollectShape DEF Collect, Moves, GoesTo, Stops, bookVars
<1>14. ASSUME AddLifecycleCb PROVE LockOK'
  BY <1>14 DEF AddLifecycleCb
<1>15. ASSUME RestoreNext PROVE LockOK'
  BY <1>0, <1>15, RestoreShape DEF RestoreNext, Moves, GoesTo, Stops, bookVars
<1>16. ASSUME ProcessesExit PROVE LockOK'
  BY <1>16 DEF ProcessesExit, bookVars
<1>17. ASSUME CrashRestart PROVE LockOK'
  BY <1>17 DEF CrashRestart
<1>19. ASSUME NEW t \in Threads, NoCallback(t) PROVE LockOK'
  BY <1>19 DEF NoCallback
<1>18. ASSUME UNCHANGED vars PROVE LockOK'
  BY <1>18 DEF vars, bookVars
<1>. QED
  BY <1>0, <1>1, <1>2, <1>3, <1>4, <1>5, <1>6, <1>7, <1>8, <1>9, <1>10, <1>11, <1>12, <1>13, <1>14, <1>15, <1>16, <1>17, <1>18, <1>19
  DEF Next, Callback, InCall

-----------------------------------------------------------------------------
(* Theorems.                                                               *)

\* Every variable of the registry and the scheduler has its type.
THEOREM JobTypes == Spec => []TypeOK
<1>1. Init => NumbersOK /\ LockOK
  BY DEF Init, RegistryInit, NumbersOK, LockOK
<1>2. WorkOK /\ NumbersOK /\ LockOK /\ [Next]_vars => NumbersOK' /\ LockOK'
  <2>1. WorkOK /\ NumbersOK /\ [Next]_vars => NumbersOK'
    BY NumbersStep
  <2>2. WorkOK /\ LockOK /\ [Next]_vars => LockOK'
    BY LockStep
  <2>. QED
    BY <2>1, <2>2
<1>3. WorkOK /\ IInv /\ NumbersOK /\ LockOK => TypeOK
  BY DEF WorkOK, ThreadsOK, TablesOK, IInv, NumbersOK, LockOK, RegistryTypeOK, TypeOK
<1>. QED
  BY <1>1, <1>2, <1>3, WorkInvariant, InStep, PTL DEF Spec

\* A job in the table that was inserted after any deletion of its id is not
\* being deleted, and its record is there or coming.
LEMMA SafeInvariant == Spec => []Safe
<1>1. Init => Safe
  BY IdleThread
  DEF Init, RegistryInit, SchedInit, Safe, WorkOK, ThreadsOK, TablesOK, IInv, SchedTypeOK,
      TimerMatchesRunning, Erased, OwnRest, Served, Linked, Recorded, Removed, Idle
<1>2. Safe /\ [Next]_vars /\ WorkOK' /\ IInv' => Safe'
  <2>. SUFFICES ASSUME Safe, [Next]_vars, WorkOK', IInv' PROVE Safe'
    OBVIOUS
  <2>1. Erased' /\ OwnRest' /\ Served' /\ Linked' /\ Recorded' /\ Removed'
    BY ErasedStep, OwnRestStep, ServedStep, LinkedStep, RecordedStep, RemovedStep
  <2>. QED
    BY <2>1 DEF Safe
<1>. QED
  BY <1>1, <1>2, WorkInvariant, InStep, PTL DEF Spec

\* Once the calls on a job are over, its record is there exactly if it is in
\* the table: a restart restores the registered jobs, whenever it comes.  A job
\* inserted during a deletion of its id may lose its record, and the record of a
\* restored job that was refused stays: no other record is wrong.
THEOREM RecordsAgree == Spec => []RecordsMatchJobs
<1>1. Safe => RecordsMatchJobs
  <2>. SUFFICES ASSUME Safe, NEW j \in JobIds, ~BusyOn(j), j \notin restore
                PROVE  /\ (j \in db \ orphans => j \in jobs)
                       /\ (j \in jobs \ reused => j \in db)
    BY DEF RecordsMatchJobs, Quiet
  <2>1. ~Adding(j)
    BY DEF BusyOn, Adding, Holds
  <2>2. ~Deleting(j) /\ ~Restoring(j)
    BY DEF BusyOn, Deleting, Restoring, Holds, Threads
  <2>. QED
    BY <2>1, <2>2 DEF Safe, Recorded, Removed
<1>. QED
  BY <1>1, SafeInvariant, PTL

\* A registered job nobody is working on is in every list, and its collectors
\* run unless their start failed: every job, but those inserted during a deletion
\* of their id and those whose addition came before addLifecycleCb.
THEOREM JobsAreMonitored == Spec => []JobMonitored
<1>1. Safe => JobMonitored
  <2>. SUFFICES ASSUME Safe, NEW j \in jobs \ (reused \cup missed),
                       NEW c \in Collectors, ~BusyOn(j)
                PROVE  j \in jobList[c] /\ (running[c] \/ handle[c] \in {"failed", "refused"})
    BY DEF JobMonitored
  <2>1. ~Coming(j, c)
    BY DEF BusyOn, Coming, Holds
  <2>2. j \in jobList[c]
    BY <2>1 DEF Safe, Linked
  <2>. QED
    BY <2>2 DEF Safe, Served
<1>. QED
  BY <1>1, SafeInvariant, PTL

-----------------------------------------------------------------------------
(* Generated ids.                                                          *)

\* The ids of all jobs the registry knows of, the archived ones included.
Known == jobs \cup db \cup history \cup restore

\* Every id in use, or about to be used, was handed out before.
Given ==
  /\ \A j \in Known : j < nextJobId
  /\ \A t \in Threads : th[t].pc = "emplace" => th[t].id < nextJobId

\* Steps that bring no new id into the registry.
LEMMA GivenKept ==
  ASSUME Given, nextJobId' = nextJobId, Known' \subseteq Known,
         \A u \in Threads : th'[u].pc = "emplace" =>
           th[u].pc = "emplace" /\ th'[u].id = th[u].id
  PROVE  Given'
BY DEF Given

\* A thread that goes to another place does not come to emplace a job.
LEMMA NoEmplace ==
  ASSUME NEW t, NEW p, p # "emplace", NEW j, NEW s, NEW q, Moves(t, p, j, s, q)
  PROVE  \A u \in Threads : th'[u].pc = "emplace" =>
           th[u].pc = "emplace" /\ th'[u].id = th[u].id
BY DEF Moves

\* Nor does a thread that returns.
LEMMA ReturnNoEmplace ==
  ASSUME WorkOK, NEW t \in Threads, th[t].pc # "idle", Return(t)
  PROVE  \A u \in Threads : th'[u].pc = "emplace" =>
           th[u].pc = "emplace" /\ th'[u].id = th[u].id
BY ReturnShape, NoEmplace DEF Stops, GoesTo, NextJob

\* The counter after a restart is past every id on disk.
LEMMA RestoredAbove ==
  ASSUME counter \in Nat, db \subseteq JobIds, history \subseteq JobIds,
         NEW j \in db \cup history
  PROVE  j < RestoredCounter
<1> DEFINE S == db \cup history
<1>1. S \in SUBSET JobIds /\ S # {} /\ JobIds \subseteq Nat
  BY RegistryAssumption DEF JobIds
<1>2. \E x \in S : \A y \in S : y <= x
  <2>. HIDE DEF S
  <2>. QED
    BY <1>1, HasMax
<1>3. MaxOf(S) \in S /\ \A y \in S : y <= MaxOf(S)
  <2>. HIDE DEF S
  <2>. QED
    BY <1>1, <1>2 DEF MaxOf
<1>4. j <= MaxOf(db \cup history) /\ MaxOf(db \cup history) \in Nat /\ j \in Nat
  BY <1>1, <1>3
<1>. QED
  BY <1>4 DEF RestoredCounter

\* When every request asks for a generated id, ids only come from the counter,
\* and the counter is never set back below one of them.
LEMMA GivenStep ==
  ASSUME RequestIds = {0}, WorkOK, NumbersOK, Given, [Next]_vars PROVE Given'
<1>0. /\ Clients \subseteq Threads /\ Collectors \subseteq Threads /\ Main \in Threads
      /\ nextJobId \in Nat /\ counter \in Nat
  BY DEF Threads, NumbersOK
<1>1. ASSUME NEW t \in Clients, AddJob(t) PROVE Given'
  <2>1. PICK r \in RequestIds :
          /\ r = 0 => nextJobId \in JobIds
          /\ th' = [th EXCEPT ![t] = [Idle EXCEPT !.pc = "emplace", !.id = IdFor(r)]]
          /\ IF r = 0 THEN GetNextJobID ELSE UNCHANGED <<nextJobId, counter>>
    BY <1>1 DEF AddJob
  <2>2. nextJobId \in JobIds /\ IdFor(r) = nextJobId /\ nextJobId' = nextJobId + 1
    BY <2>1 DEF IdFor, GetNextJobID
  <2>3. Moves(t, "emplace", nextJobId, {}, {})
    BY <1>0, <2>1, <2>2, BeginShape
  <2>4. UNCHANGED <<jobs, db, history, restore>> /\ Known' = Known
    BY <1>1 DEF AddJob, Known
  <2>5. ASSUME NEW u \in Threads, th'[u].pc = "emplace" PROVE th'[u].id < nextJobId'
    <3>1. CASE u = t
      BY <1>0, <2>2, <2>3, <3>1 DEF Moves
    <3>2. CASE u # t
      <4>1. th'[u] = th[u] /\ th[u].id < nextJobId
        BY <2>3, <2>5, <3>2 DEF Moves, Given
      <4>2. th[u].id \in Nat
        BY RegistryAssumption DEF WorkOK, ThreadsOK, Thread
      <4>. QED
        BY <1>0, <2>2, <4>1, <4>2
    <3>. QED
      BY <3>1, <3>2
  <2>6. Known \subseteq Nat
    BY RegistryAssumption DEF Known, WorkOK, TablesOK, NumbersOK, JobIds
  <2>. QED
    BY <1>0, <2>2, <2>4, <2>5, <2>6 DEF Given
<1>2. ASSUME NEW t \in Threads, EmplaceJob(t) PROVE Given'
  <2>1. /\ th[t].pc = "emplace" /\ jobs' \subseteq jobs \cup {th[t].id}
        /\ UNCHANGED <<db, restore, history, nextJobId>>
    BY <1>2, EmplaceShape DEF EmplaceJob
  <2>2. \A u \in Threads : th'[u].pc = "emplace" =>
          th[u].pc = "emplace" /\ th'[u].id = th[u].id
    BY <1>2, EmplaceShape, NoEmplace DEF Stops, GoesTo
  <2>. QED
    BY <2>1, <2>2 DEF Given, Known
<1>3. ASSUME NEW t \in Threads,
             CopyJob(t) \/ NoCallback(t) \/ LinkJob(t) \/ UnlinkJob(t)
      PROVE  Given'
  <2>1. UNCHANGED <<jobs, db, history, restore, nextJobId>>
    BY <1>3 DEF CopyJob, NoCallback, LinkJob, UnlinkJob, registryVars, bookVars
  <2>2. \E p, j, s, q : p # "emplace" /\ Moves(t, p, j, s, q)
    BY <1>0, <1>3, CopyShape, NoCallbackShape, LinkShape, UnlinkShape DEF Stops, GoesTo
  <2>. QED
    BY <2>1, <2>2, NoEmplace, GivenKept DEF Known
<1>4. ASSUME NEW t \in Threads, PersistJob(t) PROVE Given'
  <2>1. /\ UNCHANGED <<jobs, history, restore, nextJobId>> /\ db' \subseteq db \cup jobs
        /\ Stops(t)
    BY <1>4, PersistShape DEF PersistJob
  <2>. QED
    BY <2>1, NoEmplace, GivenKept DEF Known, Stops
<1>5. ASSUME NEW t \in Clients, QueryJob(t) \/ DeleteByMatcher(t) PROVE Given'
  <2>1. UNCHANGED <<db, history, restore, nextJobId>> /\ jobs' \subseteq jobs
    BY <1>5 DEF QueryJob, DeleteByMatcher, registryVars, bookVars
  <2>2. \E p, j, s, q : p # "emplace" /\ Moves(t, p, j, s, q)
    BY <1>0, <1>5, QueryShape, MatcherShape
  <2>. QED
    BY <2>1, <2>2, NoEmplace, GivenKept DEF Known
<1>6. ASSUME NEW t \in Threads, FindJob(t) PROVE Given'
  <2>1. UNCHANGED <<jobs, history, restore, nextJobId>> /\ db' \subseteq db \cup jobs
    BY <1>6, FindShape DEF FindJob
  <2>2. \A u \in Threads : th'[u].pc = "emplace" =>
          th[u].pc = "emplace" /\ th'[u].id = th[u].id
    BY <1>6, FindShape, NoEmplace, ReturnNoEmplace DEF GoesTo
  <2>. QED
    BY <2>1, <2>2, GivenKept DEF Known
<1>7. ASSUME NEW t \in Threads, DelJob(t) PROVE Given'
  <2>1. UNCHANGED <<db, history, restore, nextJobId>> /\ jobs' \subseteq jobs
    BY <1>7, DelShape DEF DelJob
  <2>2. \A u \in Threads : th'[u].pc = "emplace" =>
          th[u].pc = "emplace" /\ th'[u].id = th[u].id
    BY <1>0, <1>7, DelShape, NoEmplace, ReturnNoEmplace
  <2>. QED
    BY <2>1, <2>2, GivenKept DEF Known
<1>8. ASSUME NEW t \in Threads, ArchiveJob(t) PROVE Given'
  <2>1. UNCHANGED <<jobs, restore, nextJobId>> /\ db' \subseteq db
        /\ history' \subseteq history \cup db
    BY <1>8 DEF ArchiveJob, Archive, bookVars
  <2>2. \A u \in Threads : th'[u].pc = "emplace" =>
          th[u].pc = "emplace" /\ th'[u].id = th[u].id
    BY <1>8, ArchiveShape, ReturnNoEmplace
  <2>. QED
    BY <2>1, <2>2, GivenKept DEF Known
<1>9. ASSUME NEW c \in Collectors, Tick(c) \/ Collect(c) PROVE Given'
  <2>1. UNCHANGED <<jobs, db, history, restore, nextJobId>>
    BY <1>9 DEF Tick, Collect, registryVars, bookVars
  <2>2. th' = th \/ \E p, j, s, q : p # "emplace" /\ Moves(c, p, j, s, q)
    BY <1>9, TickShape, CollectShape DEF Stops
  <2>. QED
    BY <2>1, <2>2, NoEmplace, GivenKept DEF Known
<1>10. ASSUME RestoreNext PROVE Given'
  <2>1. PICK j \in restore : /\ Moves(Main, "emplace", j, {}, {})
                             /\ restore' = restore \ {j}
    BY <1>10, RestoreShape
  <2>2. UNCHANGED <<jobs, db, history, nextJobId>> /\ j < nextJobId
    BY <1>10 DEF RestoreNext, registryVars, Given, Known
  <2>. QED
    BY <2>1, <2>2 DEF Given, Known, Moves
<1>11. ASSUME CrashRestart PROVE Given'
  <2>1. /\ Known' = db \cup history /\ nextJobId' = RestoredCounter
        /\ th' = [t \in Threads |-> Idle]
    BY <1>11 DEF CrashRestart, Known
  <2>2. \A j \in db \cup history : j < RestoredCounter
    BY RestoredAbove DEF WorkOK, TablesOK, NumbersOK
  <2>. QED
    BY <2>1, <2>2, IdleThread DEF Given
<1>12. ASSUME AddLifecycleCb \/ ProcessesExit \/ UNCHANGED vars PROVE Given'
  <2>1. UNCHANGED <<jobs, db, history, restore, nextJobId, th>>
    BY <1>12 DEF AddLifecycleCb, ProcessesExit, vars, registryVars, bookVars
  <2>. QED
    BY <2>1 DEF Given, Known
<1>. QED
  BY <1>0, <1>1, <1>2, <1>3, <1>4, <1>5, <1>6, <1>7, <1>8, <1>9, <1>10, <1>11, <1>12
  DEF Next, Callback, InCall

\* The next id is one no job has or had: as long as all requests leave the id
\* to the registry, generated ids are unique over restarts as well, among
\* registered, recorded and archived jobs.  With ids of their own in requests
\* GeneratedIdUnique fails.
THEOREM GeneratedIdsUnique ==
  ASSUME RequestIds = {0}
  PROVE  Spec => GeneratedIdUnique /\ [](nextJobId \notin Known)
<1>1. Init => NumbersOK /\ Given
  BY DEF Init, RegistryInit, NumbersOK, Given, Known, Idle
<1>2. WorkOK /\ NumbersOK /\ [Next]_vars => NumbersOK'
  BY NumbersStep
<1>3. WorkOK /\ NumbersOK /\ Given /\ [Next]_vars => Given'
  BY GivenStep
<1>4. NumbersOK /\ Given => nextJobId \notin Known
  BY DEF NumbersOK, Given
<1>5. nextJobId \notin Known
        => [nextJobId' = nextJobId + 1 /\ crashes' = crashes => nextJobId \notin jobs]_vars
  BY DEF Known
<1>. QED
  BY <1>1, <1>2, <1>3, <1>4, <1>5, WorkInvariant, PTL DEF Spec, GeneratedIdUnique
=============================================================================
