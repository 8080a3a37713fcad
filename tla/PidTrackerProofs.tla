-------------------------- MODULE PidTrackerProofs --------------------------
(***************************************************************************)
(* Proofs about PidTracker, for any processes, jobs, ring sizes and number *)
(* of evictions: as long as no event is dropped, user space misses no      *)
(* running process of a registered job, whatever deletes, late map writes  *)
(* and reconcile passes do meanwhile; and, dropped or not, no event and no *)
(* rescan takes a running process off the list of a registered job.        *)
(***************************************************************************)
EXTENDS PidTracker, TLAPS

\* A process that was never started is known to nobody.
UnbornUnknown ==
  \A p \in Pids : proc[p] = "unborn" =>
    /\ pid2job[p] = None
    /\ \A j \in Jobs : p \notin jobPids[j]
    /\ \A t \in Threads, j \in Jobs : <<j, p>> \notin th[t].todo

\* Events are about processes that were started; those of an EXIT have ended.
EventsOK ==
  \A i \in 1 .. Len(ring) :
    /\ proc[ring[i].pid] # "unborn"
    /\ ring[i].type = "EXIT" => proc[ring[i].pid] = "dead"

\* A job that was not added yet is known to nobody.
FreshUnknown ==
  \A j \in fresh :
    /\ j \notin jobs
    /\ \A p \in Pids : pid2job[p] # j
    /\ \A t \in Threads, p \in Pids : <<j, p>> \notin th[t].todo

\* What is still to be written, however old the snapshot: as long as the job
\* and the process exist, the process is in the job's list.
WritesListed ==
  \A t \in Threads, j \in jobs, p \in Live :
    th[t].pc = "write" /\ <<j, p>> \in th[t].todo => p \in jobPids[j]

\* A running process of a registered job is listed, or its FORK is on the way.
ListedOrAnnounced ==
  ~dropped =>
    \A j \in jobs, p \in Live :
      pid2job[p] = j =>
        \/ p \in jobPids[j]
        \/ \E i \in 1 .. Len(ring) :
             ring[i] = [type |-> "FORK", pid |-> p, job |-> j]

IInv ==
  /\ TypeOK
  /\ UnbornUnknown
  /\ EventsOK
  /\ FreshUnknown
  /\ WritesListed
  /\ ListedOrAnnounced

-----------------------------------------------------------------------------
\* The types of one entry still to be written, and of one event.
LEMMA Types ==
  ASSUME TypeOK
  PROVE  /\ \A i \in 1 .. Len(ring) :
              /\ ring[i] \in [type : {"FORK", "EXIT"}, pid : Pids, job : Jobs]
              /\ ring[i].pid \in Pids
         /\ \A t \in Threads : th[t].todo \subseteq Jobs \X Pids
<1> DEFINE E == [type : {"FORK", "EXIT"}, pid : Pids, job : Jobs]
<1>1. ring \in Seq(E)
  BY DEF TypeOK
<1>2. \A i \in 1 .. Len(ring) : ring[i] \in E
  <2>. HIDE DEF E
  <2>. QED  BY <1>1
<1>3. \A i \in 1 .. Len(ring) : ring[i].pid \in Pids
  BY <1>2
<1>4. \A t \in Threads : th[t].todo \subseteq Jobs \X Pids
  BY DEF TypeOK, ThreadState
<1>. QED  BY <1>2, <1>3, <1>4

\* A process is in its own tree.
LEMMA TreeContains ==
  ASSUME NEW S \in SUBSET Pids
  PROVE  S \subseteq Tree(S) /\ Tree(S) \subseteq Pids
BY DEF Tree

\* Appending to the ring: earlier events stay where they are.
LEMMA Appended ==
  ASSUME NEW E, NEW s \in Seq(E), NEW e \in E
  PROVE  /\ Append(s, e) \in Seq(E)
         /\ Len(Append(s, e)) = Len(s) + 1
         /\ \A i \in 1 .. Len(s) : Append(s, e)[i] = s[i]
         /\ Append(s, e)[Len(s) + 1] = e
OBVIOUS

\* Taking the first event: the others move up.
LEMMA Taken ==
  ASSUME NEW E, NEW s \in Seq(E), s # <<>>
  PROVE  /\ Tail(s) \in Seq(E)
         /\ Len(Tail(s)) = Len(s) - 1
         /\ Len(s) \in Nat \ {0}
         /\ Head(s) = s[1] /\ Head(s) \in E
         /\ \A i \in 1 .. Len(Tail(s)) : Tail(s)[i] = s[i + 1]
OBVIOUS

\* What a hook does to the ring: nothing is lost unless "dropped" says so.
LEMMA PushKeeps ==
  ASSUME TypeOK, NEW type \in {"FORK", "EXIT"}, NEW p \in Pids, NEW j \in Jobs,
         Push(type, p, j)
  PROVE  /\ ring' \in Seq([type : {"FORK", "EXIT"}, pid : Pids, job : Jobs])
         /\ Len(ring') <= RingSize
         /\ dropped' \in BOOLEAN
         /\ dropped => dropped'
         /\ Len(ring) <= Len(ring')
         /\ \A i \in 1 .. Len(ring) : ring'[i] = ring[i]
         /\ \A i \in 1 .. Len(ring') :
              i \in 1 .. Len(ring)
              \/ ring'[i] = [type |-> type, pid |-> p, job |-> j]
         /\ ~dropped' => \E i \in 1 .. Len(ring') :
                           ring'[i] = [type |-> type, pid |-> p, job |-> j]
<1> DEFINE E == [type : {"FORK", "EXIT"}, pid : Pids, job : Jobs]
           e == [type |-> type, pid |-> p, job |-> j]
<1>1. ring \in Seq(E) /\ e \in E /\ Len(ring) \in Nat /\ RingSize \in Nat
  BY PidAssumption DEF TypeOK
<1>2. CASE Full
  BY <1>1, <1>2 DEF Push, TypeOK
<1>3. CASE ~Full
  <2>1. ring' = Append(ring, e) /\ dropped' = dropped
    BY <1>3 DEF Push
  <2>2. /\ ring' \in Seq(E)
        /\ Len(ring') = Len(ring) + 1
        /\ \A i \in 1 .. Len(ring) : ring'[i] = ring[i]
        /\ ring'[Len(ring) + 1] = e
    <3>. HIDE DEF E, e
    <3>. QED  BY <1>1, <2>1, Appended
  <2>3. Len(ring') <= RingSize
    BY <1>1, <1>3, <2>2 DEF Full
  <2>. HIDE DEF E, e
  <2>. QED  BY <1>1, <2>1, <2>2, <2>3 DEF TypeOK, E, e
<1>. QED  BY <1>2, <1>3

-----------------------------------------------------------------------------
(* Processes and hooks.                                                    *)

\* A process nobody tracks starts: nothing knows it.
LEMMA SpawnStep ==
  ASSUME IInv, NEW p \in Pids, Spawn(p)
  PROVE  IInv'
<1>. USE DEF IInv, Spawn, procVars, ringVars, jobVars
<1>1. TypeOK'
  BY DEF TypeOK
<1>2. UnbornUnknown' /\ EventsOK' /\ FreshUnknown'
  BY Types DEF TypeOK, UnbornUnknown, EventsOK, FreshUnknown
<1>3. Live' = Live \cup {p}
  BY DEF TypeOK, Live
<1>4. WritesListed'
  BY <1>3, Types DEF TypeOK, UnbornUnknown, WritesListed
<1>5. ListedOrAnnounced'
  <2>. SUFFICES ASSUME ~dropped, NEW j \in jobs, NEW q \in Live',
                       pid2job'[q] = j
                PROVE  \/ q \in jobPids[j]
                       \/ \E i \in 1 .. Len(ring) :
                            ring[i] = [type |-> "FORK", pid |-> q, job |-> j]
    BY ZenonT(60) DEF ListedOrAnnounced
  <2>1. q \in Live /\ pid2job[q] = j
    BY <1>3, PidAssumption DEF TypeOK, UnbornUnknown, Live
  <2>. QED  BY <2>1 DEF ListedOrAnnounced
<1>. QED  BY <1>1, <1>2, <1>4, <1>5

\* A fork: the child of a tracked process is announced, or an event dropped.
LEMMA ForkStep ==
  ASSUME IInv, NEW p \in Pids, NEW c \in Pids, Fork(p, c)
  PROVE  IInv'
<1>. USE DEF IInv, Fork, procVars, ringVars, jobVars
<1>1. Live' = Live \cup {c} /\ c \notin Live /\ p # c
  BY DEF TypeOK, Live
<1>2. CASE pid2job[p] = None
  <2>1. TypeOK'
    BY <1>2 DEF TypeOK
  <2>2. UnbornUnknown' /\ EventsOK' /\ FreshUnknown'
    BY <1>2, Types DEF TypeOK, UnbornUnknown, EventsOK, FreshUnknown
  <2>3. WritesListed'
    BY <1>1, <1>2, Types DEF TypeOK, UnbornUnknown, WritesListed
  <2>4. ListedOrAnnounced'
    <3>0. UNCHANGED <<ring, dropped, jobs, jobPids>>
      BY <1>2
    <3>. SUFFICES ASSUME ~dropped, NEW j \in jobs, NEW q \in Live',
                         pid2job'[q] = j
                  PROVE  \/ q \in jobPids[j]
                         \/ \E i \in 1 .. Len(ring) :
                              ring[i] = [type |-> "FORK", pid |-> q, job |-> j]
      BY <3>0 DEF ListedOrAnnounced
    <3>1. q \in Live /\ pid2job[q] = j
      BY <1>1, <1>2, PidAssumption DEF TypeOK, UnbornUnknown, Live
    <3>. QED  BY <3>1 DEF ListedOrAnnounced
  <2>. QED  BY <2>1, <2>2, <2>3, <2>4
<1>3. CASE pid2job[p] # None
  <2> DEFINE j == pid2job[p]
  <2>1. j \in Jobs /\ pid2job' = [pid2job EXCEPT ![c] = j]
        /\ Push("FORK", c, j)
    BY <1>3 DEF TypeOK, Forked
  <2>2. /\ ring' \in Seq([type : {"FORK", "EXIT"}, pid : Pids, job : Jobs])
        /\ Len(ring') <= RingSize
        /\ dropped' \in BOOLEAN
        /\ dropped => dropped'
        /\ Len(ring) <= Len(ring')
        /\ \A i \in 1 .. Len(ring) : ring'[i] = ring[i]
        /\ \A i \in 1 .. Len(ring') :
             i \in 1 .. Len(ring)
             \/ ring'[i] = [type |-> "FORK", pid |-> c, job |-> j]
        /\ ~dropped' => \E i \in 1 .. Len(ring') :
                          ring'[i] = [type |-> "FORK", pid |-> c, job |-> j]
    <3>. HIDE DEF j
    <3>. QED  BY <2>1, PushKeeps
  <2>3. 1 .. Len(ring) \subseteq 1 .. Len(ring')
    BY <2>2 DEF TypeOK
  <2>. HIDE DEF j
  <2>4. TypeOK'
    BY <2>1, <2>2 DEF TypeOK
  <2>5. UnbornUnknown' /\ FreshUnknown'
    <3>1. j \notin fresh
      BY DEF j, FreshUnknown
    <3>. QED  BY <2>1, <3>1 DEF TypeOK, UnbornUnknown, FreshUnknown
  <2>6. EventsOK'
    <3>. SUFFICES ASSUME NEW i \in 1 .. Len(ring')
                  PROVE  /\ proc'[ring'[i].pid] # "unborn"
                         /\ ring'[i].type = "EXIT" => proc'[ring'[i].pid] = "dead"
      BY DEF EventsOK
    <3>1. CASE i \in 1 .. Len(ring)
      BY <2>2, <3>1, Types DEF TypeOK, EventsOK
    <3>2. CASE ring'[i] = [type |-> "FORK", pid |-> c, job |-> j]
      BY <3>2 DEF TypeOK
    <3>. QED  BY <2>2, <3>1, <3>2
  <2>7. WritesListed'
    BY <1>1, Types DEF TypeOK, UnbornUnknown, WritesListed
  <2>8. ListedOrAnnounced'
    <3>. SUFFICES ASSUME ~dropped', NEW k \in jobs, NEW q \in Live',
                         pid2job'[q] = k
                  PROVE  \/ q \in jobPids[k]
                         \/ \E i \in 1 .. Len(ring') :
                              ring'[i] = [type |-> "FORK", pid |-> q, job |-> k]
      BY DEF ListedOrAnnounced
    <3>1. CASE q = c
      BY <2>1, <2>2, <3>1 DEF TypeOK
    <3>2. CASE q # c
      <4>1. q \in Live /\ pid2job[q] = k
        BY <1>1, <2>1, <3>2 DEF TypeOK, Live
      <4>. QED  BY <2>2, <2>3, <4>1 DEF ListedOrAnnounced
    <3>. QED  BY <3>1, <3>2
  <2>. QED  BY <2>4, <2>5, <2>6, <2>7, <2>8
<1>. QED  BY <1>2, <1>3

\* An exit: the event, if any, is about a process that has ended.
LEMMA ExitStep ==
  ASSUME IInv, NEW p \in Pids, Exit(p)
  PROVE  IInv'
<1>. USE DEF IInv, Exit, procVars, ringVars, jobVars
<1>1. Live' = Live \ {p} /\ p \in Live
  BY DEF TypeOK, Live
<1>2. parent' \in [Pids -> Pids \cup {None}]
  BY DEF TypeOK
<1>3. CASE pid2job[p] = None
  <2>1. TypeOK'
    BY <1>2, <1>3 DEF TypeOK
  <2>2. UnbornUnknown' /\ EventsOK' /\ FreshUnknown'
    BY <1>3, Types DEF TypeOK, UnbornUnknown, EventsOK, FreshUnknown
  <2>3. WritesListed' /\ ListedOrAnnounced'
    BY <1>1, <1>3 DEF WritesListed, ListedOrAnnounced
  <2>. QED  BY <2>1, <2>2, <2>3
<1>4. CASE pid2job[p] # None
  <2> DEFINE j == pid2job[p]
  <2>1. j \in Jobs /\ pid2job' = [pid2job EXCEPT ![p] = None]
        /\ Push("EXIT", p, j)
    BY <1>4 DEF TypeOK
  <2>2. /\ ring' \in Seq([type : {"FORK", "EXIT"}, pid : Pids, job : Jobs])
        /\ Len(ring') <= RingSize
        /\ dropped' \in BOOLEAN
        /\ dropped => dropped'
        /\ Len(ring) <= Len(ring')
        /\ \A i \in 1 .. Len(ring) : ring'[i] = ring[i]
        /\ \A i \in 1 .. Len(ring') :
             i \in 1 .. Len(ring)
             \/ ring'[i] = [type |-> "EXIT", pid |-> p, job |-> j]
    <3>. HIDE DEF j
    <3>. QED  BY <2>1, PushKeeps
  <2>3. 1 .. Len(ring) \subseteq 1 .. Len(ring')
    BY <2>2 DEF TypeOK
  <2>. HIDE DEF j
  <2>4. TypeOK'
    BY <1>2, <2>1, <2>2 DEF TypeOK
  <2>5. UnbornUnknown' /\ FreshUnknown'
    BY <2>1, PidAssumption DEF TypeOK, UnbornUnknown, FreshUnknown
  <2>6. EventsOK'
    <3>. SUFFICES ASSUME NEW i \in 1 .. Len(ring')
                  PROVE  /\ proc'[ring'[i].pid] # "unborn"
                         /\ ring'[i].type = "EXIT" => proc'[ring'[i].pid] = "dead"
      BY DEF EventsOK
    <3>1. CASE i \in 1 .. Len(ring)
      BY <2>2, <3>1, Types DEF TypeOK, EventsOK
    <3>2. CASE ring'[i] = [type |-> "EXIT", pid |-> p, job |-> j]
      BY <3>2 DEF TypeOK
    <3>. QED  BY <2>2, <3>1, <3>2
  <2>7. WritesListed'
    BY <1>1 DEF WritesListed
  <2>8. ListedOrAnnounced'
    <3>. SUFFICES ASSUME ~dropped', NEW k \in jobs, NEW q \in Live',
                         pid2job'[q] = k
                  PROVE  \/ q \in jobPids[k]
                         \/ \E i \in 1 .. Len(ring') :
                              ring'[i] = [type |-> "FORK", pid |-> q, job |-> k]
      BY DEF ListedOrAnnounced
    <3>1. q \in Live /\ q # p /\ pid2job[q] = k
      BY <1>1, <2>1 DEF TypeOK, Live
    <3>. QED  BY <2>2, <2>3, <3>1 DEF ListedOrAnnounced
  <2>. QED  BY <2>4, <2>5, <2>6, <2>7, <2>8
<1>. QED  BY <1>3, <1>4

\* The LRU map throws an entry out: fewer entries, nothing else.
LEMMA EvictStep ==
  ASSUME IInv, NEW p \in Pids, Evict(p)
  PROVE  IInv'
<1>. USE DEF IInv, Evict, procVars, ringVars, jobVars
<1>1. TypeOK'
  BY PidAssumption DEF TypeOK
<1>2. UnbornUnknown' /\ EventsOK' /\ FreshUnknown'
  BY PidAssumption DEF TypeOK, UnbornUnknown, EventsOK, FreshUnknown
<1>3. WritesListed'
  BY DEF WritesListed, Live
<1>4. ListedOrAnnounced'
  <2>. SUFFICES ASSUME ~dropped, NEW j \in jobs, NEW q \in Live',
                       pid2job'[q] = j
                PROVE  \/ q \in jobPids[j]
                       \/ \E i \in 1 .. Len(ring) :
                            ring[i] = [type |-> "FORK", pid |-> q, job |-> j]
    BY ZenonT(60) DEF ListedOrAnnounced
  <2>1. q \in Live /\ pid2job[q] = j
    BY  PidAssumption DEF TypeOK, UnbornUnknown, Live
  <2>. QED  BY <2>1 DEF ListedOrAnnounced
<1>. QED  BY <1>1, <1>2, <1>3, <1>4

-----------------------------------------------------------------------------
(* User space.                                                             *)

\* An event is applied: what is taken out of a list has ended.
LEMMA PollStep ==
  ASSUME IInv, Poll
  PROVE  IInv'
<1>. USE DEF IInv, Poll, procVars, ringVars, jobVars
<1> DEFINE E == [type : {"FORK", "EXIT"}, pid : Pids, job : Jobs]
           e == Head(ring)
<1>1. /\ ring' \in Seq(E)
      /\ Len(ring') = Len(ring) - 1
      /\ Len(ring) \in Nat \ {0}
      /\ e = ring[1] /\ e \in E
      /\ \A i \in 1 .. Len(ring') : ring'[i] = ring[i + 1]
  <2>1. ring \in Seq(E) /\ ring # <<>> /\ ring' = Tail(ring)
    BY DEF TypeOK
  <2>. HIDE DEF E
  <2>. QED  BY <2>1, Taken
<1>2. /\ e.pid \in Pids /\ e.job \in Jobs /\ e.type \in {"FORK", "EXIT"}
      /\ proc[e.pid] # "unborn"
      /\ e.type = "EXIT" => proc[e.pid] = "dead"
  BY <1>1 DEF EventsOK
<1>3. /\ jobPids' \in [Jobs -> SUBSET Pids]
      /\ \A k \in Jobs : jobPids'[k] \subseteq jobPids[k] \cup {e.pid}
      /\ \A k \in jobs : k = e.job /\ e.type = "FORK" => e.pid \in jobPids'[k]
      /\ \A k \in Jobs : jobPids[k] \cap Live \subseteq jobPids'[k]
  BY <1>2 DEF TypeOK, Live
<1>. HIDE DEF e
<1>4. TypeOK'
  BY <1>1, <1>3, PidAssumption DEF TypeOK
<1>5. UnbornUnknown' /\ FreshUnknown'
  BY <1>2, <1>3 DEF UnbornUnknown, FreshUnknown
<1>6. EventsOK'
  BY <1>1 DEF EventsOK
<1>7. WritesListed'
  BY <1>3 DEF TypeOK, WritesListed, Live
<1>8. ListedOrAnnounced'
  <2>. SUFFICES ASSUME ~dropped, NEW k \in jobs, NEW q \in Live,
                       pid2job[q] = k, q \notin jobPids'[k]
                PROVE  \E i \in 1 .. Len(ring') :
                         ring'[i] = [type |-> "FORK", pid |-> q, job |-> k]
    BY DEF ListedOrAnnounced, Live
  <2>1. PICK i \in 1 .. Len(ring) :
          ring[i] = [type |-> "FORK", pid |-> q, job |-> k]
    BY <1>3 DEF TypeOK, ListedOrAnnounced
  <2>2. i # 1
    BY <1>1, <1>3, <2>1
  <2>3. i - 1 \in 1 .. Len(ring') /\ ring'[i - 1] = ring[i]
    BY <1>1, <2>2
  <2>. QED  BY <2>1, <2>3
<1>. QED  BY <1>4, <1>5, <1>6, <1>7, <1>8

\* The record of a thread that has nothing to do, or nothing to write yet.
LEMMA IdleRecord ==
  ASSUME NEW j \in Jobs, NEW x \in {"copy", "erase"}
  PROVE  /\ Idle \in ThreadState /\ Idle.pc = "idle" /\ Idle.todo = {}
         /\ [Idle EXCEPT !.pc = x, !.job = j] \in ThreadState
         /\ [Idle EXCEPT !.pc = x, !.job = j].pc = x
         /\ [Idle EXCEPT !.pc = x, !.job = j].todo = {}
<1>1. Idle \in ThreadState /\ Idle.pc = "idle" /\ Idle.todo = {}
  BY DEF Idle, ThreadState
<1>. QED  BY <1>1 DEF ThreadState

\* A job is added that nothing knew of.
LEMMA AddJobStep ==
  ASSUME IInv, NEW j \in Jobs, NEW p \in Pids, AddJob(j, p)
  PROVE  IInv'
<1> DEFINE r == [Idle EXCEPT !.pc = "copy", !.job = j]
<1>1. /\ j \in fresh /\ jobs' = jobs \cup {j} /\ fresh' = fresh \ {j}
      /\ jobPids' = [jobPids EXCEPT ![j] = {p}] /\ p \in Live
      /\ UNCHANGED <<proc, parent, pid2job, ring, dropped, evicted>>
  BY DEF AddJob, ringVars
<1>2. "client" \in Threads /\ th' = [th EXCEPT !["client"] = r]
  BY DEF AddJob, Threads
<1>3. r \in ThreadState /\ r.pc = "copy" /\ r.todo = {}
  BY IdleRecord
<1>. HIDE DEF r
<1>4. owner' \in [Pids -> Jobs \cup {None}]
  BY DEF AddJob, IInv, TypeOK
<1>5. TypeOK'
  BY <1>1, <1>2, <1>3, <1>4 DEF IInv, TypeOK
<1>6. Live' = Live
  BY <1>1 DEF Live
<1>7. /\ th \in [Threads -> ThreadState]
      /\ jobPids \in [Jobs -> SUBSET Pids]
      /\ \A t \in Threads : th'[t] = th[t] \/ th'[t] = r
  BY <1>2 DEF IInv, TypeOK
<1>8. UnbornUnknown' /\ EventsOK' /\ FreshUnknown'
  <2>1. UnbornUnknown'
    BY <1>1, <1>3, <1>7 DEF IInv, UnbornUnknown, Live
  <2>2. EventsOK'
    BY <1>1 DEF IInv, EventsOK
  <2>3. FreshUnknown'
    BY <1>1, <1>3, <1>7 DEF IInv, FreshUnknown
  <2>. QED  BY <2>1, <2>2, <2>3
<1>9. WritesListed'
  <2>. SUFFICES ASSUME NEW t \in Threads, NEW k \in jobs', NEW q \in Live,
                       th'[t].pc = "write", <<k, q>> \in th'[t].todo
                PROVE  q \in jobPids'[k]
    BY <1>6 DEF WritesListed
  <2>1. th'[t] = th[t]
    BY <1>3, <1>7
  <2>2. k # j /\ k \in jobs
    BY <1>1, <2>1 DEF IInv, FreshUnknown, Live
  <2>3. jobPids'[k] = jobPids[k]
    BY <1>1, <1>7, <2>2
  <2>. QED  BY <2>1, <2>2, <2>3 DEF IInv, WritesListed
<1>10. ListedOrAnnounced'
  <2>. SUFFICES ASSUME ~dropped, NEW k \in jobs', NEW q \in Live, pid2job[q] = k
                PROVE  \/ q \in jobPids'[k]
                       \/ \E i \in 1 .. Len(ring) :
                            ring[i] = [type |-> "FORK", pid |-> q, job |-> k]
    BY <1>1, <1>6, ZenonT(60) DEF ListedOrAnnounced
  <2>1. k # j /\ k \in jobs
    BY <1>1 DEF IInv, FreshUnknown, Live
  <2>2. jobPids'[k] = jobPids[k]
    BY <1>1, <1>7, <2>1
  <2>. QED  BY <2>1, <2>2 DEF IInv, ListedOrAnnounced
<1>. QED  BY <1>5, <1>8, <1>9, <1>10 DEF IInv

\* A thread turns to other entries, all of them of registered jobs' lists.
LEMMA TodoStep ==
  ASSUME IInv, NEW t \in Threads,
         NEW r \in ThreadState,
         th' = [th EXCEPT ![t] = r],
         \A k \in Jobs, q \in Pids :
           <<k, q>> \in r.todo => k \in jobs /\ q \in jobPids[k],
         UNCHANGED <<procVars, pid2job, ringVars, evicted, jobVars>>
  PROVE  IInv'
<1>1. UNCHANGED <<proc, parent, owner, pid2job, ring, dropped, evicted, fresh,
                  jobs, jobPids>> /\ Live' = Live
  BY DEF procVars, ringVars, jobVars, Live
<1>2. TypeOK'
  BY <1>1 DEF IInv, TypeOK
<1>3. th \in [Threads -> ThreadState] /\ \A s \in Threads : th'[s] = th[s] \/ th'[s] = r
  BY DEF IInv, TypeOK
<1>4. jobs \subseteq Jobs /\ Live \subseteq Pids
  BY DEF IInv, TypeOK, Live
<1>5. UnbornUnknown' /\ EventsOK' /\ FreshUnknown'
  BY <1>1, <1>3 DEF IInv, TypeOK, UnbornUnknown, EventsOK, FreshUnknown
<1>6. WritesListed'
  BY <1>1, <1>3, <1>4 DEF IInv, WritesListed
<1>7. ListedOrAnnounced'
  BY <1>1, ZenonT(60) DEF IInv, ListedOrAnnounced
<1>. QED  BY <1>2, <1>5, <1>6, <1>7 DEF IInv

\* The copy after the insertion, and the snapshot of a reconcile pass.
LEMMA SnapshotStep ==
  ASSUME IInv, CopyJob \/ Reconcile
  PROVE  IInv'
<1>1. CASE CopyJob
  <2> DEFINE j == th["client"].job
             r == IF j \in jobs
                  THEN [pc |-> "write", job |-> j, todo |-> {j} \X jobPids[j]]
                  ELSE Idle
  <2>1. "client" \in Threads /\ th' = [th EXCEPT !["client"] = r]
    BY <1>1 DEF CopyJob, Threads
  <2>2. r \in ThreadState
    <3>1. CASE j \in jobs
      <4>1. j \in Jobs /\ jobPids[j] \subseteq Pids
        BY <3>1 DEF IInv, TypeOK
      <4>. QED  BY <3>1, <4>1 DEF ThreadState
    <3>2. CASE j \notin jobs
      BY <3>2 DEF Idle, ThreadState
    <3>. QED  BY <3>1, <3>2
  <2>3. \A k \in Jobs, q \in Pids :
          <<k, q>> \in r.todo => k \in jobs /\ q \in jobPids[k]
    BY DEF Idle
  <2>4. UNCHANGED <<procVars, pid2job, ringVars, evicted, jobVars>>
    BY <1>1 DEF CopyJob
  <2>. HIDE DEF r
  <2>. QED  BY <2>1, <2>2, <2>3, <2>4, TodoStep
<1>2. CASE Reconcile
  <2> DEFINE r == [pc |-> "write", job |-> None, todo |-> Entries]
  <2>1. "reconcile" \in Threads /\ th' = [th EXCEPT !["reconcile"] = r]
    BY <1>2 DEF Reconcile, Threads
  <2>2. r \in ThreadState
    BY DEF Entries, ThreadState
  <2>3. \A k \in Jobs, q \in Pids :
          <<k, q>> \in r.todo => k \in jobs /\ q \in jobPids[k]
    BY DEF Entries
  <2>4. UNCHANGED <<procVars, pid2job, ringVars, evicted, jobVars>>
    BY <1>2 DEF Reconcile
  <2>. HIDE DEF r
  <2>. QED  BY <2>1, <2>2, <2>3, <2>4, TodoStep
<1>. QED  BY <1>1, <1>2

\* A job leaves the table, and a thread starts to delete its entries.
LEMMA ErasedStep ==
  ASSUME IInv, NEW t \in Threads, NEW j \in jobs,
         jobs' = jobs \ {j},
         jobPids' = [jobPids EXCEPT ![j] = {}],
         th' = [th EXCEPT ![t] =
                  [pc |-> "delete", job |-> j, todo |-> {j} \X jobPids[j]]],
         UNCHANGED <<procVars, pid2job, ringVars, evicted, fresh>>
  PROVE  IInv'
<1> DEFINE r == [pc |-> "delete", job |-> j, todo |-> {j} \X jobPids[j]]
<1>1. /\ UNCHANGED <<proc, parent, owner, pid2job, ring, dropped, evicted, fresh>>
      /\ Live' = Live
  BY DEF procVars, ringVars, Live
<1>2. /\ j \in Jobs /\ jobs \subseteq Jobs /\ Live \subseteq Pids
      /\ jobPids \in [Jobs -> SUBSET Pids]
      /\ th \in [Threads -> ThreadState]
  BY DEF IInv, TypeOK, Live
<1>3. /\ r \in ThreadState /\ r.pc = "delete"
      /\ \A k \in Jobs, q \in Pids :
           <<k, q>> \in r.todo => k = j /\ q \in jobPids[j]
  BY <1>2 DEF ThreadState
<1>4. th' = [th EXCEPT ![t] = r]
  OBVIOUS
<1>. HIDE DEF r
<1>5. /\ th' \in [Threads -> ThreadState]
      /\ \A s \in Threads : th'[s] = th[s] \/ th'[s] = r
  BY <1>2, <1>3, <1>4
<1>6. /\ jobPids' \in [Jobs -> SUBSET Pids]
      /\ \A k \in Jobs : jobPids'[k] \subseteq jobPids[k]
      /\ \A k \in jobs' : k \in jobs /\ jobPids'[k] = jobPids[k]
  BY <1>2
<1>7. TypeOK'
  BY <1>1, <1>2, <1>5, <1>6 DEF IInv, TypeOK
<1>8. UnbornUnknown'
  BY <1>1, <1>2, <1>3, <1>5, <1>6 DEF IInv, UnbornUnknown
<1>9. EventsOK'
  BY <1>1 DEF IInv, EventsOK
<1>10. FreshUnknown'
  BY <1>1, <1>2, <1>3, <1>5 DEF IInv, TypeOK, FreshUnknown
<1>11. WritesListed'
  BY <1>1, <1>3, <1>5, <1>6 DEF IInv, WritesListed
<1>12. ListedOrAnnounced'
  <2>. SUFFICES ASSUME ~dropped, NEW k \in jobs', NEW q \in Live, pid2job[q] = k
                PROVE  \/ q \in jobPids'[k]
                       \/ \E i \in 1 .. Len(ring) :
                            ring[i] = [type |-> "FORK", pid |-> q, job |-> k]
    BY <1>1, ZenonT(60) DEF ListedOrAnnounced
  <2>. QED  BY <1>6 DEF IInv, ListedOrAnnounced
<1>. QED  BY <1>7, <1>8, <1>9, <1>10, <1>11, <1>12 DEF IInv

\* findJob takes no running process out of a list.
LEMMA FindJobStep ==
  ASSUME IInv, NEW j \in Jobs, FindJob(j)
  PROVE  IInv'
<1> DEFINE found == IF j \in Rescan THEN Tree(jobPids[j]) ELSE jobPids[j]
           left == Running(found)
           r == [Idle EXCEPT !.pc = "erase", !.job = j]
<1>1. /\ UNCHANGED <<proc, parent, owner, pid2job, ring, dropped, evicted, fresh,
                     jobs>>
      /\ Live' = Live
  BY DEF FindJob, procVars, ringVars, Live
<1>2. /\ jobPids' = [jobPids EXCEPT ![j] = left]
      /\ th' = [th EXCEPT !["callback"] = r] \/ th' = th
      /\ "callback" \in Threads
  BY DEF FindJob, Threads
<1>3. /\ jobs \subseteq Jobs /\ Live \subseteq Pids
      /\ jobPids \in [Jobs -> SUBSET Pids]
      /\ th \in [Threads -> ThreadState]
  BY DEF IInv, TypeOK, Live
<1>4. left \subseteq Live /\ jobPids[j] \cap Live \subseteq left
  <2>1. jobPids[j] \in SUBSET Pids
    BY <1>3
  <2>2. jobPids[j] \subseteq found
    BY <2>1, TreeContains
  <2>. QED  BY <2>2 DEF Running
<1>5. r \in ThreadState /\ r.pc = "erase" /\ r.todo = {}
  BY IdleRecord
<1>. HIDE DEF r, left, found
<1>6. /\ th' \in [Threads -> ThreadState]
      /\ \A s \in Threads : th'[s] = th[s] \/ th'[s] = r
  BY <1>2, <1>3, <1>5
<1>7. /\ jobPids' \in [Jobs -> SUBSET Pids]
      /\ \A k \in Jobs : jobPids'[k] \subseteq jobPids[k] \cup Live
      /\ \A k \in Jobs : jobPids[k] \cap Live \subseteq jobPids'[k]
  BY <1>2, <1>3, <1>4
<1>8. TypeOK'
  BY <1>1, <1>6, <1>7 DEF IInv, TypeOK
<1>9. UnbornUnknown'
  BY <1>1, <1>5, <1>6, <1>7 DEF IInv, UnbornUnknown, Live
<1>10. EventsOK'
  BY <1>1 DEF IInv, EventsOK
<1>11. FreshUnknown'
  BY <1>1, <1>5, <1>6 DEF IInv, FreshUnknown
<1>12. WritesListed'
  BY <1>1, <1>3, <1>5, <1>6, <1>7 DEF IInv, WritesListed
<1>13. ListedOrAnnounced'
  <2>. SUFFICES ASSUME ~dropped, NEW k \in jobs, NEW q \in Live, pid2job[q] = k
                PROVE  \/ q \in jobPids'[k]
                       \/ \E i \in 1 .. Len(ring) :
                            ring[i] = [type |-> "FORK", pid |-> q, job |-> k]
    BY <1>1, ZenonT(60) DEF ListedOrAnnounced
  <2>. QED  BY <1>3, <1>7 DEF IInv, ListedOrAnnounced
<1>. QED  BY <1>8, <1>9, <1>10, <1>11, <1>12, <1>13 DEF IInv

\* delJob, asked for by a client or by findJob.
LEMMA DeleteStep ==
  ASSUME IInv, DelJob \/ \E j \in Jobs : RemoveJob(j)
  PROVE  IInv'
<1>1. ASSUME NEW j \in Jobs, RemoveJob(j) PROVE IInv'
  BY <1>1, ErasedStep DEF RemoveJob, Threads
<1>2. CASE DelJob
  <2>1. CASE th["callback"].job \in jobs
    BY <1>2, <2>1, ErasedStep DEF DelJob, Threads
  <2>2. CASE th["callback"].job \notin jobs
    <3>1. /\ "callback" \in Threads /\ th' = [th EXCEPT !["callback"] = Idle]
          /\ UNCHANGED <<procVars, pid2job, ringVars, evicted, jobVars>>
      BY <1>2, <2>2 DEF DelJob, Threads, jobVars
    <3>2. Idle \in ThreadState /\ Idle.todo = {}
      BY DEF Idle, ThreadState
    <3>. QED  BY <3>1, <3>2, TodoStep
  <2>. QED  BY <2>1, <2>2
<1>. QED  BY <1>1, <1>2

\* A map entry is written, perhaps from an old list, or deleted.
LEMMA WriteEntryStep ==
  ASSUME IInv, NEW t \in Threads, WriteEntry(t)
  PROVE  IInv'
<1>1. CASE th[t].todo = {}
  <2>1. /\ th' = [th EXCEPT ![t] = Idle]
        /\ UNCHANGED <<procVars, pid2job, ringVars, evicted, jobVars>>
    BY <1>1 DEF WriteEntry
  <2>2. Idle \in ThreadState /\ Idle.todo = {}
    BY DEF Idle, ThreadState
  <2>. QED  BY <2>1, <2>2, TodoStep
<1>2. CASE th[t].todo # {}
  <2>1. PICK e \in th[t].todo :
          /\ pid2job' = [pid2job EXCEPT ![e[2]] =
                           IF th[t].pc = "write" THEN e[1] ELSE None]
          /\ th' = [th EXCEPT ![t].todo = @ \ {e}]
    BY <1>2 DEF WriteEntry
  <2>2. /\ UNCHANGED <<proc, parent, owner, ring, dropped, evicted, fresh, jobs,
                       jobPids>>
        /\ Live' = Live
    BY DEF WriteEntry, procVars, ringVars, jobVars, Live
  <2>3. /\ jobs \subseteq Jobs /\ Live \subseteq Pids /\ fresh \subseteq Jobs
        /\ pid2job \in [Pids -> Jobs \cup {None}]
        /\ th \in [Threads -> ThreadState]
        /\ th[t] \in ThreadState
    BY DEF IInv, TypeOK, Live
  <2>4. PICK k \in Jobs, q \in Pids : e = <<k, q>>
    BY <2>3 DEF ThreadState
  <2>5. /\ pid2job' \in [Pids -> Jobs \cup {None}]
        /\ \A p \in Pids :
             \/ pid2job'[p] = pid2job[p]
             \/ p = q /\ pid2job'[p] = None
             \/ p = q /\ pid2job'[p] = k /\ th[t].pc = "write"
    BY <2>1, <2>3, <2>4
  <2>6. [th[t] EXCEPT !.todo = @ \ {e}] \in ThreadState
    BY <2>3 DEF ThreadState
  <2>7. /\ th' \in [Threads -> ThreadState]
        /\ \A s \in Threads : /\ th'[s].todo \subseteq th[s].todo
                              /\ th'[s].pc = th[s].pc
    BY <2>1, <2>3, <2>6 DEF ThreadState
  <2>8. TypeOK'
    BY <2>2, <2>5, <2>7 DEF IInv, TypeOK
  <2>9. UnbornUnknown'
    BY <2>1, <2>2, <2>4, <2>5, <2>7 DEF IInv, UnbornUnknown
  <2>10. EventsOK'
    BY <2>2 DEF IInv, EventsOK
  <2>11. FreshUnknown'
    BY <2>1, <2>2, <2>3, <2>4, <2>5, <2>7, PidAssumption DEF IInv, FreshUnknown
  <2>12. WritesListed'
    BY <2>2, <2>7 DEF IInv, WritesListed
  <2>13. ListedOrAnnounced'
    <3>. SUFFICES ASSUME ~dropped, NEW j \in jobs, NEW p \in Live,
                         pid2job'[p] = j
                  PROVE  \/ p \in jobPids[j]
                         \/ \E i \in 1 .. Len(ring) :
                              ring[i] = [type |-> "FORK", pid |-> p, job |-> j]
      BY <2>2, ZenonT(60) DEF ListedOrAnnounced
    <3>1. CASE pid2job'[p] = pid2job[p]
      BY <3>1 DEF IInv, ListedOrAnnounced
    <3>2. CASE p = q /\ pid2job'[p] = None
      BY <2>3, <3>2, PidAssumption
    <3>3. CASE p = q /\ pid2job'[p] = k /\ th[t].pc = "write"
      BY <2>1, <2>4, <3>3 DEF IInv, WritesListed
    <3>. QED  BY <2>3, <2>5, <3>1, <3>2, <3>3
  <2>. QED  BY <2>8, <2>9, <2>10, <2>11, <2>12, <2>13 DEF IInv
<1>. QED  BY <1>1, <1>2

-----------------------------------------------------------------------------
\* At the start nothing is known and nothing is on the way.
LEMMA InitInvariant == Init => IInv
<1>. SUFFICES ASSUME Init PROVE IInv
  OBVIOUS
<1>1. Idle \in ThreadState /\ Idle.pc = "idle" /\ Idle.todo = {}
  BY DEF Idle, ThreadState
<1>2. /\ ring = <<>> /\ jobs = {} /\ fresh = Jobs
      /\ \A p \in Pids : proc[p] = "unborn" /\ pid2job[p] = None
      /\ \A j \in Jobs : jobPids[j] = {}
      /\ \A t \in Threads : th[t] = Idle
  BY DEF Init
<1>3. TypeOK
  <2>1. ring \in Seq([type : {"FORK", "EXIT"}, pid : Pids, job : Jobs])
        /\ Len(ring) = 0
    BY <1>2
  <2>2. th \in [Threads -> ThreadState]
    BY <1>1 DEF Init
  <2>3. evicted \in 0 .. MaxEvictions /\ Len(ring) <= RingSize
    BY <2>1, PidAssumption DEF Init
  <2>4. /\ proc \in [Pids -> {"unborn", "live", "dead"}]
        /\ parent \in [Pids -> Pids \cup {None}]
        /\ owner \in [Pids -> Jobs \cup {None}]
        /\ pid2job \in [Pids -> Jobs \cup {None}]
        /\ jobPids \in [Jobs -> SUBSET Pids]
    BY DEF Init
  <2>. QED  BY <1>2, <2>1, <2>2, <2>3, <2>4 DEF Init, TypeOK
<1>4. UnbornUnknown /\ FreshUnknown
  BY <1>1, <1>2, PidAssumption DEF UnbornUnknown, FreshUnknown
<1>5. EventsOK
  BY <1>2 DEF EventsOK
<1>6. WritesListed /\ ListedOrAnnounced
  BY <1>2 DEF WritesListed, ListedOrAnnounced
<1>. QED  BY <1>3, <1>4, <1>5, <1>6 DEF IInv

\* Every step of any thread or process keeps the invariant.
LEMMA StepKeepsInvariant == IInv /\ [Next]_vars => IInv'
<1>. SUFFICES ASSUME IInv, [Next]_vars PROVE IInv'
  OBVIOUS
<1>1. ASSUME NEW p \in Pids, Spawn(p) \/ Exit(p) \/ Evict(p) PROVE IInv'
  BY <1>1, SpawnStep, ExitStep, EvictStep
<1>2. ASSUME NEW p \in Pids, NEW c \in Pids, Fork(p, c) PROVE IInv'
  BY <1>2, ForkStep
<1>3. CASE Poll
  BY <1>3, PollStep
<1>4. ASSUME NEW j \in Jobs, NEW p \in Pids, AddJob(j, p) PROVE IInv'
  BY <1>4, AddJobStep
<1>5. CASE CopyJob \/ Reconcile
  BY <1>5, SnapshotStep
<1>6. CASE DelJob \/ \E j \in Jobs : RemoveJob(j)
  BY <1>6, DeleteStep
<1>7. ASSUME NEW j \in Jobs, FindJob(j) PROVE IInv'
  BY <1>7, FindJobStep
<1>8. ASSUME NEW t \in Threads, WriteEntry(t) PROVE IInv'
  BY <1>8, WriteEntryStep
<1>9. CASE UNCHANGED vars
  BY <1>9 DEF vars, procVars, ringVars, jobVars, IInv, TypeOK, UnbornUnknown,
              EventsOK, FreshUnknown, WritesListed, ListedOrAnnounced, Live
<1>. QED
  BY <1>1, <1>2, <1>3, <1>4, <1>5, <1>6, <1>7, <1>8, <1>9
     DEF Next, Callback, Threads

\* The invariant holds in every reachable state.
THEOREM PidInvariant == Spec => []IInv
BY InitInvariant, StepKeepsInvariant, PTL DEF Spec

\* The tables keep their types, and the ring its size.
THEOREM PidTypes == Spec => []TypeOK
<1>1. IInv => TypeOK
  BY DEF IInv
<1>. QED  BY <1>1, PidInvariant, PTL

\* With no event dropped and none on the way, user space lists every running
\* process the kernel attributes to a registered job.
THEOREM PidNothingMissed == Spec => []NothingMissed
<1>1. IInv => NothingMissed
  <2>. SUFFICES ASSUME ListedOrAnnounced, ~dropped, ring = <<>>,
                       NEW j \in jobs, NEW p \in Live, pid2job[p] = j
                PROVE  p \in jobPids[j]
    BY DEF IInv, NothingMissed
  <2>1. 1 .. Len(ring) = {}
    OBVIOUS
  <2>. QED  BY <2>1 DEF ListedOrAnnounced
<1>. QED  BY <1>1, PidInvariant, PTL

-----------------------------------------------------------------------------
(***************************************************************************)
(* What happens to a list: not even a drop costs a running process its     *)
(* place in it.                                                            *)
(***************************************************************************)

\* The list of a job loses a process only when the process has ended or the
\* job goes: neither an event that comes late nor a rescan drops a running one.
RunningStayListed ==
  [][\A j \in jobs \cap jobs' :
       \A p \in jobPids[j] \ jobPids'[j] : p \notin Live']_vars

\* What each step leaves in the lists.
LEMMA RunningKept ==
  ASSUME IInv, [Next]_vars, NEW j \in jobs, j \in jobs',
         NEW p \in jobPids[j], p \in Live'
  PROVE  p \in jobPids'[j]
<1>1. /\ j \in Jobs /\ jobs \subseteq Jobs /\ p \in Pids
      /\ jobPids \in [Jobs -> SUBSET Pids] /\ jobPids[j] \in SUBSET Pids
  BY DEF IInv, TypeOK
<1>2. CASE UNCHANGED jobPids
  BY <1>2
<1>3. CASE Poll
  <2>1. Live' = Live
    BY <1>3 DEF Poll, procVars, Live
  <2>2. 1 \in 1 .. Len(ring) /\ Head(ring) = ring[1]
    <3> DEFINE E == [type : {"FORK", "EXIT"}, pid : Pids, job : Jobs]
    <3>1. ring \in Seq(E) /\ ring # <<>>
      BY <1>3 DEF Poll, IInv, TypeOK
    <3>. HIDE DEF E
    <3>. QED  BY <3>1, Taken
  <2>3. Head(ring).type \in {"FORK", "EXIT"} /\ Head(ring).pid \in Pids
    BY <2>2, Types DEF IInv
  <2>4. Head(ring).type = "EXIT" => Head(ring).pid # p
    BY <2>1, <2>2 DEF IInv, EventsOK, Live
  <2>. QED  BY <1>1, <1>3, <2>3, <2>4 DEF Poll
<1>4. ASSUME NEW k \in Jobs, NEW q \in Pids, AddJob(k, q) PROVE p \in jobPids'[j]
  <2>1. k # j /\ jobPids' = [jobPids EXCEPT ![k] = {q}]
    BY <1>4 DEF AddJob, IInv, FreshUnknown
  <2>. QED  BY <1>1, <2>1
<1>5. ASSUME NEW k \in Jobs, RemoveJob(k) PROVE p \in jobPids'[j]
  BY <1>1, <1>5 DEF RemoveJob
<1>6. CASE DelJob
  BY <1>1, <1>6 DEF DelJob
<1>7. ASSUME NEW k \in Jobs, FindJob(k) PROVE p \in jobPids'[j]
  <2> DEFINE found == IF k \in Rescan THEN Tree(jobPids[k]) ELSE jobPids[k]
  <2>1. Live' = Live /\ jobPids' = [jobPids EXCEPT ![k] = Running(found)]
    BY <1>7 DEF FindJob, procVars, Live
  <2>2. k = j => p \in found
    BY <1>1, TreeContains
  <2>. HIDE DEF found
  <2>. QED  BY <1>1, <2>1, <2>2 DEF Running
<1>. QED
  BY <1>2, <1>3, <1>4, <1>5, <1>6, <1>7
     DEF Next, Callback, Spawn, Exit, Evict, Fork, CopyJob, Reconcile, WriteEntry, jobVars,
         vars

\* No list loses a running process while its job is registered.
THEOREM PidRunningStayListed == Spec => RunningStayListed
<1>1. IInv /\ [Next]_vars =>
        [\A j \in jobs \cap jobs' :
           \A p \in jobPids[j] \ jobPids'[j] : p \notin Live']_vars
  BY RunningKept
<1>. QED  BY <1>1, PidInvariant, PTL DEF Spec, RunningStayListed

=============================================================================
