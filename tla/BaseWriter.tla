----------------------------- MODULE BaseWriter -----------------------------
(***************************************************************************)
(* src/writer/base_writer.cpp: the double buffer every writer derives      *)
(* from.  Producers (timer workers that ran a collector) enqueue records;  *)
(* one flush thread swaps the buffers and hands the full one to            *)
(* flush_impl; any thread may call shutdown().                             *)
(*                                                                         *)
(* A step is a critical section of mtx_ or a piece of code between two of  *)
(* them; notify_one() is called after the unlock, so it is a step of its   *)
(* own.  flush_impl may succeed, fail or throw (the code treats the last   *)
(* two alike), and so may on_flush_error.  Left out: the performance       *)
(* counters, and buffer_capacity, which only reserves memory.              *)
(***************************************************************************)
EXTENDS Naturals, Sequences, FiniteSets

CONSTANTS
  Producers,   \* threads that call enqueue
  Callers,     \* threads that call shutdown
  MaxSent      \* bound: records each producer offers

ASSUME WriterAssumption == MaxSent \in Nat

VARIABLES
  front, back,   \* the two buffers
  needFlush,     \* need_flush_
  stop,          \* stop_
  fpc,           \* where the flush thread is
  ppc,           \* where each producer is
  sent,          \* records each producer has offered so far
  spc,           \* where each shutdown caller is
  sinkClosed,    \* do_shutdown() has run
  accepted,      \* history: records put into front_, in order
  handed         \* history: records given to flush_impl, in order

bufVars == <<front, back, needFlush>>
prodVars == <<ppc, sent>>
histVars == <<accepted, handed>>
vars == <<bufVars, stop, fpc, prodVars, spc, sinkClosed, histVars>>

\* A record is known by its producer and its place in that producer's order.
Record == Producers \X (1 .. MaxSent)

\* Callers that hold shutdown_mtx_.
Inside == {c \in Callers : spc[c] \in {"in", "notify", "join", "cleanup"}}

-----------------------------------------------------------------------------
(* Faults for the mutants of the helpers further down.                     *)

NotifyNobody == UNCHANGED fpc
FlagStaysUp == needFlush' = needFlush
BackKept == UNCHANGED back
StopAtOnce == stop
ClearedOnFailure == fpc' = "onError" /\ back' = <<>>
SecondCallerPasses(c) == TRUE

-----------------------------------------------------------------------------
(* Helpers.                                                                *)

\* cv_.notify_one(): only the flush thread waits on cv_.
NotifyFlusher == fpc' = IF fpc = "waiting" THEN "check" ELSE fpc

\* flush_worker's exit test
WorkerDone == stop /\ front = <<>>

\* what the swap does to need_flush_
LowerFlag == needFlush' = FALSE

\* back_->clear()
ClearBack == back' = <<>>

\* flush_impl returned false or threw: on_flush_error gets the same batch.
FlushFailed == fpc' = "onError" /\ UNCHANGED back

\* shutdown_mtx_ is free
MayEnter(c) == Inside = {}

Init ==
  /\ front = <<>> /\ back = <<>>
  /\ needFlush = FALSE /\ stop = FALSE
  /\ fpc = "check"
  /\ ppc = [p \in Producers |-> "idle"]
  /\ sent = [p \in Producers |-> 0]
  /\ spc = [c \in Callers |-> "out"]
  /\ sinkClosed = FALSE
  /\ accepted = <<>> /\ handed = <<>>

-----------------------------------------------------------------------------
(* enqueue, behind on_finish, get_onFinishCallback and write.              *)

\* A producer comes with its next record.
Offer(p) ==
  /\ ppc[p] = "idle"
  /\ sent[p] < MaxSent
  /\ sent' = [sent EXCEPT ![p] = @ + 1]
  /\ ppc' = [ppc EXCEPT ![p] = "locking"]
  /\ UNCHANGED <<bufVars, stop, fpc, spc, sinkClosed, histVars>>

\* The critical section.  After stop_ the record is dropped.
Enqueue(p) ==
  /\ ppc[p] = "locking"
  /\ IF stop
     THEN /\ ppc' = [ppc EXCEPT ![p] = "idle"]
          /\ UNCHANGED <<front, needFlush, accepted>>
     ELSE /\ front' = Append(front, <<p, sent[p]>>)
          /\ accepted' = Append(accepted, <<p, sent[p]>>)
          /\ ppc' = [ppc EXCEPT ![p] = IF needFlush THEN "idle" ELSE "notify"]
          /\ needFlush' = TRUE
  /\ UNCHANGED <<back, stop, fpc, sent, spc, sinkClosed, handed>>

Notify(p) ==
  /\ ppc[p] = "notify"
  /\ NotifyFlusher
  /\ ppc' = [ppc EXCEPT ![p] = "idle"]
  /\ UNCHANGED <<bufVars, stop, sent, spc, sinkClosed, histVars>>

-----------------------------------------------------------------------------
(* flush_worker and flush_buffer                                           *)

Wait ==
  /\ fpc = "check"
  /\ ~stop /\ ~needFlush
  /\ fpc' = "waiting"
  /\ UNCHANGED <<bufVars, stop, prodVars, spc, sinkClosed, histVars>>

WorkerExit ==
  /\ fpc = "check"
  /\ WorkerDone
  /\ fpc' = "exited"
  /\ UNCHANGED <<bufVars, stop, prodVars, spc, sinkClosed, histVars>>

Swap ==
  /\ fpc = "check"
  /\ stop \/ needFlush
  /\ ~WorkerDone
  /\ front' = back
  /\ back' = front
  /\ LowerFlag
  /\ fpc' = "swapped"
  /\ UNCHANGED <<stop, prodVars, spc, sinkClosed, histVars>>

\* flush_impl is called with the batch; an empty one is skipped.
CallFlushImpl ==
  /\ fpc = "swapped"
  /\ handed' = handed \o back
  /\ fpc' = IF back = <<>> THEN "clear" ELSE "flushing"
  /\ UNCHANGED <<bufVars, stop, prodVars, spc, sinkClosed, accepted>>

FlushImplReturns ==
  /\ fpc = "flushing"
  /\ \/ fpc' = "clear" /\ UNCHANGED back
     \/ FlushFailed
  /\ UNCHANGED <<front, needFlush, stop, prodVars, spc, sinkClosed, histVars>>

OnFlushErrorReturns ==
  /\ fpc = "onError"
  /\ fpc' = "clear"
  /\ UNCHANGED <<bufVars, stop, prodVars, spc, sinkClosed, histVars>>

Clear ==
  /\ fpc = "clear"
  /\ ClearBack
  /\ fpc' = "check"
  /\ UNCHANGED <<front, needFlush, stop, prodVars, spc, sinkClosed, histVars>>

\* A wake-up of the condition variable nobody asked for.
SpuriousWake ==
  /\ fpc = "waiting"
  /\ fpc' = "check"
  /\ UNCHANGED <<bufVars, stop, prodVars, spc, sinkClosed, histVars>>

-----------------------------------------------------------------------------
(* shutdown                                                                *)

\* A call gets shutdown_mtx_.
ShutdownEnter(c) ==
  /\ spc[c] = "out"
  /\ MayEnter(c)
  /\ spc' = [spc EXCEPT ![c] = "in"]
  /\ UNCHANGED <<bufVars, stop, fpc, prodVars, sinkClosed, histVars>>

\* Set stop_, or return if an earlier call did.
ShutdownStop(c) ==
  /\ spc[c] = "in"
  /\ spc' = [spc EXCEPT ![c] = IF stop THEN "returned" ELSE "notify"]
  /\ stop' = TRUE
  /\ UNCHANGED <<bufVars, fpc, prodVars, sinkClosed, histVars>>

ShutdownNotify(c) ==
  /\ spc[c] = "notify"
  /\ NotifyFlusher
  /\ spc' = [spc EXCEPT ![c] = "join"]
  /\ UNCHANGED <<bufVars, stop, prodVars, sinkClosed, histVars>>

ShutdownJoin(c) ==
  /\ spc[c] = "join"
  /\ fpc = "exited"
  /\ spc' = [spc EXCEPT ![c] = "cleanup"]
  /\ UNCHANGED <<bufVars, stop, fpc, prodVars, sinkClosed, histVars>>

\* do_shutdown() of the derived writer; then shutdown_mtx_ is released.
DoShutdown(c) ==
  /\ spc[c] = "cleanup"
  /\ sinkClosed' = TRUE
  /\ spc' = [spc EXCEPT ![c] = "returned"]
  /\ UNCHANGED <<bufVars, stop, fpc, prodVars, histVars>>

-----------------------------------------------------------------------------
Produce(p) == Enqueue(p) \/ Notify(p)

FlushWorker ==
  \/ Wait \/ WorkerExit \/ Swap \/ CallFlushImpl
  \/ FlushImplReturns \/ OnFlushErrorReturns \/ Clear

ShutdownSteps(c) ==
  ShutdownStop(c) \/ ShutdownNotify(c) \/ ShutdownJoin(c) \/ DoShutdown(c)

Next ==
  \/ \E p \in Producers : Offer(p) \/ Produce(p)
  \/ FlushWorker
  \/ SpuriousWake
  \/ \E c \in Callers : ShutdownEnter(c) \/ ShutdownSteps(c)

Spec == Init /\ [][Next]_vars

\* Threads inside the writer are scheduled and the sink's calls return;
\* nobody has to offer a record or to shut the writer down, and nothing
\* depends on spurious wake-ups.
FairSpec ==
  /\ Spec
  /\ \A p \in Producers : WF_vars(Produce(p))
  /\ WF_vars(FlushWorker)
  /\ \A c \in Callers : WF_vars(ShutdownSteps(c))

-----------------------------------------------------------------------------
(* Properties                                                              *)

\* Types; need_flush_ says exactly whether the front buffer holds records.
TypeOK ==
  /\ front \in Seq(Record) /\ back \in Seq(Record)
  /\ needFlush \in BOOLEAN /\ stop \in BOOLEAN /\ sinkClosed \in BOOLEAN
  /\ needFlush = (front # <<>>)
  /\ fpc \in {"check", "waiting", "swapped", "flushing", "onError", "clear",
              "exited"}
  /\ ppc \in [Producers -> {"idle", "locking", "notify"}]
  /\ sent \in [Producers -> 0 .. MaxSent]
  /\ spc \in [Callers -> {"out", "in", "notify", "join", "cleanup", "returned"}]
  /\ accepted \in Seq(Record) /\ handed \in Seq(Record)

InFlight == IF fpc = "swapped" THEN back ELSE <<>>

\* No record is lost, doubled or overtaken between enqueue and flush_impl,
\* whatever the threads do and whether or not earlier flushes failed.
ExactlyOnceInOrder == accepted = handed \o InFlight \o front

\* The flush thread never sleeps on work: if it waits while records are queued
\* or the writer is stopping, somebody is about to notify it.
NoLostWakeup ==
  fpc = "waiting" /\ (stop \/ needFlush) =>
    \/ \E p \in Producers : ppc[p] = "notify"
    \/ \E c \in Callers : spc[c] = "notify"

\* While flush_impl or on_flush_error runs, the batch it was given stays as it
\* was handed over, although producers keep enqueueing.
BatchStable ==
  fpc \in {"flushing", "onError"} =>
    /\ back # <<>>
    /\ Len(handed) >= Len(back)
    /\ back = SubSeq(handed, Len(handed) - Len(back) + 1, Len(handed))

\* "Serialize shutdown callers so cleanup cannot run before another caller's
\* join": when any call of shutdown() has returned, the sink is closed, the
\* flush thread is gone and every accepted record was handed over.
ReturnedMeansDone ==
  (\E c \in Callers : spc[c] = "returned") =>
    sinkClosed /\ fpc = "exited" /\ handed = accepted

Channel == INSTANCE RecordChannel WITH
  delivered <- handed, closed <- stop, finished <- sinkClosed

\* The double buffer implements the channel, liveness included.
ImplementsChannel == Channel!FairSpec

\* Its safety part, which is proved for every number of threads.
ChannelSafety == Channel!Spec
=============================================================================
