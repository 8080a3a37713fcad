-------------------------- MODULE BaseWriterProofs --------------------------
(***************************************************************************)
(* Proofs about BaseWriter, for any number of producers, of shutdown       *)
(* callers and of records.                                                 *)
(*                                                                         *)
(* The argument: the buffers and the histories always add up               *)
(* (ExactlyOnceInOrder), the back buffer is empty except while a batch is  *)
(* being flushed (BackEmpty), and whoever sets stop_ is the one caller     *)
(* that goes on to join and to clean up (ShutdownOrder).                   *)
(***************************************************************************)
EXTENDS BaseWriter, SequenceTheorems, TLAPS

\* Between flushes there is nothing in the back buffer.
BackEmpty == fpc \in {"check", "waiting", "exited"} => back = <<>>

\* A producer inside enqueue has a record to hand in.
OfferedFirst == \A p \in Producers : ppc[p] # "idle" => sent[p] >= 1

\* The caller that set stop_, on its way to the end of shutdown().
Closing(c) == spc[c] \in {"notify", "join", "cleanup"}

\* What shutdown_mtx_ and the join establish.
ShutdownOrder ==
  /\ \A c, d \in Callers : c \in Inside /\ d \in Inside => c = d
  /\ \A c \in Callers : Closing(c) \/ spc[c] = "returned" => stop
  /\ \A c \in Callers : spc[c] = "cleanup" => fpc = "exited"
  /\ \A c \in Callers : spc[c] = "returned" => sinkClosed
  /\ stop => sinkClosed \/ \E c \in Callers : Closing(c)
  /\ sinkClosed => fpc = "exited"
  /\ fpc = "exited" => stop /\ front = <<>>

IInv ==
  /\ TypeOK
  /\ BackEmpty
  /\ OfferedFirst
  /\ ExactlyOnceInOrder
  /\ BatchStable
  /\ NoLostWakeup
  /\ ShutdownOrder

-----------------------------------------------------------------------------
(* The state sets the proofs need to know.                                 *)

\* A record a producer hands in is a record.
LEMMA OfferedRecord ==
  ASSUME TypeOK, OfferedFirst, NEW p \in Producers, ppc[p] = "locking"
  PROVE  <<p, sent[p]>> \in Record
<1>1. sent[p] \in 0 .. MaxSent /\ sent[p] >= 1
  BY DEF TypeOK, OfferedFirst
<1>2. sent[p] \in 1 .. MaxSent
  BY <1>1, WriterAssumption
<1>. QED  BY <1>2 DEF Record

\* Buffers, flags and program counters keep their types, the back buffer is
\* empty between flushes, and a producer in enqueue has a record.
LEMMA TypeStep ==
  IInv /\ [Next]_vars => TypeOK' /\ BackEmpty' /\ OfferedFirst'
<1>. SUFFICES ASSUME TypeOK, BackEmpty, OfferedFirst, [Next]_vars
     PROVE  TypeOK' /\ BackEmpty' /\ OfferedFirst'
  BY DEF IInv
<1>. USE WriterAssumption
<1>1. ASSUME NEW p \in Producers, Offer(p)
      PROVE  TypeOK' /\ BackEmpty' /\ OfferedFirst'
  BY <1>1 DEF Offer, TypeOK, BackEmpty, OfferedFirst, bufVars, histVars
<1>2. ASSUME NEW p \in Producers, Enqueue(p)
      PROVE  TypeOK' /\ BackEmpty' /\ OfferedFirst'
  <2>1. CASE stop
    BY <1>2, <2>1 DEF Enqueue, TypeOK, BackEmpty, OfferedFirst
  <2>2. CASE ~stop
    <3>1. <<p, sent[p]>> \in Record
      BY <1>2, OfferedRecord DEF Enqueue
    <3>2. \A q \in Seq(Record) :
            Append(q, <<p, sent[p]>>) \in Seq(Record) \ {<<>>}
      BY <3>1, AppendProperties
    <3>3. /\ front' = Append(front, <<p, sent[p]>>)
          /\ accepted' = Append(accepted, <<p, sent[p]>>)
      BY <1>2, <2>2 DEF Enqueue
    <3>4. front' \in Seq(Record) /\ front' # <<>> /\ accepted' \in Seq(Record)
      BY <3>2, <3>3 DEF TypeOK
    <3>. QED  BY <1>2, <2>2, <3>4 DEF Enqueue, TypeOK, BackEmpty, OfferedFirst
  <2>. QED  BY <2>1, <2>2
<1>3. ASSUME NEW p \in Producers, Notify(p)
      PROVE  TypeOK' /\ BackEmpty' /\ OfferedFirst'
  BY <1>3 DEF Notify, NotifyFlusher, TypeOK, BackEmpty, OfferedFirst, bufVars,
              histVars
<1>4. CASE Wait
  BY <1>4 DEF Wait, TypeOK, BackEmpty, OfferedFirst, bufVars, prodVars, histVars
<1>5. CASE WorkerExit
  BY <1>5 DEF WorkerExit, TypeOK, BackEmpty, OfferedFirst, bufVars, prodVars,
              histVars
<1>6. CASE Swap
  BY <1>6 DEF Swap, LowerFlag, TypeOK, BackEmpty, OfferedFirst, prodVars,
              histVars
<1>7. CASE CallFlushImpl
  <2>1. handed' \in Seq(Record)
    BY <1>7, ConcatProperties DEF CallFlushImpl, TypeOK
  <2>. QED  BY <1>7, <2>1 DEF CallFlushImpl, TypeOK, BackEmpty, OfferedFirst,
                              bufVars, prodVars
<1>8. CASE FlushImplReturns
  BY <1>8 DEF FlushImplReturns, FlushFailed, TypeOK, BackEmpty, OfferedFirst,
              prodVars, histVars
<1>9. CASE OnFlushErrorReturns
  BY <1>9 DEF OnFlushErrorReturns, TypeOK, BackEmpty, OfferedFirst, bufVars,
              prodVars, histVars
<1>10. CASE Clear
  BY <1>10, EmptySeq DEF Clear, ClearBack, TypeOK, BackEmpty, OfferedFirst,
               prodVars, histVars
<1>11. CASE SpuriousWake
  BY <1>11 DEF SpuriousWake, TypeOK, BackEmpty, OfferedFirst, bufVars, prodVars,
               histVars
<1>12. ASSUME NEW c \in Callers, ShutdownEnter(c) \/ ShutdownSteps(c)
       PROVE  TypeOK' /\ BackEmpty' /\ OfferedFirst'
  BY <1>12 DEF ShutdownEnter, ShutdownSteps, ShutdownStop, ShutdownNotify,
               ShutdownJoin, DoShutdown, NotifyFlusher, TypeOK, BackEmpty,
               OfferedFirst, bufVars, prodVars, histVars
<1>13. CASE UNCHANGED vars
  BY <1>13 DEF vars, TypeOK, BackEmpty, OfferedFirst, bufVars, prodVars, histVars
<1>. QED  BY <1>1, <1>2, <1>3, <1>4, <1>5, <1>6, <1>7, <1>8, <1>9, <1>10,
             <1>11, <1>12, <1>13 DEF Next, Produce, FlushWorker

-----------------------------------------------------------------------------
(* Wake-ups and shutdown.                                                  *)

\* Whoever raises need_flush_ or stop_ notifies the flush thread afterwards,
\* and the flush thread sleeps only when it sees neither raised.
LEMMA WakeStep == IInv /\ [Next]_vars => NoLostWakeup'
<1>. SUFFICES ASSUME TypeOK, NoLostWakeup, [Next]_vars
     PROVE  NoLostWakeup'
  BY DEF IInv
<1>1. ASSUME NEW p \in Producers, Offer(p)
      PROVE  NoLostWakeup'
  BY <1>1 DEF Offer, TypeOK, NoLostWakeup, bufVars
<1>2. ASSUME NEW p \in Producers, Enqueue(p)
      PROVE  NoLostWakeup'
  <2>1. \A q \in Producers : ppc[q] = "notify" => ppc'[q] = "notify"
    BY <1>2 DEF Enqueue, TypeOK
  <2>2. CASE ~stop /\ ~needFlush
    <3>1. ppc'[p] = "notify"
      BY <1>2, <2>2 DEF Enqueue, TypeOK
    <3>. QED  BY <3>1 DEF NoLostWakeup
  <2>3. CASE stop \/ needFlush
    BY <1>2, <2>1, <2>3 DEF Enqueue, TypeOK, NoLostWakeup
  <2>. QED  BY <2>2, <2>3
<1>3. ASSUME NEW p \in Producers, Notify(p)
      PROVE  NoLostWakeup'
  BY <1>3 DEF Notify, NotifyFlusher, NoLostWakeup
<1>4. CASE FlushWorker
  BY <1>4 DEF FlushWorker, Wait, WorkerExit, Swap, CallFlushImpl,
              FlushImplReturns, FlushFailed, OnFlushErrorReturns, Clear,
              NoLostWakeup, bufVars
<1>5. CASE SpuriousWake
  BY <1>5 DEF SpuriousWake, NoLostWakeup
<1>6. ASSUME NEW c \in Callers, ShutdownEnter(c)
      PROVE  NoLostWakeup'
  BY <1>6 DEF ShutdownEnter, TypeOK, NoLostWakeup, bufVars, prodVars
<1>7. ASSUME NEW c \in Callers, ShutdownStop(c)
      PROVE  NoLostWakeup'
  <2>1. \A d \in Callers : spc[d] = "notify" => spc'[d] = "notify"
    BY <1>7 DEF ShutdownStop, TypeOK
  <2>2. ~stop => spc'[c] = "notify"
    BY <1>7 DEF ShutdownStop, TypeOK
  <2>. QED  BY <1>7, <2>1, <2>2 DEF ShutdownStop, NoLostWakeup, bufVars,
                                    prodVars
<1>8. ASSUME NEW c \in Callers,
             ShutdownNotify(c) \/ ShutdownJoin(c) \/ DoShutdown(c)
      PROVE  NoLostWakeup'
  BY <1>8 DEF ShutdownNotify, ShutdownJoin, DoShutdown, NotifyFlusher, TypeOK,
              NoLostWakeup, bufVars, prodVars
<1>9. CASE UNCHANGED vars
  BY <1>9 DEF vars, NoLostWakeup, bufVars, prodVars
<1>. QED  BY <1>1, <1>2, <1>3, <1>4, <1>5, <1>6, <1>7, <1>8, <1>9
          DEF Next, Produce, ShutdownSteps

\* The mutex lets one caller past, that caller joins before it cleans up, and
\* the others return only behind it.
LEMMA ShutdownStep == IInv /\ [Next]_vars => ShutdownOrder'
<1>. SUFFICES ASSUME TypeOK, ShutdownOrder, [Next]_vars
     PROVE  ShutdownOrder'
  BY DEF IInv
<1>. USE DEF ShutdownOrder, Closing, Inside
<1>1. ASSUME NEW p \in Producers, Offer(p) \/ Produce(p)
      PROVE  ShutdownOrder'
  BY <1>1 DEF Offer, Produce, Enqueue, Notify, NotifyFlusher, TypeOK, bufVars,
              histVars
<1>2. CASE FlushWorker \/ SpuriousWake
  BY <1>2 DEF FlushWorker, Wait, WorkerExit, WorkerDone, Swap, CallFlushImpl,
              FlushImplReturns, FlushFailed, OnFlushErrorReturns, Clear,
              SpuriousWake, TypeOK, bufVars, prodVars, histVars
<1>3. ASSUME NEW c \in Callers, ShutdownEnter(c)
      PROVE  ShutdownOrder'
  BY <1>3 DEF ShutdownEnter, MayEnter, TypeOK, bufVars, prodVars, histVars
<1>4. ASSUME NEW c \in Callers, ShutdownStop(c)
      PROVE  ShutdownOrder'
  BY <1>4 DEF ShutdownStop, TypeOK, bufVars, prodVars, histVars
<1>5. ASSUME NEW c \in Callers, ShutdownNotify(c)
      PROVE  ShutdownOrder'
  BY <1>5 DEF ShutdownNotify, NotifyFlusher, TypeOK, bufVars, prodVars, histVars
<1>6. ASSUME NEW c \in Callers, ShutdownJoin(c) \/ DoShutdown(c)
      PROVE  ShutdownOrder'
  BY <1>6, ZenonT(60) DEF ShutdownJoin, DoShutdown, TypeOK, bufVars, prodVars, histVars
<1>7. CASE UNCHANGED vars
  BY <1>7 DEF vars, bufVars, prodVars, histVars
<1>. QED  BY <1>1, <1>2, <1>3, <1>4, <1>5, <1>6, <1>7 DEF Next, ShutdownSteps

-----------------------------------------------------------------------------
(* The order of the records.                                               *)

\* The end of a concatenation is its second part.
LEMMA SubSeqOfEnd ==
  ASSUME NEW S, NEW s \in Seq(S), NEW t \in Seq(S), t # <<>>
  PROVE  /\ Len(s \o t) >= Len(t)
         /\ SubSeq(s \o t, Len(s \o t) - Len(t) + 1, Len(s \o t)) = t
<1>1. Len(s) \in Nat /\ Len(t) \in Nat \ {0} /\ Len(s \o t) = Len(s) + Len(t)
  BY LenProperties, EmptySeq, ConcatProperties
<1>2. SubSeq(s \o t, Len(s) + 1, Len(s) + Len(t)) = SubSeq(t, 1, Len(t))
  <2>1. Len(s) + 1 \in Len(s) + 1 .. Len(s) + Len(t)
    BY <1>1
  <2>2. Len(s) + Len(t) \in Len(s) + 1 .. Len(s) + Len(t)
    BY <1>1
  <2>3. /\ Len(s) + 1 - Len(s) = 1
        /\ Len(s) + Len(t) - Len(s) = Len(t)
    BY <1>1
  <2>4. SubSeq(s \o t, Len(s) + 1, Len(s) + Len(t))
          = SubSeq(t, Len(s) + 1 - Len(s), Len(s) + Len(t) - Len(s))
    BY <2>1, <2>2, SubSeqOfConcat2
  <2>. QED  BY <2>3, <2>4
<1>3. SubSeq(t, 1, Len(t)) = t
  BY SubSeqFull
<1>4. Len(s \o t) - Len(t) + 1 = Len(s) + 1
  BY <1>1
<1>. QED  BY <1>1, <1>2, <1>3, <1>4

\* The batch given to flush_impl is the end of what was handed over so far,
\* and nothing touches it until the flush is over.
LEMMA BatchStep == IInv /\ [Next]_vars => BatchStable'
<1>. SUFFICES ASSUME TypeOK, BatchStable, [Next]_vars
     PROVE  BatchStable'
  BY DEF IInv
<1>1. CASE CallFlushImpl
  <2>1. CASE back = <<>>
    BY <1>1, <2>1 DEF CallFlushImpl, BatchStable
  <2>2. CASE back # <<>>
    <3>1. /\ Len(handed \o back) >= Len(back)
          /\ SubSeq(handed \o back, Len(handed \o back) - Len(back) + 1,
                    Len(handed \o back)) = back
      BY <2>2, SubSeqOfEnd DEF TypeOK
    <3>. QED  BY <1>1, <2>2, <3>1 DEF CallFlushImpl, BatchStable, bufVars
  <2>. QED  BY <2>1, <2>2
<1>2. CASE Wait \/ WorkerExit \/ Swap \/ Clear \/ SpuriousWake
  BY <1>2 DEF Wait, WorkerExit, Swap, Clear, SpuriousWake, BatchStable
<1>3. CASE FlushImplReturns \/ OnFlushErrorReturns
  BY <1>3 DEF FlushImplReturns, FlushFailed, OnFlushErrorReturns, BatchStable,
              bufVars, histVars
<1>4. ASSUME NEW p \in Producers, Offer(p) \/ Produce(p)
      PROVE  BatchStable'
  BY <1>4 DEF Offer, Produce, Enqueue, Notify, NotifyFlusher, BatchStable,
              bufVars, histVars
<1>5. ASSUME NEW c \in Callers, ShutdownEnter(c) \/ ShutdownSteps(c)
      PROVE  BatchStable'
  BY <1>5 DEF ShutdownEnter, ShutdownSteps, ShutdownStop, ShutdownNotify,
              ShutdownJoin, DoShutdown, NotifyFlusher, BatchStable, bufVars,
              histVars
<1>6. CASE UNCHANGED vars
  BY <1>6 DEF vars, BatchStable, bufVars, histVars
<1>. QED  BY <1>1, <1>2, <1>3, <1>4, <1>5, <1>6 DEF Next, FlushWorker

\* Every step keeps accepted = handed \o InFlight \o front: an append at the
\* end, a swap into the gap, or a hand-over of what filled the gap.
LEMMA OrderStep == IInv /\ [Next]_vars => ExactlyOnceInOrder'
<1>. SUFFICES ASSUME TypeOK, OfferedFirst, BackEmpty, ExactlyOnceInOrder,
                     [Next]_vars
     PROVE  ExactlyOnceInOrder'
  BY DEF IInv
<1>0. /\ handed \in Seq(Record) /\ InFlight \in Seq(Record)
      /\ handed \o InFlight \in Seq(Record)
      /\ front \in Seq(Record) /\ back \in Seq(Record)
  <2>1. InFlight \in Seq(Record)
    BY EmptySeq DEF InFlight, TypeOK
  <2>. QED  BY <2>1, ConcatProperties DEF TypeOK
<1>1. ASSUME NEW p \in Producers, Enqueue(p)
      PROVE  ExactlyOnceInOrder'
  <2>1. CASE stop
    BY <1>1, <2>1 DEF Enqueue, ExactlyOnceInOrder, InFlight
  <2>2. CASE ~stop
    <3> DEFINE r == <<p, sent[p]>>
               s == handed \o InFlight
    <3>1. r \in Record
      BY <1>1, OfferedRecord DEF Enqueue
    <3>. HIDE DEF r
    <3>2. <<r>> \in Seq(Record)
      BY <3>1
    <3>3. s \o front \in Seq(Record)
      BY <1>0, ConcatProperties
    <3>4. Append(s \o front, r) = (s \o front) \o <<r>>
      BY <3>1, <3>3, AppendIsConcat
    <3>5. (s \o front) \o <<r>> = s \o (front \o <<r>>)
      BY <1>0, <3>2, ConcatAssociative, SMTT(40)
    <3>6. front \o <<r>> = Append(front, r)
      BY <1>0, <3>1, AppendIsConcat
    <3>7. /\ accepted' = Append(accepted, r) /\ front' = Append(front, r)
          /\ handed' = handed /\ back' = back /\ fpc' = fpc
      BY <1>1, <2>2 DEF Enqueue, r
    <3>. QED  BY <3>4, <3>5, <3>6, <3>7 DEF ExactlyOnceInOrder, InFlight
  <2>. QED  BY <2>1, <2>2
<1>2. CASE Swap
  <2>1. /\ InFlight = <<>> /\ InFlight' = front /\ front' = <<>>
        /\ handed' = handed /\ accepted' = accepted
    BY <1>2 DEF Swap, BackEmpty, InFlight, histVars
  <2>2. /\ handed \o <<>> = handed
        /\ (handed \o front) \o <<>> = handed \o front
    BY <1>0, ConcatProperties, ConcatEmptySeq
  <2>. QED  BY <2>1, <2>2 DEF ExactlyOnceInOrder
<1>3. CASE CallFlushImpl
  <2>1. /\ InFlight = back /\ InFlight' = <<>> /\ front' = front
        /\ handed' = handed \o back /\ accepted' = accepted
    BY <1>3 DEF CallFlushImpl, InFlight, bufVars
  <2>2. (handed \o back) \o <<>> = handed \o back
    BY <1>0, ConcatProperties, ConcatEmptySeq
  <2>. QED  BY <2>1, <2>2 DEF ExactlyOnceInOrder
<1>4. CASE Wait \/ WorkerExit \/ FlushImplReturns \/ OnFlushErrorReturns
           \/ Clear \/ SpuriousWake
  BY <1>4 DEF Wait, WorkerExit, FlushImplReturns, FlushFailed,
              OnFlushErrorReturns, Clear, SpuriousWake, ExactlyOnceInOrder,
              InFlight, bufVars, histVars
<1>5. ASSUME NEW p \in Producers, Offer(p) \/ Notify(p)
      PROVE  ExactlyOnceInOrder'
  BY <1>5 DEF Offer, Notify, NotifyFlusher, ExactlyOnceInOrder, InFlight,
              bufVars, histVars
<1>6. ASSUME NEW c \in Callers, ShutdownEnter(c) \/ ShutdownSteps(c)
      PROVE  ExactlyOnceInOrder'
  BY <1>6 DEF ShutdownEnter, ShutdownSteps, ShutdownStop, ShutdownNotify,
              ShutdownJoin, DoShutdown, NotifyFlusher, ExactlyOnceInOrder,
              InFlight, bufVars, histVars
<1>7. CASE UNCHANGED vars
  BY <1>7 DEF vars, ExactlyOnceInOrder, InFlight, bufVars, histVars
<1>. QED  BY <1>1, <1>2, <1>3, <1>4, <1>5, <1>6, <1>7
          DEF Next, FlushWorker, Produce

-----------------------------------------------------------------------------
(* The theorems.                                                           *)

\* The invariant holds initially.
LEMMA InitInv == Init => IInv
<1>. SUFFICES ASSUME Init PROVE IInv
  OBVIOUS
<1>. USE DEF Init
<1>1. <<>> \in Seq(Record) /\ <<>> \o <<>> = <<>>
  BY EmptySeq, ConcatEmptySeq
<1>2. TypeOK
  <2>1. sent \in [Producers -> 0 .. MaxSent]
    BY WriterAssumption
  <2>2. needFlush = (front # <<>>)
    OBVIOUS
  <2>. QED  BY <1>1, <2>1, <2>2 DEF TypeOK
<1>3. ExactlyOnceInOrder
  BY <1>1 DEF ExactlyOnceInOrder, InFlight
<1>4. ShutdownOrder
  BY DEF ShutdownOrder, Inside, Closing
<1>. QED  BY <1>2, <1>3, <1>4 DEF IInv, BackEmpty, OfferedFirst, BatchStable,
                                  NoLostWakeup

\* The invariant of the double buffer: it holds in every reachable state.
THEOREM WriterInvariant == Spec => []IInv
<1>1. IInv /\ [Next]_vars => IInv'
  BY TypeStep, OrderStep, BatchStep, WakeStep, ShutdownStep DEF IInv
<1>. QED  BY InitInv, <1>1, PTL DEF Spec

\* Type correctness, for every number of producers, callers and records.
THEOREM WriterTypes == Spec => []TypeOK
<1>1. IInv => TypeOK
  BY DEF IInv
<1>. QED  BY WriterInvariant, <1>1, PTL

\* No record is lost, doubled or overtaken between enqueue and flush_impl.
THEOREM WriterKeepsOrder == Spec => []ExactlyOnceInOrder
<1>1. IInv => ExactlyOnceInOrder
  BY DEF IInv
<1>. QED  BY WriterInvariant, <1>1, PTL

\* The flush thread never sleeps on queued records or on a shutdown.
THEOREM WriterWakes == Spec => []NoLostWakeup
<1>1. IInv => NoLostWakeup
  BY DEF IInv
<1>. QED  BY WriterInvariant, <1>1, PTL

\* A batch stays what flush_impl was given until the flush is over.
THEOREM WriterBatchStable == Spec => []BatchStable
<1>1. IInv => BatchStable
  BY DEF IInv
<1>. QED  BY WriterInvariant, <1>1, PTL

\* With the flush thread gone, everything accepted was handed over.
LEMMA ExitedMeansFlushed == IInv /\ fpc = "exited" => handed = accepted
<1>. SUFFICES ASSUME IInv, fpc = "exited" PROVE handed = accepted
  OBVIOUS
<1>1. front = <<>> /\ InFlight = <<>>
  BY DEF IInv, ShutdownOrder, InFlight
<1>2. (handed \o <<>>) \o <<>> = handed
  BY ConcatEmptySeq DEF IInv, TypeOK
<1>. QED  BY <1>1, <1>2 DEF IInv, ExactlyOnceInOrder

\* Whoever returns from shutdown() finds the flush thread gone, everything
\* accepted handed over and the sink closed, however many callers there are.
THEOREM WriterReturnsDone == Spec => []ReturnedMeansDone
<1>1. IInv => ReturnedMeansDone
  BY ExitedMeansFlushed DEF IInv, ShutdownOrder, ReturnedMeansDone
<1>. QED  BY WriterInvariant, <1>1, PTL

-----------------------------------------------------------------------------
(* Refinement.                                                             *)

\* The hand-over of a batch is the delivery of the next records accepted.
LEMMA HandOverDelivers ==
  IInv /\ CallFlushImpl => Channel!Deliver \/ UNCHANGED Channel!vars
<1>. SUFFICES ASSUME IInv, CallFlushImpl
     PROVE  Channel!Deliver \/ UNCHANGED Channel!vars
  OBVIOUS
<1>1. CASE back = <<>>
  BY <1>1, ConcatEmptySeq DEF CallFlushImpl, IInv, TypeOK, Channel!vars
<1>2. CASE back # <<>>
  <2> DEFINE h == handed \o back
  <2>1. h \in Seq(Record) /\ h \o front = accepted /\ handed' = h
    BY ConcatProperties DEF CallFlushImpl, IInv, TypeOK, ExactlyOnceInOrder,
                            InFlight
  <2>2. /\ Len(handed) \in Nat /\ Len(back) \in Nat \ {0}
        /\ Len(h) = Len(handed) + Len(back)
    BY <1>2, LenProperties, EmptySeq, ConcatProperties DEF IInv, TypeOK
  <2>3. Len(accepted) = Len(h) + Len(front) /\ Len(front) \in Nat
    BY <2>1, LenProperties, ConcatProperties DEF IInv, TypeOK
  <2>. HIDE DEF h
  <2>4. SubSeq(accepted, 1, Len(h)) = h
    <3>1. 1 \in 1 .. Len(h) /\ Len(h) \in 1 .. Len(h)
      BY <2>2
    <3>2. front \in Seq(Record)
      BY DEF IInv, TypeOK
    <3>3. SubSeq(h \o front, 1, Len(h)) = SubSeq(h, 1, Len(h))
      BY <2>1, <3>1, <3>2, SubSeqOfConcat1
    <3>4. SubSeq(h, 1, Len(h)) = h
      BY <2>1, SubSeqFull
    <3>. QED  BY <2>1, <3>3, <3>4
  <2>5. Len(h) \in Len(handed) + 1 .. Len(accepted)
    BY <2>2, <2>3
  <2>6. ~sinkClosed
    BY DEF CallFlushImpl, IInv, ShutdownOrder
  <2>. QED  BY <2>1, <2>4, <2>5, <2>6 DEF CallFlushImpl, Channel!Deliver
<1>. QED  BY <1>1, <1>2

\* The double buffer implements the channel (its safety part): every record it
\* accepts reaches flush_impl exactly once and in order, none is accepted
\* after shutdown began, and the sink closes behind the last record.
THEOREM WriterImplementsChannel == Spec => ChannelSafety
<1>1. Init => Channel!Init
  BY DEF Init, Channel!Init
<1>2. IInv /\ [Next]_vars => [Channel!Next]_(Channel!vars)
  <2>. SUFFICES ASSUME IInv, [Next]_vars
       PROVE  Channel!Next \/ UNCHANGED Channel!vars
    OBVIOUS
  <2>1. ASSUME NEW p \in Producers, Enqueue(p)
        PROVE  Channel!Next \/ UNCHANGED Channel!vars
    <3>1. <<p, sent[p]>> \in Record
      BY <2>1, OfferedRecord DEF Enqueue, IInv
    <3>. QED  BY <2>1, <3>1 DEF Enqueue, Channel!Next, Channel!Accept,
                                Channel!vars
  <2>2. ASSUME NEW p \in Producers, Offer(p) \/ Notify(p)
        PROVE  UNCHANGED Channel!vars
    BY <2>2 DEF Offer, Notify, bufVars, histVars, Channel!vars
  <2>3. CASE CallFlushImpl
    BY <2>3, HandOverDelivers DEF Channel!Next
  <2>4. CASE \/ Wait \/ WorkerExit \/ Swap \/ FlushImplReturns
             \/ OnFlushErrorReturns \/ Clear \/ SpuriousWake
    BY <2>4 DEF Wait, WorkerExit, Swap, FlushImplReturns, FlushFailed,
                OnFlushErrorReturns, Clear, SpuriousWake, histVars, Channel!vars
  <2>5. ASSUME NEW c \in Callers, ShutdownStop(c)
        PROVE  Channel!Next \/ UNCHANGED Channel!vars
    BY <2>5 DEF ShutdownStop, IInv, TypeOK, histVars, Channel!Next,
                Channel!Close, Channel!vars
  <2>6. ASSUME NEW c \in Callers, DoShutdown(c)
        PROVE  Channel!Next \/ UNCHANGED Channel!vars
    <3>1. stop /\ fpc = "exited"
      BY <2>6 DEF DoShutdown, IInv, ShutdownOrder, Closing
    <3>2. handed = accepted
      BY <3>1, ExitedMeansFlushed
    <3>. QED  BY <2>6, <3>1, <3>2 DEF DoShutdown, IInv, TypeOK, histVars,
                    Channel!Next, Channel!Finish, Channel!vars
  <2>7. ASSUME NEW c \in Callers,
               ShutdownEnter(c) \/ ShutdownNotify(c) \/ ShutdownJoin(c)
        PROVE  UNCHANGED Channel!vars
    BY <2>7 DEF ShutdownEnter, ShutdownNotify, ShutdownJoin, histVars,
                Channel!vars
  <2>8. CASE UNCHANGED vars
    BY <2>8 DEF vars, histVars, Channel!vars
  <2>. QED  BY <2>1, <2>2, <2>3, <2>4, <2>5, <2>6, <2>7, <2>8
            DEF Next, Produce, FlushWorker, ShutdownSteps
<1>. QED  BY <1>1, <1>2, WriterInvariant, PTL
          DEF Spec, ChannelSafety, Channel!Spec
=============================================================================
