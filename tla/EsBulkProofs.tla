---------------------------- MODULE EsBulkProofs ----------------------------
(***************************************************************************)
(* Proofs about EsBulk, for any documents, sizes, limits and answers.      *)
(*                                                                         *)
(* The argument: an open document is in exactly one of todo, chunk and     *)
(* retry (Placed), and how often it was sent follows from which of them    *)
(* (Counted).  What is settled is in none, so no request has it again.     *)
(* The byte count of a request is the sum of its documents' sizes          *)
(* (Summed), which takes a small theory of sums over finite sets.          *)
(***************************************************************************)
EXTENDS EsBulk, FiniteSetTheorems, WellFoundedInduction, TLAPS

\* The three lists share no document, and hold the open ones.
Placed ==
  /\ todo \cap chunk = {} /\ todo \cap retry = {} /\ chunk \cap retry = {}
  /\ \A d \in Docs : fate[d] = "open" <=> d \in todo \/ d \in chunk \/ d \in retry
  /\ ~busy => Open = {}

\* A document of this round's list was in at most one request per round before.
Counted ==
  \A d \in Docs :
    /\ fate[d] = "waiting" => sends[d] = 0
    /\ d \in todo \/ d \in chunk => sends[d] <= round
    /\ d \in retry => sends[d] <= round + 1
    /\ sends[d] <= 1 + MaxRetries

\* Whatever was packed once fits, so no difference of sizes wraps around.
Measured ==
  /\ \A d \in chunk \cup retry : size[d] <= MaxBulkBytes
  /\ round > 0 => \A d \in todo : size[d] <= MaxBulkBytes
  /\ bytes <= MaxBulkBytes
  /\ chunk = {} => bytes = 0

\* flush_ret is true only while nothing has to be retried, and every document
\* of the batch that was sent has been confirmed.
OkTells ==
  ok /\ round = 0 =>
    /\ retry = {}
    /\ \A d \in batch :
         d \in todo \cup chunk \/ (fate[d] = "confirmed" /\ d \in stored)

IInv == TypeOK /\ Placed /\ Counted /\ Measured /\ OkTells

\* Sizes are byte counts.
LEMMA SizesNat == Sizes \subseteq Nat
<1>1. Sizes \subseteq 0 .. Word - 1 /\ Word \in Nat
  BY BulkAssumption
<1>. QED  BY <1>1

\* An answer settles a document, or it goes to retry_documents_.
LEMMA VerdictType ==
  ASSUME NEW r, NEW d PROVE Verdict(r, d) \in {"done", "drop", "retry"}
BY DEF Verdict, ItemVerdict

\* A document taken for delivered is one whose item reports success.
LEMMA DoneIsCreated ==
  ASSUME NEW r, NEW d, Verdict(r, d) = "done"
  PROVE  Accepted(r) /\ r.valid /\ Created(r.items[d])
BY DEF Verdict, ItemVerdict, Created

\* What a request does to the documents of its chunk.
LEMMA PostEffect ==
  ASSUME TypeOK, Placed, NEW r, NEW A \in SUBSET chunk, Post(r, A)
  PROVE  /\ fate' \in [Docs -> {"waiting", "open", "confirmed", "dropped", "exhausted"}]
         /\ sends' \in [Docs -> Nat]
         /\ \A d \in Docs : d \notin chunk => fate'[d] = fate[d] /\ sends'[d] = sends[d]
         /\ \A d \in chunk :
              /\ sends'[d] = sends[d] + 1
              /\ \/ fate'[d] = "confirmed" /\ d \notin retry' /\ d \in A
                 \/ fate'[d] = "dropped" /\ d \notin retry'
                 \/ fate'[d] = "open" /\ d \in retry'
         /\ retry \subseteq retry' /\ retry' \subseteq retry \cup chunk
         /\ chunk' = {} /\ bytes' = 0
         /\ stored' = stored \cup A
         /\ UNCHANGED <<size, batch, busy, round, todo>>
         /\ ok' \in BOOLEAN
         /\ ok' => ok /\ retry' = retry /\ \A d \in chunk : fate'[d] = "confirmed"
<1>1. /\ fate' = [d \in Docs |->
                    IF d \notin chunk THEN fate[d]
                    ELSE CASE Verdict(r, d) = "done" -> "confirmed"
                           [] Verdict(r, d) = "drop" -> "dropped"
                           [] OTHER -> fate[d]]
      /\ sends' = [d \in Docs |-> sends[d] + (IF d \in chunk THEN 1 ELSE 0)]
      /\ stored' = stored \cup A
      /\ retry' = retry \cup {d \in chunk : Verdict(r, d) = "retry"}
      /\ ok' = (ok /\ Success(r))
      /\ chunk' = {} /\ bytes' = 0
      /\ UNCHANGED <<size, batch, busy, round, todo>>
  BY DEF Post, ToRetry, loopVars
<1>2. chunk \subseteq Docs /\ ok \in BOOLEAN /\ sends \in [Docs -> Nat]
      /\ fate \in [Docs -> {"waiting", "open", "confirmed", "dropped", "exhausted"}]
  BY DEF TypeOK
<1>3. \A d \in chunk : fate[d] = "open" /\ d \notin retry
  BY <1>2 DEF Placed
<1>4. \A d \in chunk : Verdict(r, d) = "done" => d \in A
  BY DoneIsCreated DEF Post
<1>5. \A d \in chunk : Verdict(r, d) \in {"done", "drop", "retry"}
  BY VerdictType
<1>6. ASSUME NEW d \in chunk
      PROVE  /\ sends'[d] = sends[d] + 1
             /\ \/ fate'[d] = "confirmed" /\ d \notin retry' /\ d \in A
                \/ fate'[d] = "dropped" /\ d \notin retry'
                \/ fate'[d] = "open" /\ d \in retry'
  <2>1. sends'[d] = sends[d] + 1
    BY <1>1, <1>2
  <2>2. CASE Verdict(r, d) = "done"
    BY <2>1, <2>2, <1>1, <1>2, <1>3, <1>4
  <2>3. CASE Verdict(r, d) = "drop"
    BY <2>1, <2>3, <1>1, <1>2, <1>3
  <2>4. CASE Verdict(r, d) = "retry"
    BY <2>1, <2>4, <1>1, <1>2, <1>3
  <2>. QED  BY <1>5, <2>2, <2>3, <2>4
<1>7. ASSUME NEW d \in Docs, d \notin chunk
      PROVE  fate'[d] = fate[d] /\ sends'[d] = sends[d]
  BY <1>1, <1>2, <1>7
<1>8. sends' \in [Docs -> Nat]
  BY <1>1, <1>2
<1>9. fate' \in [Docs -> {"waiting", "open", "confirmed", "dropped", "exhausted"}]
  BY <1>1, <1>2
<1>10. ok' \in BOOLEAN /\ (ok' => ok /\ retry' = retry)
  BY <1>1, <1>2 DEF Success
<1>11. ok' => \A d \in chunk : fate'[d] = "confirmed"
  BY <1>1, <1>2 DEF Success
<1>. QED  BY <1>1, <1>6, <1>7, <1>8, <1>9, <1>10, <1>11

\* A request is the only way to change sends, and the only step that does not
\* just pack, refuse or end a round.
LEMMA SendIsPost ==
  ASSUME SendFull \/ SendLast
  PROVE  \E r, A : A \in SUBSET chunk /\ Post(r, A)
BY DEF SendFull, SendLast, Send

-----------------------------------------------------------------------------
(* The invariant is inductive.                                             *)

\* The writer before its first batch.
LEMMA InitOK == Init => IInv
<1>. SUFFICES ASSUME Init PROVE IInv
  OBVIOUS
<1>. USE BulkAssumption DEF Init
<1>1. 0 \in 0 .. MaxRetries
  OBVIOUS
<1>2. TypeOK
  BY <1>1 DEF TypeOK
<1>. QED  BY <1>2 DEF IInv, Placed, Counted, Measured, OkTells, Open

\* A batch starts when nothing is open, with documents never sent.
LEMMA FlushOK ==
  ASSUME IInv, NEW S \in SUBSET Docs, Flush(S) PROVE IInv'
<1>. USE BulkAssumption
<1>1. TypeOK'
  BY DEF IInv, Flush, TypeOK
<1>2. \A d \in Docs : fate[d] # "open"
  BY DEF IInv, Placed, Flush, Open
<1>3. \A d \in Docs : fate'[d] = IF d \in S THEN "open" ELSE fate[d]
  BY DEF Flush
<1>4. /\ todo' = S /\ chunk' = {} /\ retry' = {} /\ bytes' = 0 /\ round' = 0
      /\ busy' = TRUE /\ batch' = S /\ UNCHANGED <<size, sends>>
      /\ \A d \in S : fate[d] = "waiting"
  BY DEF Flush
<1>5. Placed'
  BY <1>2, <1>3, <1>4 DEF Placed
<1>6. Counted'
  BY <1>3, <1>4 DEF IInv, TypeOK, Counted
<1>7. Measured'
  BY <1>4 DEF Measured
<1>8. OkTells'
  BY <1>4 DEF OkTells
<1>. QED  BY <1>1, <1>5, <1>6, <1>7, <1>8 DEF IInv

\* A record dropped before it is sent.
LEMMA RefuseOK ==
  ASSUME IInv, NEW d \in todo, Refuse(d) PROVE IInv'
<1>. USE BulkAssumption
<1>1. /\ fate' = [fate EXCEPT ![d] = "dropped"] /\ todo' = todo \ {d}
      /\ UNCHANGED <<size, batch, sends, stored, busy, round, chunk, bytes, retry>>
      /\ ok' = FALSE
  BY DEF Refuse, chunkVars
<1>2. TypeOK'
  BY <1>1 DEF IInv, TypeOK
<1>3. d \in Docs /\ \A e \in Docs : fate'[e] = IF e = d THEN "dropped" ELSE fate[e]
  BY <1>1 DEF IInv, TypeOK
<1>4. d \notin chunk /\ d \notin retry
  BY DEF IInv, Placed
<1>5. Placed'
  <2>1. \A e \in Docs : fate'[e] = "open" <=> e \in todo' \/ e \in chunk' \/ e \in retry'
    BY <1>1, <1>3, <1>4 DEF IInv, Placed
  <2>2. ~busy' => Open' = {}
    BY <1>1, <1>3 DEF IInv, Placed, Open
  <2>3. /\ todo' \cap chunk' = {} /\ todo' \cap retry' = {} /\ chunk' \cap retry' = {}
    BY <1>1 DEF IInv, Placed
  <2>. QED  BY <2>1, <2>2, <2>3 DEF Placed
<1>6. Counted'
  BY <1>1, <1>3 DEF IInv, Counted
<1>7. Measured' /\ OkTells'
  BY <1>1 DEF IInv, Measured, OkTells
<1>. QED  BY <1>2, <1>5, <1>6, <1>7 DEF IInv

\* A document joins the request: the limit holds because nothing wrapped.
LEMMA PackOK ==
  ASSUME IInv, NEW d \in todo, Pack(d) PROVE IInv'
<1>. USE BulkAssumption
<1>1. /\ chunk' = chunk \cup {d} /\ bytes' = bytes + size[d] /\ todo' = todo \ {d}
      /\ UNCHANGED <<size, batch, fate, sends, stored, busy, round, retry, ok>>
      /\ ~(round = 0 /\ Unsendable(d)) /\ Fits(d)
  BY DEF Pack
<1>2. d \in Docs /\ size[d] \in Nat /\ bytes \in Nat /\ round \in Nat
  <2>1. TypeOK
    BY DEF IInv
  <2>2. d \in Docs /\ bytes \in Nat /\ round \in Nat
    BY <2>1 DEF TypeOK
  <2>. QED  BY <2>1, <2>2, SizesNat DEF TypeOK
<1>3. size[d] <= MaxBulkBytes
  BY <1>1, <1>2 DEF IInv, Measured, Unsendable
<1>4. bytes' \in Nat /\ bytes' <= MaxBulkBytes
  BY <1>1, <1>2, <1>3 DEF Fits, Room
<1>5. TypeOK'
  BY <1>1, <1>2, <1>4 DEF IInv, TypeOK
<1>6. Placed'
  BY <1>1 DEF IInv, Placed, Open
<1>7. Counted'
  BY <1>1 DEF IInv, Counted
<1>8. Measured' /\ OkTells'
  BY <1>1, <1>3, <1>4 DEF IInv, Measured, OkTells
<1>. QED  BY <1>5, <1>6, <1>7, <1>8 DEF IInv

\* A request was answered.
LEMMA PostOK ==
  ASSUME IInv, NEW r, NEW A \in SUBSET chunk, Post(r, A) PROVE IInv'
<1>. USE BulkAssumption
<1>0. TypeOK /\ Placed /\ Counted /\ Measured /\ OkTells
  BY DEF IInv
<1>1. /\ fate' \in [Docs -> {"waiting", "open", "confirmed", "dropped", "exhausted"}]
      /\ sends' \in [Docs -> Nat]
      /\ \A d \in Docs : d \notin chunk => fate'[d] = fate[d] /\ sends'[d] = sends[d]
      /\ \A d \in chunk :
           /\ sends'[d] = sends[d] + 1
           /\ \/ fate'[d] = "confirmed" /\ d \notin retry' /\ d \in A
              \/ fate'[d] = "dropped" /\ d \notin retry'
              \/ fate'[d] = "open" /\ d \in retry'
      /\ retry \subseteq retry' /\ retry' \subseteq retry \cup chunk
      /\ chunk' = {} /\ bytes' = 0
      /\ stored' = stored \cup A
      /\ UNCHANGED <<size, batch, busy, round, todo>>
      /\ ok' \in BOOLEAN
      /\ ok' => ok /\ retry' = retry /\ \A d \in chunk : fate'[d] = "confirmed"
  BY <1>0, PostEffect
<1>2. chunk \subseteq Docs /\ retry \subseteq Docs /\ round \in 0 .. MaxRetries
      /\ sends \in [Docs -> Nat]
  BY <1>0 DEF TypeOK
<1>3. TypeOK'
  BY <1>0, <1>1 DEF TypeOK
<1>4. Placed'
  <2>1. /\ todo' \cap chunk' = {} /\ todo' \cap retry' = {} /\ chunk' \cap retry' = {}
    BY <1>0, <1>1 DEF Placed
  <2>2. ASSUME NEW d \in Docs
        PROVE  fate'[d] = "open" <=> d \in todo' \/ d \in chunk' \/ d \in retry'
    <3>1. CASE d \in chunk
      BY <1>0, <1>1, <3>1 DEF Placed
    <3>2. CASE d \notin chunk
      BY <1>0, <1>1, <3>2 DEF Placed
    <3>. QED  BY <3>1, <3>2
  <2>3. ASSUME ~busy' PROVE Open' = {}
    BY <1>0, <1>1, <1>2, <2>2, <2>3 DEF Placed, Open
  <2>. QED  BY <2>1, <2>2, <2>3 DEF Placed
<1>5. Counted'
  <2>. SUFFICES ASSUME NEW d \in Docs
       PROVE  /\ fate'[d] = "waiting" => sends'[d] = 0
              /\ d \in todo' \/ d \in chunk' => sends'[d] <= round'
              /\ d \in retry' => sends'[d] <= round' + 1
              /\ sends'[d] <= 1 + MaxRetries
    BY DEF Counted
  <2>1. sends[d] \in Nat
    BY <1>2
  <2>2. CASE d \in chunk
    <3>1. sends[d] <= round /\ sends'[d] = sends[d] + 1 /\ d \notin todo
      BY <1>0, <1>1, <2>2 DEF Counted, Placed
    <3>. QED  BY <1>1, <1>2, <2>1, <2>2, <3>1
  <2>3. CASE d \notin chunk
    <3>1. fate'[d] = fate[d] /\ sends'[d] = sends[d] /\ (d \in retry' => d \in retry)
      BY <1>1, <2>3
    <3>. QED  BY <1>0, <1>1, <3>1 DEF Counted
  <2>. QED  BY <2>2, <2>3
<1>6. Measured'
  BY <1>0, <1>1 DEF Measured
<1>7. OkTells'
  <2>1. ASSUME ok', round' = 0 PROVE retry' = {}
    BY <1>0, <1>1, <2>1 DEF OkTells
  <2>2. ASSUME ok', round' = 0, NEW d \in batch'
        PROVE  d \in todo' \cup chunk' \/ (fate'[d] = "confirmed" /\ d \in stored')
    <3>1. ok /\ round = 0 /\ d \in batch /\ d \in Docs
      BY <1>0, <1>1, <2>2 DEF TypeOK
    <3>2. CASE d \in chunk
      <4>1. fate'[d] = "confirmed" /\ d \in A
        BY <1>1, <2>2, <3>2
      <4>. QED  BY <1>1, <4>1
    <3>3. CASE d \notin chunk
      BY <1>0, <1>1, <3>1, <3>3 DEF OkTells
    <3>. QED  BY <3>2, <3>3
  <2>. QED  BY <2>1, <2>2 DEF OkTells
<1>. QED  BY <1>3, <1>4, <1>5, <1>6, <1>7 DEF IInv

\* The end of a round: flush_impl returns, the next attempt, or the last word.
LEMMA RoundEndOK ==
  ASSUME IInv, Return \/ Retry \/ GiveUp PROVE IInv'
<1>. USE BulkAssumption
<1>0. TypeOK /\ Placed /\ Counted /\ Measured /\ OkTells
  BY DEF IInv
<1>1. CASE Return
  <2>1. /\ todo = {} /\ chunk = {} /\ retry = {} /\ busy' = FALSE
        /\ batch' = {}
        /\ UNCHANGED <<size, fate, sends, stored, round, todo, chunk, bytes, retry, ok>>
    BY <1>0, <1>1 DEF Return, RoundOver, chunkVars, OkTells
  <2>2. \A d \in Docs : fate[d] # "open"
    BY <1>0, <2>1 DEF Placed
  <2>3. TypeOK'
    BY <1>0, <2>1 DEF TypeOK
  <2>4. Placed' /\ Counted' /\ Measured' /\ OkTells'
    BY <1>0, <2>1, <2>2 DEF Placed, Counted, Measured, OkTells, Open
  <2>. QED  BY <2>3, <2>4 DEF IInv
<1>2. CASE Retry
  <2>1. /\ todo = {} /\ chunk = {} /\ busy /\ round < MaxRetries
        /\ round' = round + 1 /\ todo' = retry /\ retry' = {}
        /\ UNCHANGED <<size, batch, fate, sends, stored, busy, chunk, bytes, ok>>
    BY <1>2 DEF Retry, RoundOver, MayRetry, chunkVars
  <2>2. round \in Nat /\ round' \in 0 .. MaxRetries /\ round' # 0
    BY <1>0, <2>1 DEF TypeOK
  <2>3. TypeOK'
    BY <1>0, <2>1, <2>2 DEF TypeOK
  <2>4. Placed'
    BY <1>0, <2>1 DEF Placed, Open
  <2>5. Counted'
    BY <1>0, <2>1 DEF Counted
  <2>6. Measured' /\ OkTells'
    BY <1>0, <2>1, <2>2 DEF Measured, OkTells
  <2>. QED  BY <2>3, <2>4, <2>5, <2>6 DEF IInv
<1>3. CASE GiveUp
  <2>1. /\ todo = {} /\ chunk = {} /\ retry' = {} /\ busy' = FALSE /\ batch' = {}
        /\ fate' = [d \in Docs |-> IF d \in retry THEN "exhausted" ELSE fate[d]]
        /\ UNCHANGED <<size, sends, stored, round, todo, chunk, bytes, ok>>
    BY <1>3 DEF GiveUp, RoundOver, chunkVars
  <2>2. TypeOK'
    BY <1>0, <2>1 DEF TypeOK
  <2>3. \A d \in Docs : fate'[d] = (IF d \in retry THEN "exhausted" ELSE fate[d])
                        /\ fate'[d] # "open"
    BY <1>0, <2>1 DEF Placed
  <2>4. Placed'
    BY <2>1, <2>3 DEF Placed, Open
  <2>5. Counted'
    BY <1>0, <2>1, <2>3 DEF Counted
  <2>6. Measured' /\ OkTells'
    BY <1>0, <2>1 DEF Measured, OkTells
  <2>. QED  BY <2>2, <2>4, <2>5, <2>6 DEF IInv
<1>. QED  BY <1>1, <1>2, <1>3

\* No step leaves the invariant.
LEMMA StepOK == IInv /\ [Next]_vars => IInv'
<1>. SUFFICES ASSUME IInv, [Next]_vars PROVE IInv'
  OBVIOUS
<1>1. CASE FlushSome
  BY <1>1, FlushOK DEF FlushSome
<1>2. ASSUME NEW d \in todo, Refuse(d) \/ Pack(d) PROVE IInv'
  BY <1>2, RefuseOK, PackOK
<1>3. CASE SendFull \/ SendLast
  BY <1>3, SendIsPost, PostOK
<1>4. CASE Return \/ Retry \/ GiveUp
  BY <1>4, RoundEndOK
<1>5. CASE UNCHANGED vars
  <2>1. UNCHANGED <<size, batch, fate, sends, stored, busy, round, todo, chunk, bytes,
                    retry, ok>>
    BY <1>5 DEF vars, loopVars, chunkVars
  <2>2. TypeOK'
    BY <2>1 DEF IInv, TypeOK
  <2>3. Placed' /\ Counted' /\ Measured' /\ OkTells'
    BY <2>1 DEF IInv, Placed, Counted, Measured, OkTells, Open
  <2>. QED  BY <2>2, <2>3 DEF IInv
<1>. QED  BY <1>1, <1>2, <1>3, <1>4, <1>5 DEF Next, Work

\* The inductive invariant of the bulk loop holds in every reachable state.
THEOREM EsInvariant == Spec => []IInv
BY InitOK, StepOK, PTL DEF Spec

\* Type correctness, for any documents, sizes, limits and answers.
THEOREM EsTypes == Spec => []TypeOK
<1>1. IInv => TypeOK
  BY DEF IInv
<1>. QED  BY <1>1, EsInvariant, PTL

\* No document is in more than 1 + max_retries requests, whatever the answers.
THEOREM EsSentAtMost == Spec => []SentAtMost
<1>1. IInv => SentAtMost
  BY DEF IInv, Counted, SentAtMost
<1>. QED  BY <1>1, EsInvariant, PTL

\* No request is over the limit as the code counts it, and none is empty.
RequestCounted ==
  /\ bytes <= MaxBulkBytes
  /\ \A d \in todo : IsNext(d) /\ ~(round = 0 /\ Unsendable(d)) /\ ~Fits(d)
                     => chunk # {}

\* The byte count of a request never passes max_bulk_bytes (no unsigned
\* difference wraps), and send_documents is never called without documents.
THEOREM EsRequestCounted == Spec => []RequestCounted
<1>1. IInv => RequestCounted
  <2>. SUFFICES ASSUME IInv, NEW d \in todo, ~(round = 0 /\ Unsendable(d)), chunk = {}
                PROVE  Fits(d)
    BY DEF IInv, Measured, RequestCounted
  <2>1. bytes = 0 /\ d \in Docs /\ size[d] \in Nat /\ round \in Nat
    <3>1. TypeOK /\ bytes = 0
      BY DEF IInv, Measured
    <3>2. d \in Docs /\ round \in Nat
      BY <3>1 DEF TypeOK
    <3>3. size[d] \in Nat
      BY <3>1, <3>2, SizesNat DEF TypeOK
    <3>. QED  BY <3>1, <3>2, <3>3
  <2>2. size[d] <= MaxBulkBytes
    BY <2>1, BulkAssumption DEF IInv, Measured, Unsendable
  <2>. QED  BY <2>1, <2>2, BulkAssumption DEF Fits, Room
<1>. QED  BY <1>1, EsInvariant, PTL

\* A true result of flush_impl says that every document of the batch has been
\* confirmed and is in the store.
THEOREM EsTrueMeansDelivered == Spec => []TrueMeansDelivered
<1>1. IInv => TrueMeansDelivered
  BY DEF IInv, OkTells, TrueMeansDelivered, RoundOver
<1>. QED  BY <1>1, EsInvariant, PTL

-----------------------------------------------------------------------------
(* What a step may do to a document.                                       *)

\* Which steps send.
LEMMA SendsChange ==
  ASSUME IInv, [Next]_vars, NEW d \in Docs, sends'[d] # sends[d]
  PROVE  fate[d] = "open"
<1>1. ASSUME NEW r, NEW A \in SUBSET chunk, Post(r, A) PROVE fate[d] = "open"
  <2>1. d \in chunk
    BY <1>1, PostEffect DEF IInv
  <2>. QED  BY <2>1 DEF IInv, Placed
<1>2. CASE SendFull \/ SendLast
  BY <1>1, <1>2, SendIsPost
<1>3. CASE FlushSome
  BY <1>3 DEF FlushSome, Flush
<1>4. ASSUME NEW e \in todo, Refuse(e) \/ Pack(e) PROVE FALSE
  BY <1>4 DEF Refuse, Pack
<1>5. CASE Return \/ Retry \/ GiveUp
  BY <1>5 DEF Return, Retry, GiveUp
<1>6. CASE UNCHANGED vars
  BY <1>6 DEF vars
<1>. QED  BY <1>2, <1>3, <1>4, <1>5, <1>6 DEF Next, Work

\* A document that was confirmed, dropped or given up is never sent again.
THEOREM EsNeverResent == Spec => NeverResent
<1>1. IInv /\ [Next]_vars
        => [\A d \in Docs : sends'[d] # sends[d] => fate[d] = "open"]_vars
  BY SendsChange
<1>. QED  BY <1>1, EsInvariant, PTL DEF Spec, NeverResent

-----------------------------------------------------------------------------
(* The refinement.                                                         *)

afate == [d \in Docs |-> CASE fate[d] = "confirmed" -> "delivered"
                           [] fate[d] \in {"dropped", "exhausted"} -> "givenUp"
                           [] OTHER -> fate[d]]

\* A step that only moves open documents between the lists.
LEMMA StaysSame ==
  ASSUME fate' = fate, stored' = stored
  PROVE  UNCHANGED <<afate, stored>>
BY DEF afate

\* Some open documents D are in the store, some, G, are given up, the others
\* keep their fate: that is a step of the abstract writer.
LEMMA SettleStep ==
  ASSUME TypeOK, NEW A \in SUBSET Docs, NEW D \in SUBSET Docs, NEW G \in SUBSET Docs,
         A \subseteq Open, D \subseteq Open, G \subseteq Open, D \cap G = {},
         D \subseteq A, stored' = stored \cup A,
         \A d \in D : fate'[d] = "confirmed",
         \A d \in G : fate'[d] \in {"dropped", "exhausted"},
         \A d \in Docs \ (D \cup G) : fate'[d] = fate[d]
  PROVE  Delivery!Next
<1>1. Delivery!Open = Open
  BY DEF Delivery!Open, Open, TypeOK
<1>2. afate' = [d \in Docs |-> IF d \in D THEN "delivered"
                               ELSE IF d \in G THEN "givenUp" ELSE afate[d]]
  <2>1. ASSUME NEW d \in Docs
        PROVE  afate'[d] = IF d \in D THEN "delivered"
                           ELSE IF d \in G THEN "givenUp" ELSE afate[d]
    <3>1. CASE d \in D
      BY <3>1 DEF afate
    <3>2. CASE d \in G
      BY <3>2 DEF afate
    <3>3. CASE d \in Docs \ (D \cup G)
      BY <3>3 DEF afate
    <3>. QED  BY <3>1, <3>2, <3>3
  <2>. QED  BY <2>1 DEF afate
<1>3. Delivery!Settle(A, D, G)
  BY <1>1, <1>2 DEF Delivery!Settle, afate
<1>. QED  BY <1>3 DEF Delivery!Next

\* Open documents G are given up without a request.
LEMMA LoseStep ==
  ASSUME TypeOK, NEW G \in SUBSET Docs, G \subseteq Open, stored' = stored,
         \A d \in G : fate'[d] \in {"dropped", "exhausted"},
         \A d \in Docs \ G : fate'[d] = fate[d]
  PROVE  Delivery!Next
<1>1. PICK N \in SUBSET Docs : N = {}
  OBVIOUS
<1>2. /\ N \subseteq Open /\ N \cap G = {} /\ N \subseteq N
      /\ stored' = stored \cup N
      /\ \A d \in N : fate'[d] = "confirmed"
      /\ \A d \in Docs \ (N \cup G) : fate'[d] = fate[d]
  BY <1>1
<1>. HIDE <1>1
<1>. QED  BY <1>2, SettleStep

\* Every step of the code is one of the promise, or none.
LEMMA StepRefines == IInv /\ [Next]_vars => [Delivery!Next]_<<afate, stored>>
<1>. SUFFICES ASSUME IInv, [Next]_vars, ~UNCHANGED <<afate, stored>>
              PROVE  Delivery!Next
  OBVIOUS
<1>0. TypeOK /\ Placed
  BY DEF IInv
<1>1. ASSUME NEW S \in SUBSET Docs, Flush(S) PROVE Delivery!Next
  <2>1. Delivery!Open = {}
    BY <1>0, <1>1 DEF Delivery!Open, Open, Placed, Flush, TypeOK
  <2>2. \A d \in S : fate[d] = "waiting" /\ afate[d] = "waiting"
    BY <1>1 DEF Flush, afate
  <2>3. afate' = [d \in Docs |-> IF d \in S THEN "open" ELSE afate[d]]
    BY <1>1, <2>2 DEF Flush, afate
  <2>4. Delivery!Accept(S)
    BY <1>1, <2>1, <2>2, <2>3 DEF Delivery!Accept, Flush, afate
  <2>. QED  BY <2>4 DEF Delivery!Next
<1>2. ASSUME NEW d \in todo, Refuse(d) PROVE Delivery!Next
  <2>1. /\ {d} \in SUBSET Docs /\ {d} \subseteq Open /\ stored' = stored
        /\ fate'[d] = "dropped"
        /\ \A e \in Docs \ {d} : fate'[e] = fate[e]
    BY <1>0, <1>2 DEF Refuse, Placed, Open, TypeOK
  <2>. QED  BY <1>0, <2>1, LoseStep
<1>3. ASSUME NEW r, NEW A \in SUBSET chunk, Post(r, A) PROVE Delivery!Next
  <2> DEFINE D == {d \in chunk : fate'[d] = "confirmed"}
             G == {d \in chunk : fate'[d] = "dropped"}
  <2>1. D \subseteq A /\ stored' = stored \cup A
    BY <1>0, <1>3, PostEffect
  <2>2. chunk \subseteq Docs /\ chunk \subseteq Open
    BY <1>0 DEF Placed, TypeOK, Open
  <2>3. \A d \in Docs \ (D \cup G) : fate'[d] = fate[d]
    BY <1>0, <1>3, <2>2, PostEffect DEF Open
  <2>4. /\ A \in SUBSET Docs /\ D \in SUBSET Docs /\ G \in SUBSET Docs
        /\ A \subseteq Open /\ D \subseteq Open /\ G \subseteq Open
        /\ \A d \in D : fate'[d] = "confirmed"
        /\ \A d \in G : fate'[d] = "dropped"
    BY <2>2
  <2>5. D \cap G = {}
    BY <2>4
  <2>. HIDE DEF D, G
  <2>. QED  BY <1>0, <2>1, <2>3, <2>4, <2>5, SettleStep
<1>4. CASE GiveUp
  <2>1. /\ retry \in SUBSET Docs /\ retry \subseteq Open /\ stored' = stored
        /\ \A d \in retry : fate'[d] = "exhausted"
        /\ \A d \in Docs \ retry : fate'[d] = fate[d]
    BY <1>0, <1>4 DEF Placed, TypeOK, Open, GiveUp
  <2>. QED  BY <1>0, <2>1, LoseStep
<1>5. CASE Return \/ Retry \/ UNCHANGED vars \/ \E d \in todo : Pack(d)
  BY <1>5, StaysSame DEF Return, Retry, Pack, vars
<1>6. CASE SendFull \/ SendLast
  BY <1>3, <1>6, SendIsPost
<1>. QED  BY <1>1, <1>2, <1>4, <1>5, <1>6 DEF Next, FlushSome, Work

\* ESWriter implements the safety part of DocDelivery, for any batches, sizes
\* and answers: what it counts as delivered is in the store, and no document is
\* settled twice.
THEOREM EsImplementsDelivery == Spec => Delivery!Safety
<1>1. Init => Delivery!Init
  BY DEF Init, Delivery!Init, afate
<1>2. IInv /\ [Next]_vars => [Delivery!Next]_<<afate, stored>>
  BY StepRefines
<1>. QED  BY <1>1, <1>2, EsInvariant, PTL DEF Spec, Delivery!Safety, afate

-----------------------------------------------------------------------------
(* Sums.  MapThenSumSet is a fold: a recursive function on the subsets of  *)
(* its argument, which takes the elements in the order of CHOOSE.  What is *)
(* proved of it here goes by minimal counterexamples, since the induction  *)
(* theorems of the library take operators.                                 *)

Chosen(s) == CHOOSE x \in s : TRUE

\* g is the recursive function the fold of f over S is made of.
IsFold(g, f, S) ==
  g = [s \in SUBSET S |-> IF s = {} THEN 0 ELSE f[Chosen(s)] + g[s \ {Chosen(s)}]]

Total(f, S) == MapThenSumSet(LAMBDA d : f[d], S)

\* What the definition says.
LEMMA TotalIsFold ==
  ASSUME NEW f, NEW S PROVE Total(f, S) = (CHOOSE g : IsFold(g, f, S))[S]
BY DEF Total, MapThenSumSet, MapThenFoldSet, IsFold, Chosen

\* Induction on the subsets of a finite set, for a set of them.
LEMMA SubsetInduction ==
  ASSUME NEW S, IsFiniteSet(S), NEW P,
         \A s \in SUBSET S : (\A u \in SUBSET s : u # s => u \in P) => s \in P
  PROVE  \A s \in SUBSET S : s \in P
<1>. DEFINE B == {s \in SUBSET S : s \notin P}
            R == StrictSubsetOrdering(S)
<1>1. SUFFICES ASSUME B # {} PROVE FALSE
  OBVIOUS
<1>2. IsWellFoundedOn(R, FiniteSubsetsOf(S))
  BY FS_StrictSubsetOrderingWellFounded
<1>3. B \subseteq FiniteSubsetsOf(S)
  BY FS_FiniteSubsetsOfFinite
<1>4. PICK s \in B : \A u \in B : ~(<<u, s>> \in R)
  <2>. HIDE DEF B, R
  <2>. QED  BY <1>1, <1>2, <1>3, WFMin
<1>5. ASSUME NEW u \in SUBSET s, u # s PROVE u \in P
  <2>1. u \in SUBSET S /\ s \in SUBSET S
    OBVIOUS
  <2>2. <<u, s>> \in R
    BY <1>5, <2>1 DEF StrictSubsetOrdering
  <2>. QED  BY <1>4, <2>1, <2>2
<1>. QED  BY <1>5

\* One element is taken from each non-empty set.
LEMMA ChosenIn == ASSUME NEW s, s # {} PROVE Chosen(s) \in s
BY DEF Chosen

\* The values of such functions do not depend on the set they are defined on.
LEMMA FoldUnique ==
  ASSUME NEW f, NEW S, NEW T, NEW g, NEW h, IsFiniteSet(S),
         IsFold(g, f, S), IsFold(h, f, T), S \subseteq T
  PROVE  \A s \in SUBSET S : g[s] = h[s]
<1>. DEFINE P == {s \in SUBSET S : g[s] = h[s]}
<1>1. ASSUME NEW s \in SUBSET S, \A u \in SUBSET s : u # s => u \in P PROVE s \in P
  <2>. DEFINE c == Chosen(s)
  <2>1. /\ g[s] = IF s = {} THEN 0 ELSE f[c] + g[s \ {c}]
        /\ h[s] = IF s = {} THEN 0 ELSE f[c] + h[s \ {c}]
    BY DEF IsFold
  <2>2. CASE s = {}
    BY <2>1, <2>2
  <2>3. CASE s # {}
    <3>1. s \ {c} \in SUBSET s /\ s \ {c} # s
      BY <2>3, ChosenIn
    <3>2. g[s \ {c}] = h[s \ {c}]
      BY <1>1, <3>1
    <3>. QED  BY <2>1, <2>3, <3>2
  <2>. QED  BY <2>2, <2>3
<1>2. \A s \in SUBSET S : s \in P
  <2>. HIDE DEF P
  <2>. QED  BY <1>1, SubsetInduction
<1>. QED  BY <1>2

\* There is such a function for each finite set.
LEMMA FoldExists ==
  ASSUME NEW f, NEW S, IsFiniteSet(S)
  PROVE  \A s \in SUBSET S : \E g : IsFold(g, f, s)
<1>. DEFINE P == {s \in SUBSET S : \E g : IsFold(g, f, s)}
<1>1. ASSUME NEW s \in SUBSET S, \A u \in SUBSET s : u # s => u \in P PROVE s \in P
  <2>. DEFINE F(u) == CHOOSE g : IsFold(g, f, u)
              G == [u \in SUBSET s |->
                      IF u = {} THEN 0 ELSE f[Chosen(u)] + F(u \ {Chosen(u)})[u \ {Chosen(u)}]]
  <2>1. ASSUME NEW u \in SUBSET s, u # s PROVE IsFold(F(u), f, u) /\ IsFiniteSet(u)
    <3>1. \E g : IsFold(g, f, u)
      BY <1>1, <2>1
    <3>2. IsFold(F(u), f, u)
      BY <3>1
    <3>. QED  BY <3>2, FS_Subset
  <2>2. ASSUME NEW u \in SUBSET s, u # s PROVE G[u] = F(u)[u]
    <3>. DEFINE c == Chosen(u)
    <3>1. IsFold(F(u), f, u)
      BY <2>1, <2>2
    <3>2. F(u)[u] = IF u = {} THEN 0 ELSE f[c] + F(u)[u \ {c}]
      <4>. HIDE DEF F
      <4>. QED  BY <3>1 DEF IsFold
    <3>3. CASE u = {}
      BY <3>2, <3>3
    <3>4. CASE u # {}
      <4>1. u \ {c} \in SUBSET s /\ u \ {c} # s /\ u \ {c} \subseteq u
        BY <3>4, ChosenIn
      <4>2. IsFold(F(u \ {c}), f, u \ {c}) /\ IsFiniteSet(u \ {c})
        BY <2>1, <4>1
      <4>3. F(u)[u \ {c}] = F(u \ {c})[u \ {c}]
        <5>. HIDE DEF F
        <5>. QED  BY <3>1, <4>1, <4>2, FoldUnique
      <4>4. G[u] = f[c] + F(u \ {c})[u \ {c}]
        <5>. HIDE DEF F
        <5>. QED  BY <3>4
      <4>. HIDE DEF F, G
      <4>. QED  BY <3>2, <3>4, <4>3, <4>4
    <3>. QED  BY <3>3, <3>4
  <2>3. ASSUME NEW u \in SUBSET s
        PROVE  G[u] = IF u = {} THEN 0 ELSE f[Chosen(u)] + G[u \ {Chosen(u)}]
    <3>1. CASE u = {}
      BY <3>1
    <3>2. CASE u # {}
      <4>1. u \ {Chosen(u)} \in SUBSET s /\ u \ {Chosen(u)} # s
        BY <3>2, ChosenIn
      <4>2. G[u] = f[Chosen(u)] + F(u \ {Chosen(u)})[u \ {Chosen(u)}]
        <5>. HIDE DEF F
        <5>. QED  BY <3>2
      <4>3. G[u \ {Chosen(u)}] = F(u \ {Chosen(u)})[u \ {Chosen(u)}]
        <5>. HIDE DEF F, G
        <5>. QED  BY <2>2, <4>1
      <4>. HIDE DEF F, G
      <4>. QED  BY <3>2, <4>2, <4>3
    <3>. QED  BY <3>1, <3>2
  <2>4. IsFold(G, f, s)
    <3>1. G = [u \in SUBSET s |-> G[u]]
      OBVIOUS
    <3>. HIDE DEF G
    <3>. QED  BY <2>3, <3>1 DEF IsFold
  <2>. QED  BY <2>4
<1>2. \A s \in SUBSET S : s \in P
  <2>. HIDE DEF P
  <2>. QED  BY <1>1, SubsetInduction
<1>. QED  BY <1>2

\* The sum over a set: nothing, or one element and the sum over the others.
LEMMA TotalStep ==
  ASSUME NEW f, NEW S, IsFiniteSet(S)
  PROVE  Total(f, S) = IF S = {} THEN 0 ELSE f[Chosen(S)] + Total(f, S \ {Chosen(S)})
<1>. DEFINE c == Chosen(S)
            g == CHOOSE q : IsFold(q, f, S)
            h == CHOOSE q : IsFold(q, f, S \ {c})
<1>1. IsFold(g, f, S) /\ IsFold(h, f, S \ {c})
  <2>1. (\E q : IsFold(q, f, S)) /\ (\E q : IsFold(q, f, S \ {c}))
    BY FoldExists
  <2>. QED  BY <2>1
<1>2. Total(f, S) = g[S] /\ Total(f, S \ {c}) = h[S \ {c}]
  BY TotalIsFold
<1>3. g[S] = IF S = {} THEN 0 ELSE f[c] + g[S \ {c}]
  <2>. HIDE DEF g
  <2>. QED  BY <1>1 DEF IsFold
<1>4. h[S \ {c}] = g[S \ {c}]
  <2>1. IsFiniteSet(S \ {c}) /\ S \ {c} \subseteq S
    BY FS_Subset
  <2>. HIDE DEF g, h
  <2>. QED  BY <1>1, <2>1, FoldUnique
<1>. HIDE DEF g, h
<1>. QED  BY <1>2, <1>3, <1>4

\* A sum of numbers is a number.
LEMMA TotalNat ==
  ASSUME NEW D, NEW f \in [D -> Nat], NEW S \in SUBSET D, IsFiniteSet(S)
  PROVE  \A s \in SUBSET S : Total(f, s) \in Nat
<1>. DEFINE P == {s \in SUBSET S : Total(f, s) \in Nat}
<1>1. ASSUME NEW s \in SUBSET S, \A u \in SUBSET s : u # s => u \in P PROVE s \in P
  <2>. DEFINE c == Chosen(s)
  <2>1. Total(f, s) = IF s = {} THEN 0 ELSE f[c] + Total(f, s \ {c})
    <3>1. IsFiniteSet(s)
      BY FS_Subset
    <3>. QED  BY <3>1, TotalStep
  <2>2. CASE s # {}
    <3>1. s \ {c} \in SUBSET s /\ s \ {c} # s /\ c \in D
      BY <2>2, ChosenIn
    <3>2. Total(f, s \ {c}) \in Nat
      BY <1>1, <3>1
    <3>. QED  BY <2>1, <2>2, <3>1, <3>2
  <2>. QED  BY <2>1, <2>2
<1>2. \A s \in SUBSET S : s \in P
  <2>. HIDE DEF P
  <2>. QED  BY <1>1, SubsetInduction
<1>. QED  BY <1>2

\* Any element may be taken out first.
LEMMA TotalRemove ==
  ASSUME NEW D, NEW f \in [D -> Nat], NEW S \in SUBSET D, IsFiniteSet(S)
  PROVE  \A s \in SUBSET S : \A x \in s : Total(f, s) = f[x] + Total(f, s \ {x})
<1>. DEFINE P == {s \in SUBSET S : \A x \in s : Total(f, s) = f[x] + Total(f, s \ {x})}
<1>1. ASSUME NEW s \in SUBSET S, \A u \in SUBSET s : u # s => u \in P PROVE s \in P
  <2>. SUFFICES ASSUME NEW x \in s PROVE Total(f, s) = f[x] + Total(f, s \ {x})
    OBVIOUS
  <2>. DEFINE c == Chosen(s)
              r == (s \ {c}) \ {x}
  <2>1. c \in s
    BY ChosenIn
  <2>2. Total(f, s) = f[c] + Total(f, s \ {c})
    <3>1. IsFiniteSet(s)
      BY FS_Subset
    <3>. QED  BY <3>1, TotalStep
  <2>3. CASE x = c
    BY <2>2, <2>3
  <2>4. CASE x # c
    <3>1. s \ {c} \in SUBSET s /\ s \ {c} # s /\ x \in s \ {c}
      BY <2>1, <2>4
    <3>2. s \ {x} \in SUBSET s /\ s \ {x} # s /\ c \in s \ {x}
      BY <2>1, <2>4
    <3>3. Total(f, s \ {c}) = f[x] + Total(f, r)
      BY <1>1, <3>1
    <3>4. Total(f, s \ {x}) = f[c] + Total(f, r)
      <4>1. (s \ {x}) \ {c} = r
        OBVIOUS
      <4>2. Total(f, s \ {x}) = f[c] + Total(f, (s \ {x}) \ {c})
        BY <1>1, <3>2
      <4>. QED  BY <4>1, <4>2
    <3>5. f[x] \in Nat /\ f[c] \in Nat /\ Total(f, r) \in Nat
      <4>1. r \in SUBSET S /\ x \in D /\ c \in D
        BY <2>1
      <4>. HIDE DEF r, c
      <4>. QED  BY <4>1, TotalNat
    <3>. HIDE DEF c, r
    <3>. QED  BY <2>2, <3>3, <3>4, <3>5
  <2>. QED  BY <2>3, <2>4
<1>2. \A s \in SUBSET S : s \in P
  <2>. HIDE DEF P
  <2>. QED  BY <1>1, SubsetInduction
<1>. QED  BY <1>2

\* One more element adds its value.
LEMMA TotalAdd ==
  ASSUME NEW D, NEW f \in [D -> Nat], NEW S \in SUBSET D, IsFiniteSet(S),
         NEW x \in D, x \notin S
  PROVE  Total(f, S \cup {x}) = Total(f, S) + f[x]
<1>. DEFINE U == S \cup {x}
<1>1. IsFiniteSet(U) /\ U \in SUBSET D /\ x \in U /\ U \ {x} = S
  BY FS_AddElement
<1>. HIDE DEF U
<1>2. Total(f, U) = f[x] + Total(f, U \ {x})
  BY <1>1, TotalRemove
<1>3. f[x] \in Nat /\ Total(f, S) \in Nat
  BY TotalNat
<1>4. Total(f, U) = f[x] + Total(f, S)
  BY <1>1, <1>2, Zenon
<1>5. Total(f, U) = Total(f, S) + f[x]
  BY <1>3, <1>4
<1>. QED  BY <1>5 DEF U

-----------------------------------------------------------------------------
(* The bytes of a request.                                                 *)

\* chunk_bytes is the sum of the sizes in the chunk.
Summed == IsFiniteSet(chunk) /\ bytes = Total(size, chunk)

\* Nothing is no bytes.
LEMMA EmptyTotal == ASSUME NEW f PROVE IsFiniteSet({}) /\ Total(f, {}) = 0
BY FS_EmptySet, TotalStep

\* A chunk starts empty with no bytes, and a document that is packed brings its
\* size: it was in todo, so it is not in the chunk yet.
LEMMA SummedStep == IInv /\ Summed /\ [Next]_vars => Summed'
<1>. SUFFICES ASSUME IInv, Summed, [Next]_vars PROVE Summed'
  OBVIOUS
<1>1. CASE chunk' = {} /\ bytes' = 0
  BY <1>1, EmptyTotal DEF Summed
<1>2. CASE chunk' = chunk /\ bytes' = bytes /\ size' = size
  BY <1>2 DEF Summed
<1>3. ASSUME NEW d \in todo, Pack(d) PROVE Summed'
  <2>1. /\ size \in [Docs -> Nat] /\ chunk \in SUBSET Docs /\ IsFiniteSet(chunk)
        /\ d \in Docs /\ d \notin chunk
    BY SizesNat DEF IInv, TypeOK, Placed, Summed
  <2>2. Total(size, chunk \cup {d}) = Total(size, chunk) + size[d]
    BY <2>1, TotalAdd
  <2>3. IsFiniteSet(chunk \cup {d})
    BY <2>1, FS_AddElement
  <2>4. chunk' = chunk \cup {d} /\ bytes' = bytes + size[d] /\ size' = size
    BY <1>3 DEF Pack
  <2>5. Total(size', chunk') = Total(size, chunk \cup {d})
    BY <2>4
  <2>. QED  BY <2>2, <2>3, <2>4, <2>5 DEF Summed
<1>4. ASSUME NEW r, NEW A \in SUBSET chunk, Post(r, A)
      PROVE  chunk' = {} /\ bytes' = 0
  BY <1>4 DEF Post
<1>5. CASE SendFull \/ SendLast
  BY <1>1, <1>4, <1>5, SendIsPost
<1>6. CASE FlushSome
  BY <1>1, <1>6 DEF FlushSome, Flush
<1>7. ASSUME NEW d \in todo, Refuse(d) PROVE Summed'
  BY <1>2, <1>7 DEF Refuse, chunkVars
<1>8. CASE Return \/ Retry \/ GiveUp \/ UNCHANGED vars
  BY <1>2, <1>8 DEF Return, Retry, GiveUp, vars, chunkVars
<1>. QED  BY <1>3, <1>5, <1>6, <1>7, <1>8 DEF Next, Work

\* The documents of a request never add up to more than max_bulk_bytes, in a
\* retry round as in the flush, and send_documents is never called without
\* documents.
THEOREM EsRequestWithinLimit == Spec => []RequestWithinLimit
<1>1. Init => Summed
  BY EmptyTotal DEF Init, Summed
<1>2. Spec => []Summed
  BY <1>1, SummedStep, EsInvariant, PTL DEF Spec
<1>3. IInv /\ Summed /\ RequestCounted => RequestWithinLimit
  <2>1. Total(size, chunk) = MapThenSumSet(LAMBDA d : size[d], chunk)
    BY DEF Total
  <2>. QED  BY <2>1 DEF IInv, Measured, Summed, RequestCounted, RequestWithinLimit
<1>. QED  BY <1>2, <1>3, EsInvariant, EsRequestCounted, PTL

-----------------------------------------------------------------------------
(* What is settled stays settled.                                          *)

Settled == {"confirmed", "dropped", "exhausted"}

\* A document counts as delivered only when Elasticsearch has it.
ConfirmedStored == \A d \in Docs : fate[d] = "confirmed" => d \in stored

\* The only steps that change the fate of a document: it is taken into a batch,
\* refused, answered, or given up; and what is stored stays stored.
LEMMA FateStep ==
  ASSUME IInv, [Next]_vars, NEW d \in Docs
  PROVE  /\ stored \subseteq stored'
         /\ \/ fate'[d] = fate[d]
            \/ fate[d] = "waiting" /\ fate'[d] = "open"
            \/ fate[d] = "open" /\ fate'[d] \in {"dropped", "exhausted"}
            \/ fate[d] = "open" /\ fate'[d] = "confirmed" /\ d \in stored'
<1>. DEFINE Goal ==
         /\ stored \subseteq stored'
         /\ \/ fate'[d] = fate[d]
            \/ fate[d] = "waiting" /\ fate'[d] = "open"
            \/ fate[d] = "open" /\ fate'[d] \in {"dropped", "exhausted"}
            \/ fate[d] = "open" /\ fate'[d] = "confirmed" /\ d \in stored'
<1>. SUFFICES Goal
  OBVIOUS
<1>0. TypeOK /\ Placed
  BY DEF IInv
<1>1. ASSUME NEW S \in SUBSET Docs, Flush(S) PROVE Goal
  BY <1>1 DEF Flush
<1>2. ASSUME NEW e \in todo, Refuse(e) PROVE Goal
  <2>1. fate[e] = "open" /\ stored' = stored /\ fate' = [fate EXCEPT ![e] = "dropped"]
    BY <1>0, <1>2 DEF Refuse, TypeOK, Placed
  <2>. QED  BY <1>0, <2>1 DEF TypeOK
<1>3. ASSUME NEW r, NEW A \in SUBSET chunk, Post(r, A) PROVE Goal
  <2>1. stored' = stored \cup A
    BY <1>0, <1>3, PostEffect
  <2>2. CASE d \in chunk
    <3>1. fate[d] = "open"
      BY <1>0, <2>2 DEF Placed
    <3>2. \/ fate'[d] = "confirmed" /\ d \in A
          \/ fate'[d] = "dropped" \/ fate'[d] = "open"
      BY <1>0, <1>3, <2>2, PostEffect
    <3>. QED  BY <2>1, <3>1, <3>2
  <2>3. CASE d \notin chunk
    <3>1. fate'[d] = fate[d]
      BY <1>0, <1>3, <2>3, PostEffect
    <3>. QED  BY <2>1, <3>1
  <2>. QED  BY <2>2, <2>3
<1>4. CASE SendFull \/ SendLast
  <2>. HIDE DEF Goal
  <2>. QED  BY <1>3, <1>4, SendIsPost
<1>5. CASE GiveUp
  <2>1. stored' = stored /\ fate'[d] = IF d \in retry THEN "exhausted" ELSE fate[d]
    BY <1>5 DEF GiveUp
  <2>2. d \in retry => fate[d] = "open"
    BY <1>0 DEF Placed
  <2>. QED  BY <2>1, <2>2
<1>6. CASE Return \/ Retry \/ (\E e \in todo : Pack(e)) \/ UNCHANGED vars
  BY <1>6 DEF Return, Retry, Pack, vars
<1>7. FlushSome => \E S \in SUBSET Docs : Flush(S)
  BY DEF FlushSome
<1>. HIDE DEF Goal
<1>. QED  BY <1>1, <1>2, <1>4, <1>5, <1>6, <1>7 DEF Next, Work

\* Whatever the answers were, a document that counts as delivered is in the
\* store.
THEOREM EsConfirmedStored == Spec => []ConfirmedStored
<1>1. Init => ConfirmedStored
  BY DEF Init, ConfirmedStored
<1>2. IInv /\ ConfirmedStored /\ [Next]_vars => ConfirmedStored'
  BY FateStep DEF ConfirmedStored
<1>. QED  BY <1>1, <1>2, EsInvariant, PTL DEF Spec

\* The fate of a document is final: confirmed, dropped or given up, it stays so
\* through every later batch and retry round.
THEOREM EsFateFinal ==
  Spec => [][\A d \in Docs : fate[d] \in Settled => fate'[d] = fate[d]]_vars
<1>1. IInv /\ [Next]_vars
        => [\A d \in Docs : fate[d] \in Settled => fate'[d] = fate[d]]_vars
  BY FateStep DEF Settled
<1>. QED  BY <1>1, EsInvariant, PTL DEF Spec
=============================================================================
