------------------------------- MODULE EsBulk -------------------------------
(***************************************************************************)
(* The bulk requests of ESWriter (es_writer.cpp, es_writer_retry.cpp): the *)
(* flush thread builds a document per record, packs documents into         *)
(* requests of at most MaxBulkBytes, reads the answer document by          *)
(* document, and sends those whose failure may pass again, in rounds.      *)
(*                                                                         *)
(* flush_impl and the rounds of on_flush_error are one loop here: round 0  *)
(* is the flush.  A step is one turn of the loop over the documents, or    *)
(* one request with its answer.  Documents are numbered in the order of    *)
(* their records.  All lists of the code hold them in that order, so a     *)
(* list is a set.  Backoff times are left out (the rounds never depend on  *)
(* them), and so are index names and document texts, but for their sizes.  *)
(***************************************************************************)
EXTENDS Integers, FiniteSetsExt

CONSTANTS
  Docs,           \* numbers of the documents
  Sizes,          \* their sizes in bytes; 0: cannot be built (parser, exception)
  MaxBulkBytes,   \* opt_.max_bulk_bytes
  MaxRetries,     \* opt_.max_retries
  Word,           \* one more than the largest std::size_t
  Transports,     \* results of curl_easy_perform
  HttpStatus,     \* status codes of an answer
  ItemStatus      \* status codes of its items

ASSUME BulkAssumption ==
  /\ Docs \subseteq Nat
  /\ Sizes \subseteq 0 .. Word - 1
  /\ MaxBulkBytes \in Nat \ {0} /\ Word \in Nat /\ MaxBulkBytes < Word
  /\ MaxRetries \in Nat

VARIABLES
  size,     \* the documents' sizes
  batch,    \* the documents of the flush under way
  fate,     \* history: what became of each document
  sends,    \* history: the requests it was in
  stored,   \* documents in Elasticsearch, by _id: writing one again replaces it
  busy,     \* a flush is under way
  round,    \* 0: flush_impl; otherwise on_flush_error's attempt
  todo,     \* what the loop has not reached: the batch, or pending
  chunk,    \* chunk
  bytes,    \* chunk_bytes, bytes
  retry,    \* retry_documents_
  ok        \* flush_ret

loopVars == <<busy, round, todo>>
chunkVars == <<chunk, bytes>>
vars == <<size, batch, fate, sends, stored, loopVars, chunkVars, retry, ok>>

Open == {d \in Docs : fate[d] = "open"}

-----------------------------------------------------------------------------
(* Faults for the mutants.                                                 *)

BuiltIsEnough(d) == size[d] = 0
OneMoreRound == round <= MaxRetries /\ retry # {}
OnlyFlagCounts(r) == ~r.errors
WholeRequest(r) == IF r.errors THEN chunk ELSE {}

\* 2xx taken for success whatever else the item says.
AnySuccessStatus(i) ==
  IF i.status \in 200 .. 299 THEN "done"
  ELSE IF i.status \in {408, 429, 500, 502, 503, 504} THEN "retry" ELSE "drop"

-----------------------------------------------------------------------------
(* Reading an answer.                                                      *)

retryable_status(s) == s \in {408, 429, 500, 502, 503, 504}

retryable_transport(c) ==
  c \in {"COULDNT_RESOLVE", "COULDNT_CONNECT", "OPERATION_TIMEDOUT",
         "SEND_ERROR", "RECV_ERROR", "GOT_NOTHING", "PARTIAL_FILE"}

\* An answer.  items: the array matches the request one by one.
Items == [wellFormed : BOOLEAN, status : ItemStatus, error : BOOLEAN]
Answer(c, s, v, e, i) ==
  [transport |-> c, status |-> s, valid |-> v, errors |-> e, items |-> i]

Accepted(r) == r.transport = "OK" /\ r.status \in {200, 201}

ItemVerdict(i) ==
  IF ~i.wellFormed THEN "retry"
  ELSE IF i.status \in {200, 201} /\ ~i.error THEN "done"
  ELSE IF i.status \in 200 .. 299 THEN "retry"
  ELSE IF retryable_status(i.status) THEN "retry" ELSE "drop"

\* What send_documents does with document d of the request.
Verdict(r, d) ==
  IF ~Accepted(r)
  THEN IF \/ r.transport # "OK" /\ retryable_transport(r.transport)
          \/ r.transport = "OK" /\ retryable_status(r.status)
       THEN "retry" ELSE "drop"
  ELSE IF ~r.valid THEN "retry" ELSE ItemVerdict(r.items[d])

\* What it returns.
Success(r) ==
  Accepted(r) /\ r.valid /\ ~r.errors /\ \A d \in chunk : Verdict(r, d) = "done"

\* What it adds to retry_documents_.
ToRetry(r) == {d \in chunk : Verdict(r, d) = "retry"}

-----------------------------------------------------------------------------
(* Building and packing.                                                   *)

Init ==
  /\ size \in [Docs -> Sizes]
  /\ batch = {}
  /\ fate = [d \in Docs |-> "waiting"]
  /\ sends = [d \in Docs |-> 0]
  /\ stored = {}
  /\ busy = FALSE /\ round = 0 /\ todo = {}
  /\ chunk = {} /\ bytes = 0
  /\ retry = {} /\ ok = TRUE

\* flush_impl is called with the records of S, the next ones.
Flush(S) ==
  /\ ~busy
  /\ S # {}
  /\ \A d \in S : /\ fate[d] = "waiting"
                  /\ \A e \in Docs : e < d => e \in S \/ fate[e] # "waiting"
  /\ batch' = S
  /\ fate' = [d \in Docs |-> IF d \in S THEN "open" ELSE fate[d]]
  /\ busy' = TRUE /\ round' = 0 /\ todo' = S
  /\ chunk' = {} /\ bytes' = 0
  /\ retry' = {} /\ ok' = TRUE
  /\ UNCHANGED <<size, sends, stored>>

IsNext(d) == d \in todo /\ \A e \in todo : d <= e

\* Dropped before it is sent: not built, or longer than a request may be.
Unsendable(d) == size[d] = 0 \/ size[d] > MaxBulkBytes

Refuse(d) ==
  /\ IsNext(d) /\ round = 0 /\ Unsendable(d)
  /\ fate' = [fate EXCEPT ![d] = "dropped"]
  /\ todo' = todo \ {d}
  /\ ok' = FALSE
  /\ UNCHANGED <<size, batch, sends, stored, busy, round, chunkVars, retry>>

\* max_bulk_bytes - document.size(), an unsigned difference.
Room(d) ==
  IF size[d] <= MaxBulkBytes THEN MaxBulkBytes - size[d]
  ELSE Word + MaxBulkBytes - size[d]

Fits(d) == bytes <= Room(d)

Pack(d) ==
  /\ IsNext(d) /\ ~(round = 0 /\ Unsendable(d)) /\ Fits(d)
  /\ chunk' = chunk \cup {d}
  /\ bytes' = bytes + size[d]
  /\ todo' = todo \ {d}
  /\ UNCHANGED <<size, batch, fate, sends, stored, busy, round, retry, ok>>

-----------------------------------------------------------------------------
(* Sending.                                                                *)

\* An item that reports success is the truth about its document.
Created(i) == i.wellFormed /\ i.status \in {200, 201} /\ ~i.error

\* send_documents(chunk), answered by r, after which the server has the
\* documents of A.
Post(r, A) ==
  /\ Accepted(r) /\ r.valid => \A d \in chunk : Created(r.items[d]) => d \in A
  /\ fate' = [d \in Docs |->
                IF d \notin chunk THEN fate[d]
                ELSE CASE Verdict(r, d) = "done" -> "confirmed"
                       [] Verdict(r, d) = "drop" -> "dropped"
                       [] OTHER -> fate[d]]
  /\ sends' = [d \in Docs |-> sends[d] + (IF d \in chunk THEN 1 ELSE 0)]
  /\ stored' = stored \cup A
  /\ retry' = retry \cup ToRetry(r)
  /\ ok' = (ok /\ Success(r))
  /\ chunk' = {} /\ bytes' = 0
  /\ UNCHANGED <<size, batch, loopVars>>

NoItems == [d \in chunk |-> [wellFormed |-> FALSE, status |-> 0, error |-> TRUE]]

Send ==
  \E A \in SUBSET chunk :
    \/ \E c \in Transports \ {"OK"} : Post(Answer(c, 0, FALSE, TRUE, NoItems), A)
    \/ \E s \in HttpStatus : Post(Answer("OK", s, FALSE, TRUE, NoItems), A)
    \/ \E i \in [chunk -> Items], e \in BOOLEAN : Post(Answer("OK", 200, TRUE, e, i), A)

\* The next document would make the request too long.
SendFull ==
  /\ \E d \in todo : IsNext(d) /\ ~(round = 0 /\ Unsendable(d)) /\ ~Fits(d)
  /\ Send

SendLast ==
  /\ busy /\ todo = {} /\ chunk # {}
  /\ Send

-----------------------------------------------------------------------------
(* The end of a round.                                                     *)

RoundOver == busy /\ todo = {} /\ chunk = {}

\* flush_impl returns true.
Return ==
  /\ RoundOver /\ round = 0 /\ ok
  /\ busy' = FALSE /\ batch' = {}
  /\ UNCHANGED <<size, fate, sends, stored, round, todo, chunkVars, retry, ok>>

MayRetry == round < MaxRetries /\ retry # {}

\* on_flush_error: the first attempt or the next one.
Retry ==
  /\ RoundOver /\ ~(round = 0 /\ ok) /\ MayRetry
  /\ round' = round + 1
  /\ todo' = retry
  /\ retry' = {}
  /\ UNCHANGED <<size, batch, fate, sends, stored, busy, chunkVars, ok>>

\* on_flush_error is over: what is left is logged and discarded.
GiveUp ==
  /\ RoundOver /\ ~(round = 0 /\ ok) /\ ~MayRetry
  /\ fate' = [d \in Docs |-> IF d \in retry THEN "exhausted" ELSE fate[d]]
  /\ retry' = {}
  /\ busy' = FALSE /\ batch' = {}
  /\ UNCHANGED <<size, sends, stored, round, todo, chunkVars, ok>>

FlushSome == \E S \in SUBSET Docs : Flush(S)
Work ==
  \/ \E d \in todo : Refuse(d) \/ Pack(d)
  \/ SendFull \/ SendLast \/ Return \/ Retry \/ GiveUp

Next == FlushSome \/ Work

Spec == Init /\ [][Next]_vars

\* The flush thread runs, and a request returns (CURLOPT_TIMEOUT).
FairSpec == Spec /\ WF_vars(Work)

-----------------------------------------------------------------------------
TypeOK ==
  /\ size \in [Docs -> Sizes] /\ batch \subseteq Docs
  /\ fate \in [Docs -> {"waiting", "open", "confirmed", "dropped", "exhausted"}]
  /\ sends \in [Docs -> Nat]
  /\ stored \subseteq Docs
  /\ busy \in BOOLEAN /\ round \in 0 .. MaxRetries
  /\ todo \subseteq Docs /\ chunk \subseteq Docs /\ retry \subseteq Docs
  /\ bytes \in Nat
  /\ ok \in BOOLEAN

\* "each document is sent at most 1 + max_retries times"
\* (doc/configuration.md:271), in whatever requests the rounds put it.
SentAtMost == \A d \in Docs : sends[d] <= 1 + MaxRetries

\* A document whose fate is known (confirmed, dropped or exhausted) is never in
\* a request again, even when other documents of its requests failed.
NeverResent ==
  [][\A d \in Docs : sends'[d] # sends[d] => fate[d] = "open"]_vars

\* What goes out is never empty and never longer than max_bulk_bytes, in a
\* retry round as in the flush.
RequestWithinLimit ==
  /\ MapThenSumSet(LAMBDA d : size[d], chunk) <= MaxBulkBytes
  /\ \A d \in todo : IsNext(d) /\ ~(round = 0 /\ Unsendable(d)) /\ ~Fits(d)
                     => chunk # {}

\* When flush_impl returns true, the server has confirmed every document of
\* the batch: none was refused, dropped, or left to retry, and none is missing
\* from the store.  BaseWriter then skips on_flush_error and forgets the batch.
TrueMeansDelivered ==
  RoundOver /\ round = 0 /\ ok =>
    \A d \in batch : fate[d] = "confirmed" /\ d \in stored

\* The writer's promise about each document, eventual settlement included.
Delivery == INSTANCE DocDelivery WITH
  fate <- [d \in Docs |-> CASE fate[d] = "confirmed" -> "delivered"
                            [] fate[d] \in {"dropped", "exhausted"} -> "givenUp"
                            [] OTHER -> fate[d]]

\* ESWriter implements DocDelivery: nothing is settled twice, nothing counts as
\* delivered that is not in the store, no batch is left unsettled.
ImplementsDelivery == Delivery!Spec
=============================================================================
