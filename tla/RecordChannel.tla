---------------------------- MODULE RecordChannel ----------------------------
(***************************************************************************)
(* What a writer promises to the collectors that hand it records: every    *)
(* record it accepts reaches the sink exactly once, in the order of        *)
(* acceptance and in batches; after it is closed it accepts nothing more,  *)
(* and the sink is closed only when everything accepted was delivered.     *)
(***************************************************************************)
EXTENDS Naturals, Sequences

CONSTANT Record

VARIABLES
  accepted,    \* records taken in, in order
  delivered,   \* records handed to the sink, in order
  closed,      \* no more records are taken in
  finished     \* the sink was closed

vars == <<accepted, delivered, closed, finished>>

Init ==
  /\ accepted = <<>>
  /\ delivered = <<>>
  /\ closed = FALSE
  /\ finished = FALSE

Accept(r) ==
  /\ ~closed
  /\ accepted' = Append(accepted, r)
  /\ UNCHANGED <<delivered, closed, finished>>

\* The next batch, of one record or more.
Deliver ==
  /\ ~finished
  /\ \E n \in Len(delivered) + 1 .. Len(accepted) :
       delivered' = SubSeq(accepted, 1, n)
  /\ UNCHANGED <<accepted, closed, finished>>

Close ==
  /\ ~closed
  /\ closed' = TRUE
  /\ UNCHANGED <<accepted, delivered, finished>>

Finish ==
  /\ closed /\ ~finished
  /\ delivered = accepted
  /\ finished' = TRUE
  /\ UNCHANGED <<accepted, delivered, closed>>

Next ==
  \/ \E r \in Record : Accept(r)
  \/ Deliver
  \/ Close
  \/ Finish

Spec == Init /\ [][Next]_vars

\* Whatever is accepted is delivered in the end, and a close completes.
FairSpec == Spec /\ WF_vars(Deliver) /\ WF_vars(Finish)
=============================================================================
