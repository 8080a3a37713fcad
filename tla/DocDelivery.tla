---------------------------- MODULE DocDelivery ----------------------------
(***************************************************************************)
(* What the Elasticsearch writer promises of its documents (Failure        *)
(* handling in doc/configuration.md): each one is settled once, as         *)
(* delivered or as given up; a delivered one is in the store, a given up   *)
(* one may be (delivery unknown); the next batch is taken when the last    *)
(* one is settled, and every batch is.                                     *)
(***************************************************************************)
CONSTANT Docs

VARIABLES fate, stored

Open == {d \in Docs : fate[d] = "open"}

Init ==
  /\ fate = [d \in Docs |-> "waiting"]
  /\ stored = {}

Accept(S) ==
  /\ Open = {}
  /\ S # {} /\ \A d \in S : fate[d] = "waiting"
  /\ fate' = [d \in Docs |-> IF d \in S THEN "open" ELSE fate[d]]
  /\ UNCHANGED stored

\* The store takes documents A; the writer learns that D are there and gives
\* up G.
Settle(A, D, G) ==
  /\ A \cup D \cup G \subseteq Open
  /\ D \cap G = {}
  /\ stored' = stored \cup A
  /\ D \subseteq stored'
  /\ fate' = [d \in Docs |-> IF d \in D THEN "delivered"
                             ELSE IF d \in G THEN "givenUp" ELSE fate[d]]

Next ==
  \/ \E S \in SUBSET Docs : Accept(S)
  \/ \E A, D, G \in SUBSET Docs : Settle(A, D, G)

Safety == Init /\ [][Next]_<<fate, stored>>

\* No accepted document waits for its fate for ever.
Settled == \A d \in Docs : fate[d] = "open" ~> fate[d] \in {"delivered", "givenUp"}

Spec == Safety /\ Settled
=============================================================================
