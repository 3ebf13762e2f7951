----------------------------- MODULE MCIngestion -----------------------------
(* Small instances of Ingestion for TLC.                                   *)
EXTENDS Ingestion, TLC

INSTANCE WebhookPayload

CONSTANTS m1, m2, m3, m4, m5, s1, s2, o1, r1, r2, r3

RequestSymmetry == Permutations(Requests)

MCSenderOf == [m \in Messages |-> IF m \in {m1, m4} THEN s1 ELSE s2]

(* Two batches from the same two new leads in opposite order, both with    *)
(* receipts for one message, one with a message nobody can route; the      *)
(* first in two changes, with a status nobody knows, one of no message and *)
(* a malformed message between. A third batch, with m1 again, is broken    *)
(* and only ever refused.                                                  *)
CrossedPayloads ==
  [b1 |-> <<[statuses |-> <<[id |-> o1, status |-> "read"], [id |-> o1, status |-> "deleted"]>>,
             messages |-> <<[id |-> m1, malformed |-> FALSE], [id |-> m5, malformed |-> TRUE]>>,
             broken |-> FALSE],
            [statuses |-> <<[id |-> None, status |-> "failed"], [id |-> o1, status |-> "sent"]>>,
             messages |-> <<[id |-> m2, malformed |-> FALSE]>>, broken |-> FALSE]>>,
   b2 |-> <<[statuses |-> <<[id |-> o1, status |-> "delivered"]>>,
             messages |-> <<[id |-> m5, malformed |-> FALSE], [id |-> m3, malformed |-> FALSE],
                            [id |-> m4, malformed |-> FALSE]>>, broken |-> FALSE]>>,
   b3 |-> <<[statuses |-> <<>>, messages |-> <<[id |-> m1, malformed |-> FALSE]>>,
             broken |-> FALSE],
            [statuses |-> <<>>, messages |-> <<>>, broken |-> TRUE]>>]

ASSUME PayloadAssumption ==
  /\ CrossedPayloads \in [{"b1", "b2", "b3"} -> Seq(Change)]
  /\ Batches = {b \in DOMAIN CrossedPayloads : Parses(CrossedPayloads[b])}

CrossedContents == [b \in Batches |-> parse_webhook(CrossedPayloads[b])]
=============================================================================
