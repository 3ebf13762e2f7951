--------------------------- MODULE WebhookPayload ---------------------------
(***************************************************************************)
(* channels/whatsapp_payload.py: what the webhook finds in a delivery.     *)
(***************************************************************************)
EXTENDS Integers, Sequences
LOCAL INSTANCE SequencesExt

CONSTANTS
  Messages,  \* the inbound messages Meta may name
  Sent,      \* our outbound messages, which receipts are about
  None       \* a receipt that names no message

(* A change lists statuses, of which we know some by name, and messages.   *)
(* A malformed message is one that lacks a key or has a value of the wrong *)
(* type where parse_webhook expects that. A broken change has an entry     *)
(* that raises something else: a text that is null, a message or a status  *)
(* that is no object, a timestamp out of range. Meta gives every message   *)
(* an id; without one claim_inbound could not know it again.               *)
STATUS_MAP == [sent |-> "SENT", delivered |-> "DELIVERED", read |-> "READ", failed |-> "FAILED"]
Change == [statuses : Seq([id : Sent \cup {None}, status : STRING]),
           messages : Seq([id : Messages, malformed : BOOLEAN]),
           broken : BOOLEAN]

(* One broken change makes parse_webhook raise, and the request that       *)
(* carries it fails before it has done anything: Ingestion's Refuse.       *)
Parses(payload) == \A i \in DOMAIN payload : ~payload[i].broken

(* Any other payload: all changes in order, without what is malformed or   *)
(* unknown.                                                                *)
parse_webhook(payload) ==
  LET Flat(Part(_)) == FoldLeft(LAMBDA acc, c : acc \o Part(c), <<>>, payload)
      statuses == SelectSeq(Flat(LAMBDA c : c.statuses),
                            LAMBDA s : s.status \in DOMAIN STATUS_MAP /\ s.id # None)
      messages == SelectSeq(Flat(LAMBDA c : c.messages), LAMBDA m : ~m.malformed)
  IN  [receipts |-> [i \in DOMAIN statuses |->
                       [to |-> statuses[i].id, status |-> STATUS_MAP[statuses[i].status]]],
       messages |-> [i \in DOMAIN messages |-> messages[i].id]]
=============================================================================
