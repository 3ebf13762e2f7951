---------------------------- MODULE DurableInbox ----------------------------
(***************************************************************************)
(* What the inbound queue promises the webhook: a message it accepted      *)
(* waits until it is settled (its turn committed, or refused as over the   *)
(* rate limit) or kept as a dead letter. It never stops waiting for any    *)
(* other reason, except that an expendable message, one no worker can      *)
(* parse, may be dropped. Every accepted message stops waiting eventually. *)
(***************************************************************************)
CONSTANTS Messages, Expendable

VARIABLES accepted, waiting, settled, dead

inboxVars == <<accepted, waiting, settled, dead>>

InboxInit == accepted = {} /\ waiting = {} /\ settled = {} /\ dead = {}

Accept(m) ==
  /\ m \notin accepted
  /\ accepted' = accepted \cup {m}
  /\ waiting' = waiting \cup {m}
  /\ UNCHANGED <<settled, dead>>

(* Delivery is at least once: a message already accepted may come back.    *)
Requeue(m) ==
  /\ m \in accepted
  /\ waiting' = waiting \cup {m}
  /\ UNCHANGED <<accepted, settled, dead>>

Settle(m) ==
  /\ m \in accepted
  /\ settled' = settled \cup {m}
  /\ UNCHANGED <<accepted, waiting, dead>>

DeadLetter(m) ==
  /\ m \in accepted
  /\ dead' = dead \cup {m}
  /\ UNCHANGED <<accepted, waiting, settled>>

Done(m) == m \in settled \cup dead \cup Expendable

Retire(m) ==
  /\ m \in waiting
  /\ Done(m)
  /\ waiting' = waiting \ {m}
  /\ UNCHANGED <<accepted, settled, dead>>

InboxNext ==
  \E m \in Messages :
    Accept(m) \/ Requeue(m) \/ Settle(m) \/ DeadLetter(m) \/ Retire(m)

InboxSafety == InboxInit /\ [][InboxNext]_inboxVars

(* A waiting message is worked on until it is done, and then retired.      *)
Resolve(m) == m \in waiting /\ ~Done(m) /\ (Settle(m) \/ DeadLetter(m))

InboxSpec ==
  /\ InboxSafety
  /\ \A m \in Messages : WF_inboxVars(Resolve(m)) /\ WF_inboxVars(Retire(m))
=============================================================================
