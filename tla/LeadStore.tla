------------------------------ MODULE LeadStore ------------------------------
(***************************************************************************)
(* One lead's rows in Postgres, the SQLAlchemy sessions that work on them, *)
(* and the follow-up rules of services/followups.py every session shares.  *)
(*                                                                         *)
(* Sessions run READ COMMITTED with autoflush off. A session remembers a   *)
(* row as it first read it; it writes back only the columns it changed,    *)
(* locking each changed row from its first flush to the end of the         *)
(* transaction; nobody else sees anything before the commit.               *)
(***************************************************************************)
EXTENDS Integers, Sequences, FiniteSets, OptOut, Attributes

CONSTANTS
  Turns,           \* workers that may run a turn of this lead
  Desks,           \* dashboard requests of the agent
  Passes,          \* follow-up workers
  Messages,        \* how many messages the lead sends, in this order
  Texts,           \* what each of them may say
  MaxTools,        \* the most tools it calls in a turn
  max_attempts,    \* the cap on nudges
  MAX_ATTEMPTS,    \* attempts the inbound queue gives a turn
  MaxDesk,         \* bound on dashboard actions
  MaxFaults,       \* bound on follow-up passes rolled back
  PassesRaise      \* whether a pass can fail for anything but a deadlock

ASSUME LeadStoreAssumption ==
  /\ Turns \cap Desks = {} /\ Turns \cap Passes = {} /\ Desks \cap Passes = {}
  /\ IsFiniteSet(Desks) /\ IsFiniteSet(Passes)
  /\ Messages \in Nat
  /\ Texts \in [1..Messages -> SUBSET Seq(Word)]
  /\ MaxTools \in Nat
  /\ max_attempts \in Nat
  /\ MAX_ATTEMPTS \in Nat \ {0}
  /\ MaxDesk \in Nat
  /\ MaxFaults \in Nat
  /\ PassesRaise \in BOOLEAN

Sessions == Turns \cup Desks \cup Passes

VARIABLES
  lead,      \* the committed lead row
  convs,     \* the status of its conversations, oldest first
  tasks,     \* its follow-up tasks, oldest first
  session,   \* every database session
  inbox,     \* where each message of the lead is
  nudges,    \* nudges that went out
  undone,    \* of those, the ones whose transaction was rolled back
  late,      \* nudges and dashboard messages that went out after a committed opt-out
  deskUsed,  \* dashboard actions so far
  faults     \* follow-up passes rolled back

vars == <<lead, convs, tasks, session, inbox, nudges, undone, late, deskUsed, faults>>

LeadStatus == {"NEW", "ENGAGED", "QUALIFIED", "BOOKED", "HANDED_OFF", "OPTED_OUT"}
ConversationStatus == {"ACTIVE", "HUMAN_TAKEOVER", "CLOSED"}
FollowUpStatus == {"SCHEDULED", "SENT", "SKIPPED", "CANCELLED", "FAILED"}

(* last_inbound is the number of the message last_inbound_at stems from,   *)
(* handed_off whether handed_off_at is set, high_budget whether the budget *)
(* is above the escalation threshold.                                      *)
Lead == [status : LeadStatus, consent : {"OPTED_IN", "OPTED_OUT"},
         last_inbound : 0..Messages, follow_up_count : Nat,
         handed_off : BOOLEAN, high_budget : BOOLEAN]

Task == [status : FollowUpStatus, baseline : 0..Messages]

-----------------------------------------------------------------------------
(* A session: lead and conv are its copies of the lead and of conversation *)
(* number seen, dirty and conv_dirty what it changed of them, marks the    *)
(* status it gave to tasks, written those it has flushed, fresh the task   *)
(* it added, locks the rows it holds, reply whether its turn answers the   *)
(* lead. after is where a flush goes on, goal where cancel_pending does.   *)
Blank == [pc |-> "idle", after |-> "idle", goal |-> "idle",
          lead |-> lead, dirty |-> {}, seen |-> 0, conv |-> "CLOSED", conv_dirty |-> FALSE,
          marks |-> <<>>, written |-> {}, fresh |-> <<>>, locks |-> {}, message |-> 0, tools |-> 0, todo |-> {},
          escalated |-> FALSE, unsynced |-> FALSE, reply |-> FALSE, nudged |-> 0]
Idle == [Blank EXCEPT !.lead = <<>>]

At(s, pc) == session[s].pc = pc
Set(s, value) == session' = [session EXCEPT ![s] = value]

(* A session that has read the lead and conversation k.                    *)
Open(pc, k) ==
  [Blank EXCEPT !.pc = pc, !.seen = k, !.conv = IF k = 0 THEN "CLOSED" ELSE convs[k]]

(* Assigning an attribute the value it has changes nothing.                *)
Assign(ses, values) ==
  [ses EXCEPT !.lead = Override(@, values),
              !.dirty = @ \cup {f \in DOMAIN values : values[f] # ses.lead[f]}]

AssignConv(ses, value) ==
  IF ses.seen = 0 \/ ses.conv = value THEN ses
  ELSE [ses EXCEPT !.conv = value, !.conv_dirty = TRUE]

FlushThen(ses, pc) == [ses EXCEPT !.pc = "flush", !.after = pc]

-----------------------------------------------------------------------------
(* A flush updates the lead, then the conversation, then the tasks, and    *)
(* waits at the first row another transaction holds.                       *)
Rank(row) == CASE row[1] = "lead" -> 0 [] row[1] = "conv" -> 1 [] row[1] = "task" -> 1 + row[2]

Wanted(s) ==
  LET ses == session[s]
      rows == (IF ses.dirty # {} THEN {<<"lead", 0>>} ELSE {})
                \cup (IF ses.conv_dirty THEN {<<"conv", ses.seen>>} ELSE {})
                \cup {<<"task", j>> : j \in DOMAIN ses.marks}
  IN  rows \ ses.locks

HeldByOther(s, row) == \E q \in Sessions \ {s} : row \in session[q].locks

Flush(s) ==
  /\ At(s, "flush")
  /\ LET got == {r \in Wanted(s) : \A q \in Wanted(s) : Rank(q) <= Rank(r) => ~HeldByOther(s, q)}
     IN  /\ got # {} \/ Wanted(s) = {}
         /\ Set(s, [session[s] EXCEPT !.locks = @ \cup got,
                      !.written = IF got = Wanted(s) THEN DOMAIN session[s].marks ELSE @,
                      !.pc = IF got = Wanted(s) THEN session[s].after ELSE "flush"])
  /\ UNCHANGED <<lead, convs, tasks, inbox, nudges, undone, late, deskUsed, faults>>

WaitsFor(s, q) ==
  /\ s # q
  /\ At(s, "flush")
  /\ \E row \in Wanted(s) \cap session[q].locks :
       \A r \in Wanted(s) : Rank(r) < Rank(row) => ~HeldByOther(s, r)

(* Sessions that wait for each other in a circle.                          *)
Deadlocked(s) ==
  \E S \in SUBSET Sessions :
    /\ s \in S
    /\ \A p \in S : \E q \in S : WaitsFor(p, q)
    /\ \A q \in S : \E p \in S : WaitsFor(p, q)

(* What a commit leaves in the tables.                                     *)
Committed(s) ==
  lead' = [f \in DOMAIN lead |-> IF f \in session[s].dirty THEN session[s].lead[f] ELSE lead[f]]

SaveRows(s) ==
  LET ses == session[s]
  IN  /\ Committed(s)
      /\ convs' = IF ses.conv_dirty THEN [convs EXCEPT ![ses.seen] = ses.conv] ELSE convs
      /\ tasks' = [j \in DOMAIN tasks |->
                     IF j \in DOMAIN ses.marks THEN [tasks[j] EXCEPT !.status = ses.marks[j]]
                                               ELSE tasks[j]] \o ses.fresh

-----------------------------------------------------------------------------
(* services/followups.py                                                   *)
TERMINAL_LEAD_STATUSES == {"OPTED_OUT", "BOOKED", "HANDED_OFF"}

(* The latest conversation: the session's own copy if it has one.          *)
LatestStatus(ses) ==
  LET k == Len(convs)
  IN  CASE k = 0 -> "CLOSED" [] k # 0 /\ k = ses.seen -> ses.conv [] OTHER -> convs[k]

(* Why a nudge counted from baseline would be wrong now, in the order the  *)
(* code asks. ConsentIgnored forgets the first question.                   *)
ConsentIgnored(ses, baseline) ==
  IF ses.lead.status \in TERMINAL_LEAD_STATUSES THEN "TERMINAL_STATUS"
  ELSE IF ses.lead.follow_up_count >= max_attempts THEN "CAP_REACHED"
  ELSE IF ses.lead.last_inbound > baseline THEN "LEAD_REPLIED"
  ELSE IF LatestStatus(ses) = "HUMAN_TAKEOVER" THEN "HUMAN_TAKEOVER"
  ELSE "OK"

check_eligibility(ses, baseline) ==
  IF ses.lead.consent = "OPTED_OUT" THEN "OPTED_OUT"
  ELSE IF ses.lead.status \in TERMINAL_LEAD_STATUSES THEN "TERMINAL_STATUS"
  ELSE IF ses.lead.follow_up_count >= max_attempts THEN "CAP_REACHED"
  ELSE IF ses.lead.last_inbound > baseline THEN "LEAD_REPLIED"
  ELSE IF LatestStatus(ses) = "HUMAN_TAKEOVER" THEN "HUMAN_TAKEOVER"
  ELSE "OK"

(* cancel_pending: every task that is still scheduled in the tables as     *)
(* this session sees them, its own unflushed marks not among them.         *)
Pending(ses) == {j \in DOMAIN tasks : tasks[j].status = "SCHEDULED" /\ j \notin ses.written}

cancel_pending(s) ==
  /\ At(s, "cancel")
  /\ Set(s, FlushThen([session[s] EXCEPT
                !.marks = Override(@, [j \in Pending(session[s]) |-> "CANCELLED"]), !.fresh = <<>>],
              session[s].goal))
  /\ UNCHANGED <<lead, convs, tasks, inbox, nudges, undone, late, deskUsed, faults>>

(* schedule_next, once cancel_pending made room: a task counted from the   *)
(* lead's last message, unless a nudge would be wrong.                     *)
schedule_next(s, pc) ==
  /\ At(s, "arm")
  /\ Set(s, [session[s] EXCEPT
       !.pc = pc,
       !.fresh = IF check_eligibility(session[s], Messages) = "OK"
                 THEN <<[status |-> "SCHEDULED", baseline |-> session[s].lead.last_inbound]>>
                 ELSE <<>>])
  /\ UNCHANGED <<lead, convs, tasks, inbox, nudges, undone, late, deskUsed, faults>>
=============================================================================
