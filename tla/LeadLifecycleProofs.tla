------------------------- MODULE LeadLifecycleProofs -------------------------
(***************************************************************************)
(* For any number of turns, dashboard requests, follow-up workers and      *)
(* messages: an opt-out is never taken back, a stop the worker finished is *)
(* recorded, one follow-up worker keeps to the cap on nudges unless a pass *)
(* of it was rolled back, and what may still be sent after an opt-out is   *)
(* bounded.                                                                *)
(***************************************************************************)
EXTENDS LeadLifecycle, OrderLemmas, SequenceTheorems, FiniteSetTheorems

-----------------------------------------------------------------------------
(* The inductive invariant.                                                *)

Attribute == {"status", "consent", "last_inbound", "follow_up_count", "handed_off",
              "high_budget"}
Live == PC \ {"idle", "read"}

Marks == UNION {[J -> FollowUpStatus] : J \in SUBSET Nat}

(* What a database session remembers.                                      *)
Session ==
  [pc : PC, after : PC, goal : PC,
   lead : Lead \cup {<<>>}, dirty : SUBSET (Attribute \cup {"last_outbound"}),
   seen : Nat, conv : ConversationStatus, conv_dirty : BOOLEAN,
   marks : Marks, written : SUBSET Nat,
   fresh : Seq(Task), locks : SUBSET ({"lead", "conv", "task"} \X Nat),
   message : Nat, tools : Nat, todo : SUBSET Nat,
   escalated : BOOLEAN, unsynced : BOOLEAN, nudged : Nat, reply : BOOLEAN]

(* A session that goes on has read the lead, and goes on somewhere.        *)
Placed(ses) ==
  /\ ses.pc \in Live => ses.lead \in Lead
  /\ ses.pc = "flush" => ses.after \in Live
  /\ ses.pc = "cancel" \/ (ses.pc = "flush" /\ ses.after = "cancel") => ses.goal \in Live

(* The rows a session works on exist.                                      *)
RowsExist(ses) ==
  /\ ses.seen <= Len(convs)
  /\ ses.conv_dirty => ses.seen # 0
  /\ DOMAIN ses.marks \subseteq DOMAIN tasks
  /\ ses.todo \subseteq DOMAIN tasks

(* Consent is only ever changed to an opt-out; a session that is not a     *)
(* pass never counts nudges, and one that has read nothing has counted     *)
(* none and changed nothing.                                               *)
ChangesOK(s, ses) ==
  /\ "consent" \in ses.dirty => ses.lead.consent = "OPTED_OUT"
  /\ s \notin Passes => ses.nudged = 0 /\ "follow_up_count" \notin ses.dirty
  /\ ses.pc \notin Live => ses.nudged = 0 /\ ses.dirty = {}

(* A turn under way runs a message, and a stop is an opt-out by now: one   *)
(* it will commit, or one that is committed.                               *)
HonoursStop(s, ses) ==
  s \in Turns /\ ses.pc # "idle" =>
    /\ ses.pc \in Live
    /\ ses.message \in DOMAIN inbox
    /\ inbox[ses.message].state = "running"
    /\ inbox[ses.message].stop =>
         /\ ses.lead.consent = "OPTED_OUT"
         /\ "consent" \in ses.dirty \/ lead.consent = "OPTED_OUT"

Fits(s, ses) ==
  /\ ses \in Session
  /\ Placed(ses) /\ RowsExist(ses) /\ ChangesOK(s, ses) /\ HonoursStop(s, ses)

(* Two turns never run one message, and a message that may run has an      *)
(* attempt left.                                                           *)
OneTurnEach ==
  /\ \A t, u \in Turns :
       t # u /\ ~At(t, "idle") /\ ~At(u, "idle") => session[t].message # session[u].message
  /\ \A i \in DOMAIN inbox :
       inbox[i].state \in {"queued", "running"} => inbox[i].tries < MAX_ATTEMPTS

(* The one follow-up worker knows how often the lead was nudged: its copy  *)
(* of the count is the committed one and what it sent since.               *)
CountKnown(p) ==
  /\ nudges = lead.follow_up_count + undone + session[p].nudged
  /\ session[p].nudged > 0 => "follow_up_count" \in session[p].dirty
  /\ session[p].pc \in Live =>
       /\ session[p].lead.follow_up_count = lead.follow_up_count + session[p].nudged
       /\ session[p].lead.follow_up_count <= max_attempts

Counted ==
  OneWorker =>
    /\ lead.follow_up_count <= max_attempts
    /\ nudges <= max_attempts + undone
    /\ \A p \in Passes : CountKnown(p)

IInv ==
  /\ TypeOK
  /\ Len(inbox) <= Messages
  /\ session \in [Sessions -> Session]
  /\ \A s \in Sessions : Fits(s, session[s])
  /\ OneTurnEach
  /\ StopRecorded
  /\ Counted

-----------------------------------------------------------------------------
(* What the operations on a session keep.                                  *)

(* Assigning to attributes of the lead's copy keeps its type.              *)
LEMMA OverrideLead ==
  ASSUME NEW l \in Lead, NEW v, DOMAIN v \subseteq Attribute,
         "status" \in DOMAIN v => v["status"] \in LeadStatus,
         "consent" \in DOMAIN v => v["consent"] \in {"OPTED_IN", "OPTED_OUT"},
         "last_inbound" \in DOMAIN v => v["last_inbound"] \in 0..Messages,
         "follow_up_count" \in DOMAIN v => v["follow_up_count"] \in Nat,
         "handed_off" \in DOMAIN v => v["handed_off"] \in BOOLEAN,
         "high_budget" \in DOMAIN v => v["high_budget"] \in BOOLEAN
  PROVE  Override(l, v) \in Lead
BY DEF Override, Lead, Attribute

(* What stays when a session changes neither consent nor count nor the     *)
(* rows it works on.                                                       *)
Keeps(new, ses) ==
  /\ new \in Session /\ new.lead \in Lead
  /\ new.lead.consent = ses.lead.consent
  /\ new.lead.follow_up_count = ses.lead.follow_up_count
  /\ "consent" \in new.dirty <=> "consent" \in ses.dirty
  /\ "follow_up_count" \in new.dirty <=> "follow_up_count" \in ses.dirty
  /\ new.seen = ses.seen
  /\ new.conv_dirty => ses.conv_dirty \/ ses.seen # 0
  /\ new.message = ses.message /\ new.nudged = ses.nudged

SamePlace(new, ses) ==
  /\ new.pc = ses.pc /\ new.after = ses.after /\ new.goal = ses.goal
  /\ new.marks = ses.marks /\ new.todo = ses.todo

LEMMA AssignKeeps ==
  ASSUME NEW ses \in Session, ses.lead \in Lead, NEW v, DOMAIN v \subseteq Attribute,
         "status" \in DOMAIN v => v["status"] \in LeadStatus,
         "consent" \notin DOMAIN v, "follow_up_count" \notin DOMAIN v,
         "last_inbound" \in DOMAIN v => v["last_inbound"] \in 0..Messages,
         "handed_off" \in DOMAIN v => v["handed_off"] \in BOOLEAN,
         "high_budget" \in DOMAIN v => v["high_budget"] \in BOOLEAN
  PROVE  Keeps(Assign(ses, v), ses) /\ SamePlace(Assign(ses, v), ses)
<1> DEFINE l == Override(ses.lead, v)
           d == ses.dirty \cup {f \in DOMAIN v : v[f] # ses.lead[f]}
<1>1. l \in Lead
  BY OverrideLead
<1>2. l.consent = ses.lead.consent /\ l.follow_up_count = ses.lead.follow_up_count
  BY DEF Override, Lead
<1>3. /\ d \in SUBSET (Attribute \cup {"last_outbound"})
      /\ "consent" \in d <=> "consent" \in ses.dirty
      /\ "follow_up_count" \in d <=> "follow_up_count" \in ses.dirty
  BY DEF Session
<1>4. Assign(ses, v) = [ses EXCEPT !.lead = l, !.dirty = d]
  BY DEF Assign, Session
<1> HIDE DEF l, d
<1>5. [ses EXCEPT !.lead = l, !.dirty = d] \in Session
  BY <1>1, <1>3 DEF Session
<1>6. /\ Assign(ses, v).lead = l /\ Assign(ses, v).dirty = d
      /\ Assign(ses, v).seen = ses.seen /\ Assign(ses, v).conv_dirty = ses.conv_dirty
      /\ Assign(ses, v).message = ses.message /\ Assign(ses, v).nudged = ses.nudged
  BY <1>4 DEF Session
<1>7. SamePlace(Assign(ses, v), ses)
  BY <1>4 DEF Session, SamePlace
<1> QED BY <1>1, <1>2, <1>3, <1>4, <1>5, <1>6, <1>7 DEF Keeps

LEMMA AssignConvKeeps ==
  ASSUME NEW ses \in Session, ses.lead \in Lead, NEW c \in ConversationStatus
  PROVE  Keeps(AssignConv(ses, c), ses) /\ SamePlace(AssignConv(ses, c), ses)
BY DEF AssignConv, Keeps, SamePlace, Session

LEMMA KeepsTwice ==
  ASSUME NEW a, NEW b, NEW c, Keeps(a, b), Keeps(b, c)
  PROVE  Keeps(a, c)
BY DEF Keeps

LEMMA EscalateKeeps ==
  ASSUME NEW ses \in Session, ses.lead \in Lead
  PROVE  Keeps(Escalate(ses), ses) /\ SamePlace(Escalate(ses), ses)
<1> DEFINE v == [status |-> "HANDED_OFF", handed_off |-> TRUE]
           a == Assign(ses, v)
           b == AssignConv(a, "HUMAN_TAKEOVER")
<1>1. Keeps(a, ses) /\ SamePlace(a, ses)
  BY AssignKeeps DEF Attribute, LeadStatus
<1> HIDE DEF a
<1>2. Keeps(b, a) /\ SamePlace(b, a)
  BY <1>1, AssignConvKeeps DEF Keeps, ConversationStatus
<1> HIDE DEF b
<1>3. b \in Session /\ b.lead \in Lead
  BY <1>2 DEF Keeps
<1>4. Escalate(ses) = [b EXCEPT !.escalated = TRUE, !.dirty = @ \cup {"handed_off"}]
  BY DEF Escalate, a, b
<1> DEFINE d == b.dirty \cup {"handed_off"}
<1>5. /\ d \in SUBSET (Attribute \cup {"last_outbound"})
      /\ "consent" \in d <=> "consent" \in b.dirty
      /\ "follow_up_count" \in d <=> "follow_up_count" \in b.dirty
  BY <1>3 DEF Session, Attribute
<1>6. Escalate(ses) = [b EXCEPT !.escalated = TRUE, !.dirty = d]
  BY <1>3, <1>4 DEF Session
<1> HIDE DEF d
<1>7. Keeps(Escalate(ses), b) /\ SamePlace(Escalate(ses), b)
  BY <1>3, <1>5, <1>6 DEF Keeps, SamePlace, Session
<1> QED BY <1>1, <1>2, <1>7, KeepsTwice DEF SamePlace

LEMMA FlushKeeps ==
  ASSUME NEW ses \in Session, ses.lead \in Lead, NEW pc \in PC
  PROVE  /\ Keeps(FlushThen(ses, pc), ses)
         /\ FlushThen(ses, pc).pc = "flush" /\ FlushThen(ses, pc).after = pc
         /\ FlushThen(ses, pc).goal = ses.goal
         /\ FlushThen(ses, pc).marks = ses.marks /\ FlushThen(ses, pc).todo = ses.todo
BY DEF FlushThen, Keeps, Session, PC

(* Giving tasks a mark.                                                    *)
LEMMA MarksKept ==
  ASSUME NEW m \in Marks, NEW J \in SUBSET Nat, NEW mark \in FollowUpStatus
  PROVE  /\ Override(m, [j \in J |-> mark]) \in Marks
         /\ DOMAIN Override(m, [j \in J |-> mark]) = DOMAIN m \cup J
<1> DEFINE g == [j \in J |-> mark]
           D == DOMAIN m \cup J
<1>1. PICK I \in SUBSET Nat : m \in [I -> FollowUpStatus]
  BY DEF Marks
<1>2. D \in SUBSET Nat
  BY <1>1
<1>3. Override(m, g) = [x \in D |-> IF x \in J THEN g[x] ELSE m[x]]
  BY DEF Override
<1>4. Override(m, g) \in [D -> FollowUpStatus]
  BY <1>1, <1>3
<1> QED BY <1>2, <1>3, <1>4 DEF Marks

(* What the sessions have in common with the rows they belong to.          *)
LEMMA Disjoint ==
  /\ Turns \subseteq Sessions /\ Desks \subseteq Sessions /\ Passes \subseteq Sessions
  /\ \A t \in Turns : t \notin Desks /\ t \notin Passes
  /\ \A d \in Desks : d \notin Passes
BY LeadStoreAssumption DEF Sessions

-----------------------------------------------------------------------------
(* Steps that leave the committed rows and the inbox alone.                *)

(* A session that neither sends nudges nor learns the count anew leaves    *)
(* what is known of it.                                                    *)
LEMMA CountStays ==
  ASSUME IInv, NEW s \in Sessions, NEW new, Set(s, new),
         UNCHANGED <<lead, nudges, undone>>,
         s \in Passes =>
           /\ new.nudged = session[s].nudged
           /\ "follow_up_count" \in session[s].dirty => "follow_up_count" \in new.dirty
           /\ new.pc \in Live =>
                /\ new.lead.follow_up_count = lead.follow_up_count + new.nudged
                /\ session[s].pc \in Live \/ new.nudged = 0
  PROVE  Counted'
<1> SUFFICES ASSUME OneWorker PROVE Counted'
  BY DEF Counted, OneWorker
<1>1. /\ lead.follow_up_count <= max_attempts
      /\ nudges <= max_attempts + undone
      /\ \A p \in Passes : CountKnown(p)
  BY DEF IInv, Counted
<1>2. ASSUME NEW p \in Passes PROVE CountKnown(p)'
  <2>0. session \in [Sessions -> Session]
    BY DEF IInv
  <2>1. CASE p # s
    <3>1. session'[p] = session[p]
      BY <2>0, <2>1 DEF Set, Sessions
    <3> QED BY <1>1, <3>1 DEF CountKnown
  <2>2. CASE p = s
    <3>1. session'[p] = new
      BY <2>0, <2>2 DEF Set, Sessions
    <3>2. CountKnown(s)
      BY <1>1, <2>2
    <3>3. /\ nudges' = lead'.follow_up_count + undone' + new.nudged
          /\ new.nudged > 0 => "follow_up_count" \in new.dirty
      BY <2>2, <3>2 DEF CountKnown
    <3>4. new.pc \in Live => new.lead.follow_up_count <= max_attempts
      <4>1. lead.follow_up_count \in Nat
        BY DEF IInv, TypeOK, Lead
      <4> QED BY <1>1, <2>2, <3>2, <4>1 DEF CountKnown
    <3> QED BY <2>2, <3>1, <3>3, <3>4 DEF CountKnown
  <2> QED BY <2>1, <2>2
<1> QED BY <1>1, <1>2 DEF Counted

(* A step of one session.                                                  *)
LEMMA LocalStep ==
  ASSUME IInv, NEW s \in Sessions, NEW new, Set(s, new), Fits(s, new), Counted',
         UNCHANGED <<lead, convs, tasks, inbox>>,
         {nudges', undone', late', deskUsed', faults'} \subseteq Nat,
         s \in Turns /\ new.pc # "idle" =>
           session[s].pc # "idle" /\ new.message = session[s].message
  PROVE  IInv'
<1>1. session \in [Sessions -> Session] /\ new \in Session
  BY DEF IInv, Fits
<1>2. session' \in [Sessions -> Session]
  BY <1>1 DEF Set
<1>3. session'[s] = new /\ \A q \in Sessions : q # s => session'[q] = session[q]
  BY <1>1 DEF Set
<1>4. TypeOK'
  BY <1>2 DEF IInv, TypeOK, Session
<1>5. ASSUME NEW q \in Sessions PROVE Fits(q, session[q])'
  <2>1. Fits(q, session'[q])
    BY <1>3 DEF IInv
  <2> QED BY <2>1 DEF Fits, Placed, RowsExist, ChangesOK, HonoursStop
<1>6. OneTurnEach'
  <2>1. ASSUME NEW t \in Turns, NEW u \in Turns, t # u, ~At(t, "idle")', ~At(u, "idle")'
        PROVE  session'[t].message # session'[u].message
    <3>1. t \in Sessions /\ u \in Sessions
      BY Disjoint
    <3>2. /\ session[t].pc # "idle" /\ session'[t].message = session[t].message
          /\ session[u].pc # "idle" /\ session'[u].message = session[u].message
      BY <1>3, <2>1, <3>1 DEF At
    <3> QED BY <2>1, <3>2 DEF IInv, OneTurnEach, At
  <2>2. \A i \in DOMAIN inbox' :
          inbox'[i].state \in {"queued", "running"} => inbox'[i].tries < MAX_ATTEMPTS
    BY DEF IInv, OneTurnEach
  <2> QED BY <2>1, <2>2 DEF OneTurnEach
<1>7. StopRecorded'
  BY DEF IInv, StopRecorded
<1> QED BY <1>2, <1>4, <1>5, <1>6, <1>7 DEF IInv

(* A step of a session that goes on with what it has read.                 *)
LEMMA LiveStep ==
  ASSUME IInv, NEW s \in Sessions, NEW new, Set(s, new), session[s].pc \in Live,
         Keeps(new, session[s]), new.pc \in Live, Placed(new),
         DOMAIN new.marks \subseteq DOMAIN tasks, new.todo \subseteq DOMAIN tasks,
         UNCHANGED <<lead, convs, tasks, inbox, nudges, undone>>,
         {late', deskUsed', faults'} \subseteq Nat
  PROVE  IInv'
<1>1. Fits(s, session[s])
  BY DEF IInv
<1>2. Fits(s, new)
  <2>1. RowsExist(new)
    BY <1>1 DEF Fits, RowsExist, Keeps
  <2>2. ChangesOK(s, new)
    BY <1>1 DEF Fits, ChangesOK, Keeps
  <2>3. HonoursStop(s, new)
    BY <1>1 DEF Fits, HonoursStop, Keeps, Live, PC
  <2> QED BY <2>1, <2>2, <2>3 DEF Fits, Keeps
<1>3. Counted'
  <2>1. ASSUME s \in Passes, OneWorker
        PROVE  new.lead.follow_up_count = lead.follow_up_count + new.nudged
    BY <2>1 DEF IInv, Counted, CountKnown, Keeps
  <2>2. CASE OneWorker
    BY <2>1, <2>2, CountStays DEF Keeps
  <2>3. CASE ~OneWorker
    BY <2>3 DEF Counted, OneWorker
  <2> QED BY <2>2, <2>3
<1>4. {nudges', undone', late', deskUsed', faults'} \subseteq Nat
  BY DEF IInv, TypeOK
<1> QED BY <1>1, <1>2, <1>3, <1>4, LocalStep DEF Fits, HonoursStop, Keeps, Live, PC

(* A session that has read the lead, as a step finds it.                   *)
LEMMA LiveSession ==
  ASSUME IInv, NEW s \in Sessions, session[s].pc \in Live
  PROVE  /\ session[s] \in Session /\ session[s].lead \in Lead
         /\ Placed(session[s])
         /\ DOMAIN session[s].marks \subseteq DOMAIN tasks
         /\ session[s].todo \subseteq DOMAIN tasks
         /\ DOMAIN tasks \subseteq Nat
         /\ {nudges, undone, late, deskUsed, faults} \subseteq Nat
<1>1. Fits(s, session[s]) /\ TypeOK
  BY DEF IInv
<1>2. DOMAIN tasks \subseteq Nat
  BY <1>1 DEF TypeOK
<1> QED BY <1>1, <1>2 DEF Fits, Placed, RowsExist, TypeOK

(* The rows a flush asks for are rows.                                     *)
LEMMA WantedRows ==
  ASSUME IInv, NEW s \in Sessions, session[s].pc \in Live
  PROVE  Wanted(s) \subseteq {"lead", "conv", "task"} \X Nat
BY LiveSession DEF Wanted, Session

LEMMA FlushIInv ==
  ASSUME IInv, NEW s \in Sessions, Flush(s)
  PROVE  IInv'
<1> DEFINE ses == session[s]
           got == {r \in Wanted(s) : \A q \in Wanted(s) : Rank(q) <= Rank(r) => ~HeldByOther(s, q)}
           l == ses.locks \cup got
           w == IF got = Wanted(s) THEN DOMAIN ses.marks ELSE ses.written
           pc == IF got = Wanted(s) THEN ses.after ELSE "flush"
           new == [ses EXCEPT !.locks = l, !.written = w, !.pc = pc]
<1>1. Set(s, new)
  BY DEF Flush
<1>2. ses.pc = "flush" /\ ses.pc \in Live
  BY DEF Flush, At, Live, PC
<1>3. /\ ses \in Session /\ ses.lead \in Lead /\ Placed(ses)
      /\ DOMAIN ses.marks \subseteq DOMAIN tasks /\ ses.todo \subseteq DOMAIN tasks
      /\ DOMAIN tasks \subseteq Nat
  BY <1>2, LiveSession
<1>4. l \in SUBSET ({"lead", "conv", "task"} \X Nat)
  BY <1>2, <1>3, WantedRows DEF Session
<1>5. w \in SUBSET Nat
  BY <1>3 DEF Session
<1>6. pc \in Live /\ pc \in PC /\ (pc = "flush" \/ pc = ses.after)
  BY <1>2, <1>3 DEF Placed, Live, PC
<1> HIDE DEF ses, l, w, pc
<1>7. Keeps(new, ses) /\ new.pc = pc /\ new.after = ses.after /\ new.goal = ses.goal
      /\ new.marks = ses.marks /\ new.todo = ses.todo
  BY <1>3, <1>4, <1>5, <1>6 DEF Keeps, Session
<1>8. Placed(new)
  BY <1>2, <1>3, <1>6, <1>7 DEF Placed, Keeps
<1>9. UNCHANGED <<lead, convs, tasks, inbox, nudges, undone, late, deskUsed, faults>>
  BY DEF Flush
<1>10. {late', deskUsed', faults'} \subseteq Nat
  BY <1>2, <1>9, LiveSession DEF ses
<1> HIDE DEF new
<1> QED BY <1>1, <1>2, <1>3, <1>6, <1>7, <1>8, <1>9, <1>10, LiveStep DEF ses

LEMMA CancelIInv ==
  ASSUME IInv, NEW s \in Sessions, cancel_pending(s)
  PROVE  IInv'
<1> DEFINE ses == session[s]
           J == Pending(ses)
           m == Override(ses.marks, [j \in J |-> "CANCELLED"])
           none == <<>>
           a == [ses EXCEPT !.marks = m, !.fresh = none]
           new == FlushThen(a, ses.goal)
<1>1. Set(s, new)
  BY DEF cancel_pending
<1>2. ses.pc = "cancel" /\ ses.pc \in Live
  BY DEF cancel_pending, At, Live, PC
<1>3. /\ ses \in Session /\ ses.lead \in Lead /\ Placed(ses)
      /\ DOMAIN ses.marks \subseteq DOMAIN tasks /\ ses.todo \subseteq DOMAIN tasks
      /\ DOMAIN tasks \subseteq Nat
  BY <1>2, LiveSession
<1>4. m \in Marks /\ DOMAIN m \subseteq DOMAIN tasks
  <2>1. J \subseteq DOMAIN tasks /\ J \in SUBSET Nat
    BY <1>3 DEF Pending
  <2>2. "CANCELLED" \in FollowUpStatus /\ ses.marks \in Marks
    BY <1>3 DEF FollowUpStatus, Session
  <2> HIDE DEF J, ses
  <2>3. m \in Marks /\ DOMAIN m = DOMAIN ses.marks \cup J
    BY <2>1, <2>2, MarksKept
  <2> HIDE DEF m
  <2> QED BY <1>3, <2>1, <2>3
<1>5. ses.goal \in Live /\ ses.goal \in PC
  BY <1>2, <1>3 DEF Placed, Live
<1>6. UNCHANGED <<lead, convs, tasks, inbox, nudges, undone, late, deskUsed, faults>>
  BY DEF cancel_pending
<1>7. {late', deskUsed', faults'} \subseteq Nat
  BY <1>2, <1>6, LiveSession
<1>e. none \in Seq(Task)
  OBVIOUS
<1> HIDE DEF ses, m, none
<1>8. Keeps(a, ses) /\ a.marks = m /\ a.todo = ses.todo /\ a.goal = ses.goal
  BY <1>3, <1>4, <1>e DEF Keeps, Session
<1> HIDE DEF a
<1>9. Keeps(new, a) /\ new.pc = "flush" /\ new.after = ses.goal /\ new.goal = ses.goal
      /\ new.marks = m /\ new.todo = ses.todo
  BY <1>5, <1>8, FlushKeeps DEF Keeps
<1> HIDE DEF new
<1>10. Placed(new) /\ Keeps(new, ses) /\ new.pc \in Live
  BY <1>5, <1>8, <1>9, KeepsTwice DEF Placed, Keeps, Live, PC
<1> QED BY <1>1, <1>2, <1>3, <1>4, <1>6, <1>7, <1>9, <1>10, LiveStep DEF ses

LEMMA ScheduleIInv ==
  ASSUME IInv, NEW s \in Sessions, NEW pc \in {"commit", "task"}, schedule_next(s, pc)
  PROVE  IInv'
<1> DEFINE ses == session[s]
           f == IF check_eligibility(ses, Messages) = "OK"
                THEN <<[status |-> "SCHEDULED", baseline |-> ses.lead.last_inbound]>>
                ELSE <<>>
           new == [ses EXCEPT !.pc = pc, !.fresh = f]
<1>1. Set(s, new)
  BY DEF schedule_next
<1>2. ses.pc = "arm" /\ ses.pc \in Live
  BY DEF schedule_next, At, Live, PC
<1>3. /\ ses \in Session /\ ses.lead \in Lead /\ Placed(ses)
      /\ DOMAIN ses.marks \subseteq DOMAIN tasks /\ ses.todo \subseteq DOMAIN tasks
  BY <1>2, LiveSession
<1>4. f \in Seq(Task)
  <2>1. [status |-> "SCHEDULED", baseline |-> ses.lead.last_inbound] \in Task
    BY <1>3 DEF Task, FollowUpStatus, Lead
  <2> QED BY <2>1
<1>5. UNCHANGED <<lead, convs, tasks, inbox, nudges, undone, late, deskUsed, faults>>
  BY DEF schedule_next
<1>6. {late', deskUsed', faults'} \subseteq Nat
  BY <1>2, <1>5, LiveSession
<1> HIDE DEF ses, f
<1>7. Keeps(new, ses) /\ new.pc = pc /\ new.marks = ses.marks /\ new.todo = ses.todo
  BY <1>3, <1>4 DEF Keeps, Session, PC
<1> HIDE DEF new
<1>8. Placed(new) /\ new.pc \in Live
  BY <1>7 DEF Placed, Keeps, Live, PC
<1> QED BY <1>1, <1>2, <1>3, <1>5, <1>6, <1>7, <1>8, LiveStep DEF ses

(* A tool that changed neither consent nor count.                          *)
LEMMA ToolIInv ==
  ASSUME IInv, NEW t \in Turns, MayCall(t), NEW b, Keeps(b, session[t]),
         SamePlace(b, session[t]), Tool(t, b)
  PROVE  IInv'
<1> DEFINE ses == session[t]
           a == [b EXCEPT !.tools = @ + 1]
           new == FlushThen(a, "model")
<1>0. t \in Sessions
  BY Disjoint
<1>1. Set(t, new)
  BY DEF Tool
<1>2. ses.pc = "model" /\ ses.pc \in Live
  BY DEF MayCall, At, Live, PC
<1>3. /\ DOMAIN ses.marks \subseteq DOMAIN tasks /\ ses.todo \subseteq DOMAIN tasks
      /\ ses.lead \in Lead
  BY <1>0, <1>2, LiveSession
<1>4. UNCHANGED <<lead, convs, tasks, inbox, nudges, undone, late, deskUsed, faults>>
  BY DEF Tool
<1>5. {late', deskUsed', faults'} \subseteq Nat
  BY <1>0, <1>2, <1>4, LiveSession
<1> HIDE DEF ses
<1>6. Keeps(b, ses) /\ SamePlace(b, ses)
  BY DEF ses
<1>7. Keeps(a, b) /\ a.marks = b.marks /\ a.todo = b.todo
  BY <1>6 DEF Keeps, Session
<1> HIDE DEF a
<1>8. Keeps(new, a) /\ new.pc = "flush" /\ new.after = "model"
      /\ new.marks = a.marks /\ new.todo = a.todo
  BY <1>7, FlushKeeps DEF Keeps, PC
<1> HIDE DEF new
<1>9. Keeps(new, ses) /\ Placed(new) /\ new.pc \in Live
  <2>1. Keeps(new, b)
    BY <1>7, <1>8, KeepsTwice
  <2> QED BY <2>1, <1>6, <1>8, KeepsTwice DEF Placed, Keeps, Live, PC
<1>10. new.marks = ses.marks /\ new.todo = ses.todo
  BY <1>6, <1>7, <1>8 DEF SamePlace
<1> QED BY <1>0, <1>1, <1>2, <1>3, <1>4, <1>5, <1>9, <1>10, LiveStep DEF ses

LEMMA KeepsItself ==
  ASSUME NEW ses \in Session, ses.lead \in Lead
  PROVE  Keeps(ses, ses) /\ SamePlace(ses, ses)
BY DEF Keeps, SamePlace

LEMMA ToolsIInv ==
  ASSUME IInv, NEW t \in Turns,
         \/ update_lead_profile(t) \/ score_lead(t)
         \/ book_appointment(t) \/ escalate_to_human(t)
  PROVE  IInv'
<1> DEFINE ses == session[t]
<1>1. MayCall(t)
  BY DEF update_lead_profile, score_lead, book_appointment, escalate_to_human
<1>2. ses \in Session /\ ses.lead \in Lead
  BY <1>1, LiveSession, Disjoint DEF MayCall, At, Live, PC
<1>3. CASE update_lead_profile(t)
  <2> DEFINE status == IF ses.lead.status = "NEW" THEN "ENGAGED" ELSE ses.lead.status
  <2>1. PICK high \in BOOLEAN : Tool(t, Assign(ses, [high_budget |-> high, status |-> status]))
    BY <1>3 DEF update_lead_profile
  <2>2. status \in LeadStatus
    BY <1>2 DEF Lead, LeadStatus
  <2> DEFINE b == Assign(ses, [high_budget |-> high, status |-> status])
  <2> HIDE DEF status, ses
  <2>3. Keeps(b, ses) /\ SamePlace(b, ses)
    BY <1>2, <2>2, AssignKeeps DEF Attribute
  <2> QED BY <1>1, <2>1, <2>3, ToolIInv DEF ses
<1>4. CASE score_lead(t)
  <2> DEFINE q == Assign(ses, [status |-> "QUALIFIED"])
  <2>1. Tool(t, q) \/ Tool(t, ses)
    BY <1>4 DEF score_lead
  <2> HIDE DEF ses
  <2>2. Keeps(q, ses) /\ SamePlace(q, ses)
    BY <1>2, AssignKeeps DEF Attribute, LeadStatus
  <2>3. Keeps(ses, ses) /\ SamePlace(ses, ses)
    BY <1>2, KeepsItself
  <2> QED BY <1>1, <2>1, <2>2, <2>3, ToolIInv DEF ses
<1>5. CASE book_appointment(t)
  <2> DEFINE a == Assign(ses, [status |-> "BOOKED"])
  <2>1. PICK synced \in BOOLEAN : Tool(t, [a EXCEPT !.unsynced = @ \/ ~synced])
    BY <1>5 DEF book_appointment
  <2> HIDE DEF ses
  <2>2. Keeps(a, ses) /\ SamePlace(a, ses)
    BY <1>2, AssignKeeps DEF Attribute, LeadStatus
  <2> HIDE DEF a
  <2> DEFINE b == [a EXCEPT !.unsynced = @ \/ ~synced]
  <2>3. Keeps(b, a) /\ SamePlace(b, a)
    <3>1. a.unsynced \in BOOLEAN /\ a \in Session /\ a.lead \in Lead
      BY <2>2 DEF Keeps, Session
    <3> DEFINE u == a.unsynced \/ ~synced
    <3>2. u \in BOOLEAN /\ b = [a EXCEPT !.unsynced = u]
      BY <3>1 DEF Session
    <3> HIDE DEF u, b
    <3> QED BY <3>1, <3>2 DEF Keeps, SamePlace, Session
  <2>4. Keeps(b, ses) /\ SamePlace(b, ses)
    BY <2>2, <2>3, KeepsTwice DEF SamePlace
  <2> QED BY <1>1, <2>1, <2>4, ToolIInv DEF ses
<1>6. CASE escalate_to_human(t)
  BY <1>1, <1>2, <1>6, EscalateKeeps, ToolIInv DEF escalate_to_human
<1> QED BY <1>3, <1>4, <1>5, <1>6

LEMMA EndModelIInv ==
  ASSUME IInv, NEW t \in Turns, EndModel(t)
  PROVE  IInv'
<1> DEFINE ses == session[t]
<1>0. t \in Sessions
  BY Disjoint
<1>1. ses.pc = "model" /\ ses.pc \in Live
  BY DEF EndModel, At, Live, PC
<1>2. /\ ses \in Session /\ ses.lead \in Lead
      /\ DOMAIN ses.marks \subseteq DOMAIN tasks /\ ses.todo \subseteq DOMAIN tasks
  BY <1>0, <1>1, LiveSession
<1>3. PICK b \in {ses, Escalate(ses)} :
        Set(t, FlushThen([b EXCEPT !.goal = "arm", !.tools = 0,
                                   !.escalated = FALSE, !.unsynced = FALSE], "cancel"))
  BY DEF EndModel
<1>4. UNCHANGED <<lead, convs, tasks, inbox, nudges, undone, late, deskUsed, faults>>
  BY DEF EndModel
<1>5. {late', deskUsed', faults'} \subseteq Nat
  BY <1>0, <1>1, <1>4, LiveSession
<1> HIDE DEF ses
<1>6. Keeps(b, ses) /\ SamePlace(b, ses)
  BY <1>2, <1>3, EscalateKeeps, KeepsItself
<1> DEFINE a == [b EXCEPT !.goal = "arm", !.tools = 0,
                          !.escalated = FALSE, !.unsynced = FALSE]
           new == FlushThen(a, "cancel")
<1>7. Keeps(a, b) /\ a.goal = "arm" /\ a.marks = b.marks /\ a.todo = b.todo
  BY <1>6 DEF Keeps, Session, PC
<1> HIDE DEF a
<1>8. Keeps(new, a) /\ new.pc = "flush" /\ new.after = "cancel" /\ new.goal = "arm"
      /\ new.marks = a.marks /\ new.todo = a.todo
  BY <1>7, FlushKeeps DEF Keeps, PC
<1>9. Set(t, new)
  BY <1>3 DEF a
<1> HIDE DEF new
<1>10. Keeps(new, ses) /\ Placed(new) /\ new.pc \in Live
  <2>1. Keeps(new, b)
    BY <1>7, <1>8, KeepsTwice
  <2> QED BY <2>1, <1>6, <1>8, KeepsTwice DEF Placed, Keeps, Live, PC
<1>11. new.marks = ses.marks /\ new.todo = ses.todo
  BY <1>6, <1>7, <1>8 DEF SamePlace
<1> QED BY <1>0, <1>1, <1>2, <1>4, <1>5, <1>9, <1>10, <1>11, LiveStep DEF ses

-----------------------------------------------------------------------------
(* The follow-up worker's steps.                                           *)

(* The next task of a batch is one of the batch.                           *)
LEMMA DueInTodo ==
  ASSUME IInv, NEW p \in Passes, session[p].pc \in Live, session[p].todo # {}
  PROVE  Due(p) \in session[p].todo
<1>1. session[p].todo \in SUBSET Nat
  BY LiveSession, Disjoint DEF Session
<1>2. \E i \in session[p].todo : \A j \in session[p].todo : i <= j
  BY <1>1, MinExists
<1> QED BY <1>2 DEF Due

(* Judging a task changes nothing else.                                    *)
LEMMA MarkedKeeps ==
  ASSUME IInv, NEW p \in Passes, session[p].pc \in Live, session[p].todo # {},
         NEW mark \in FollowUpStatus
  PROVE  LET b == Marked(p, mark)
         IN  /\ Keeps(b, session[p]) /\ b.pc = session[p].pc
             /\ DOMAIN b.marks \subseteq DOMAIN tasks /\ b.todo \subseteq DOMAIN tasks
<1> DEFINE ses == session[p]
           J == {Due(p)}
           m == Override(ses.marks, [j \in J |-> mark])
           rest == ses.todo \ J
           b == [ses EXCEPT !.todo = rest, !.marks = m]
<1>1. /\ ses \in Session /\ ses.lead \in Lead /\ ses.todo \subseteq DOMAIN tasks
      /\ DOMAIN ses.marks \subseteq DOMAIN tasks /\ DOMAIN tasks \subseteq Nat
  BY LiveSession, Disjoint
<1>2. J \subseteq DOMAIN tasks /\ J \in SUBSET Nat
  BY <1>1, DueInTodo
<1>3. m \in Marks /\ DOMAIN m \subseteq DOMAIN tasks
  <2>1. ses.marks \in Marks
    BY <1>1 DEF Session
  <2> HIDE DEF J, ses
  <2>2. m \in Marks /\ DOMAIN m = DOMAIN ses.marks \cup J
    BY <1>2, <2>1, MarksKept
  <2> HIDE DEF m
  <2> QED BY <1>1, <1>2, <2>2
<1>4. rest \in SUBSET Nat /\ rest \subseteq DOMAIN tasks
  BY <1>1
<1>5. Marked(p, mark) = b
  BY DEF Marked
<1> HIDE DEF ses, J, m, rest
<1>6. Keeps(b, ses) /\ b.pc = ses.pc /\ b.marks = m /\ b.todo = rest
  BY <1>1, <1>3, <1>4 DEF Keeps, Session
<1> HIDE DEF b
<1> QED BY <1>3, <1>4, <1>5, <1>6 DEF ses

LEMMA JudgeIInv ==
  ASSUME IInv, NEW p \in Passes, SkipTask(p) \/ DeferTask(p) \/ FailTask(p) \/ EndPass(p)
  PROVE  IInv'
<1> DEFINE ses == session[p]
<1>0. p \in Sessions
  BY Disjoint
<1>1. ses.pc = "task" /\ ses.pc \in Live
  BY DEF SkipTask, DeferTask, FailTask, EndPass, At, Live, PC
<1>2. /\ ses \in Session /\ ses.lead \in Lead
      /\ DOMAIN ses.marks \subseteq DOMAIN tasks /\ ses.todo \subseteq DOMAIN tasks
  BY <1>0, <1>1, LiveSession
<1>3. UNCHANGED <<lead, convs, tasks, inbox, nudges, undone, late, deskUsed, faults>>
  BY DEF SkipTask, DeferTask, FailTask, EndPass
<1>4. {late', deskUsed', faults'} \subseteq Nat
  BY <1>0, <1>1, <1>3, LiveSession
<1>5. CASE SkipTask(p)
  <2>1. PICK mark \in {"SKIPPED", "CANCELLED"} :
          \/ Set(p, Marked(p, mark))
          \/ Set(p, [Marked(p, mark) EXCEPT !.pc = "cancel", !.goal = "arm"])
    BY <1>5 DEF SkipTask
  <2> DEFINE b == Marked(p, mark)
             c == [b EXCEPT !.pc = "cancel", !.goal = "arm"]
  <2>2. /\ Keeps(b, ses) /\ b.pc = "task"
        /\ DOMAIN b.marks \subseteq DOMAIN tasks /\ b.todo \subseteq DOMAIN tasks
    BY <1>1, <1>5, MarkedKeeps DEF SkipTask, FollowUpStatus
  <2> HIDE DEF b, ses
  <2>3. Keeps(c, b) /\ c.pc = "cancel" /\ c.goal = "arm" /\ c.marks = b.marks /\ c.todo = b.todo
    BY <2>2 DEF Keeps, Session, PC
  <2>4. CASE Set(p, b)
    <3>1. Placed(b) /\ b.pc \in Live
      BY <2>2 DEF Placed, Keeps, Live, PC
    <3> QED BY <1>0, <1>1, <1>3, <1>4, <2>2, <2>4, <3>1, LiveStep DEF ses
  <2>5. CASE Set(p, c)
    <3> HIDE DEF c
    <3>1. Placed(c) /\ c.pc \in Live /\ Keeps(c, ses)
      BY <2>2, <2>3, KeepsTwice DEF Placed, Keeps, Live, PC
    <3> QED BY <1>0, <1>1, <1>3, <1>4, <2>2, <2>3, <2>5, <3>1, LiveStep DEF ses
  <2> QED BY <2>1, <2>4, <2>5 DEF b
<1>6. CASE DeferTask(p)
  <2> DEFINE rest == ses.todo \ {Due(p)}
             b == [ses EXCEPT !.todo = rest]
  <2>1. Set(p, b)
    BY <1>6 DEF DeferTask
  <2>2. rest \in SUBSET Nat /\ rest \subseteq DOMAIN tasks
    BY <1>2 DEF Session
  <2> HIDE DEF ses, rest
  <2>3. Keeps(b, ses) /\ b.pc = ses.pc /\ b.todo = rest /\ b.marks = ses.marks
    BY <1>2, <2>2 DEF Keeps, Session
  <2> HIDE DEF b
  <2>4. Placed(b)
    BY <1>1, <2>3 DEF Placed, Keeps
  <2> QED BY <1>0, <1>1, <1>2, <1>3, <1>4, <2>1, <2>2, <2>3, <2>4, LiveStep DEF ses
<1>7. CASE FailTask(p)
  <2>1. PICK mark \in {"FAILED", "SKIPPED"} : Set(p, Marked(p, mark))
    BY <1>7 DEF FailTask
  <2> DEFINE b == Marked(p, mark)
  <2>2. /\ Keeps(b, ses) /\ b.pc = "task"
        /\ DOMAIN b.marks \subseteq DOMAIN tasks /\ b.todo \subseteq DOMAIN tasks
    BY <1>1, <1>7, MarkedKeeps DEF FailTask, FollowUpStatus
  <2>3. Placed(b)
    BY <2>2 DEF Placed, Keeps
  <2> HIDE DEF b
  <2> QED BY <1>0, <1>1, <1>3, <1>4, <2>1, <2>2, <2>3, LiveStep DEF b
<1>8. CASE EndPass(p)
  <2> DEFINE b == FlushThen(ses, "commit")
  <2>1. Set(p, b)
    BY <1>8 DEF EndPass
  <2> HIDE DEF ses
  <2>2. Keeps(b, ses) /\ b.pc = "flush" /\ b.after = "commit"
        /\ b.marks = ses.marks /\ b.todo = ses.todo
    BY <1>2, FlushKeeps DEF PC
  <2> HIDE DEF b
  <2>3. Placed(b) /\ b.pc \in Live
    BY <2>2 DEF Placed, Keeps, Live, PC
  <2> QED BY <1>0, <1>1, <1>2, <1>3, <1>4, <2>1, <2>2, <2>3, LiveStep DEF ses
<1> QED BY <1>5, <1>6, <1>7, <1>8

LEMMA MessageSentIInv ==
  ASSUME IInv, NEW d \in Desks, MessageSent(d)
  PROVE  IInv'
<1> DEFINE ses == session[d]
           w == ses.dirty \cup {"last_outbound"}
           a == [ses EXCEPT !.dirty = w]
           new == FlushThen(a, "commit")
<1>0. d \in Sessions
  BY Disjoint
<1>1. ses.pc = "send" /\ ses.pc \in Live
  BY DEF MessageSent, At, Live, PC
<1>2. /\ ses \in Session /\ ses.lead \in Lead
      /\ DOMAIN ses.marks \subseteq DOMAIN tasks /\ ses.todo \subseteq DOMAIN tasks
      /\ {nudges, undone, late, deskUsed, faults} \subseteq Nat
  BY <1>0, <1>1, LiveSession
<1>3. Set(d, new) /\ UNCHANGED <<lead, convs, tasks, inbox, nudges, undone, deskUsed, faults>>
  BY DEF MessageSent
<1>4. {late', deskUsed', faults'} \subseteq Nat
  BY <1>2 DEF MessageSent
<1>5. /\ w \in SUBSET (Attribute \cup {"last_outbound"})
      /\ "consent" \in w <=> "consent" \in ses.dirty
      /\ "follow_up_count" \in w <=> "follow_up_count" \in ses.dirty
  BY <1>2 DEF Session
<1> HIDE DEF ses, w
<1>6. Keeps(a, ses) /\ SamePlace(a, ses)
  BY <1>2, <1>5 DEF Keeps, SamePlace, Session
<1> HIDE DEF a
<1>7. Keeps(new, a) /\ new.pc = "flush" /\ new.after = "commit"
      /\ new.marks = a.marks /\ new.todo = a.todo
  BY <1>6, FlushKeeps DEF Keeps, PC
<1> HIDE DEF new
<1>8. Placed(new) /\ new.pc \in Live /\ Keeps(new, ses)
  BY <1>6, <1>7, KeepsTwice DEF Placed, Keeps, Live, PC
<1> QED BY <1>0, <1>1, <1>2, <1>3, <1>4, <1>6, <1>7, <1>8, LiveStep DEF ses, SamePlace

(* A nudge that went out is counted, by the worker's copy of the count.    *)
LEMMA SendNudgeIInv ==
  ASSUME IInv, NEW p \in Passes, SendNudge(p)
  PROVE  IInv'
<1> DEFINE ses == session[p]
           n == ses.lead.follow_up_count + 1
           v == [follow_up_count |-> n]
           b == Marked(p, "SENT")
           l == Override(b.lead, v)
           w == b.dirty \cup {f \in DOMAIN v : v[f] # b.lead[f]}
           c == Assign(b, v)
           k == b.nudged + 1
           d == [c EXCEPT !.goal = "arm", !.nudged = k]
           new == FlushThen(d, "cancel")
<1>0. p \in Sessions /\ p \notin Turns
  BY Disjoint
<1>1. ses.pc = "task" /\ ses.pc \in Live /\ ses.todo # {} /\ Verdict(p) = "OK"
  BY DEF SendNudge, At, Live, PC
<1>2. /\ ses \in Session /\ ses.lead \in Lead
      /\ {nudges, undone, late, deskUsed, faults} \subseteq Nat
  BY <1>0, <1>1, LiveSession
<1>3. /\ Keeps(b, ses) /\ b.pc = "task"
      /\ DOMAIN b.marks \subseteq DOMAIN tasks /\ b.todo \subseteq DOMAIN tasks
  BY <1>1, MarkedKeeps DEF FollowUpStatus
<1>4. n \in Nat /\ n - 1 = b.lead.follow_up_count /\ n <= max_attempts
  <2>1. ~(ses.lead.follow_up_count >= max_attempts)
    BY <1>1 DEF Verdict, check_eligibility
  <2>2. ses.lead.follow_up_count \in Nat
    BY <1>2 DEF Lead
  <2> QED BY <1>3, <2>1, <2>2, LeadStoreAssumption DEF Keeps
<1>5. Set(p, FlushThen([c EXCEPT !.goal = "arm", !.nudged = @ + 1], "cancel"))
  BY DEF SendNudge
<1>6. /\ UNCHANGED <<lead, convs, tasks, inbox, undone, deskUsed, faults>>
      /\ nudges' = nudges + 1
  BY DEF SendNudge
<1>7. late' \in Nat
  BY <1>2 DEF SendNudge
<1>f. Fits(p, ses)
  BY <1>0 DEF IInv
<1> HIDE DEF ses, b, n
<1>8. b \in Session /\ b.lead \in Lead /\ "follow_up_count" \in Attribute
  BY <1>3 DEF Keeps, Attribute
<1>9. l \in Lead
  BY <1>4, <1>8, OverrideLead
<1>10. l.consent = b.lead.consent /\ l.follow_up_count = n
  BY <1>8 DEF Override, Lead
<1>11. /\ w \in SUBSET (Attribute \cup {"last_outbound"})
       /\ "consent" \in w <=> "consent" \in b.dirty
       /\ "follow_up_count" \in w
  BY <1>4, <1>8 DEF Session
<1>12. c = [b EXCEPT !.lead = l, !.dirty = w]
  BY <1>8 DEF Assign, Session
<1> HIDE DEF l, w
<1>13. /\ c \in Session /\ c.lead = l /\ c.dirty = w /\ c.seen = b.seen
       /\ c.conv_dirty = b.conv_dirty /\ c.nudged = b.nudged
       /\ c.marks = b.marks /\ c.todo = b.todo
  BY <1>8, <1>9, <1>11, <1>12 DEF Session
<1> HIDE DEF c
<1>14. k \in Nat /\ k = ses.nudged + 1 /\ d = [c EXCEPT !.goal = "arm", !.nudged = @ + 1]
  BY <1>3, <1>13 DEF Keeps, Session
<1>15. Set(p, new)
  BY <1>5, <1>14
<1> HIDE DEF k
<1>16. /\ d \in Session /\ d.lead = l /\ d.dirty = w /\ d.seen = b.seen
       /\ d.conv_dirty = b.conv_dirty /\ d.nudged = k /\ d.goal = "arm"
       /\ d.marks = b.marks /\ d.todo = b.todo
  BY <1>13, <1>14 DEF Session, PC
<1> HIDE DEF d
<1>17. /\ new \in Session /\ new.lead = l /\ new.dirty = w /\ new.seen = b.seen
       /\ new.conv_dirty = b.conv_dirty /\ new.nudged = k /\ new.goal = "arm"
       /\ new.pc = "flush" /\ new.after = "cancel"
       /\ new.marks = b.marks /\ new.todo = b.todo
  BY <1>16 DEF Session, PC, FlushThen
<1> HIDE DEF new
<1>18. Fits(p, new)
  <2>1. Placed(new)
    BY <1>9, <1>17 DEF Placed, Live, PC
  <2>2. RowsExist(new)
    BY <1>3, <1>17, <1>f DEF RowsExist, Fits, Keeps
  <2>3. ChangesOK(p, new)
    BY <1>3, <1>10, <1>11, <1>17, <1>f DEF ChangesOK, Fits, Keeps, Live, PC
  <2> QED BY <1>0, <1>17, <2>1, <2>2, <2>3 DEF Fits, HonoursStop
<1>19. Counted'
  <2> SUFFICES ASSUME OneWorker PROVE Counted'
    BY DEF Counted, OneWorker
  <2>1. CountKnown(p) /\ lead.follow_up_count <= max_attempts
    BY DEF IInv, Counted
  <2>2. \A q \in Passes : q = p
    BY DEF OneWorker
  <2>3. session'[p] = new
    BY <1>0, <1>15 DEF Set, IInv
  <2>4. lead.follow_up_count \in Nat /\ ses.nudged \in Nat /\ nudges \in Nat /\ undone \in Nat
    BY <1>2 DEF IInv, TypeOK, Lead, Session
  <2>5. ses.lead.follow_up_count = n - 1 /\ n = lead.follow_up_count + k
        /\ nudges' = lead.follow_up_count + undone + k
    BY <1>1, <1>3, <1>4, <1>6, <1>14, <2>1, <2>4 DEF CountKnown, ses, n, Keeps
  <2>6. CountKnown(p)'
    BY <1>4, <1>6, <1>10, <1>11, <1>17, <2>3, <2>5 DEF CountKnown
  <2>7. nudges' <= max_attempts + undone'
    <3>1. k \in Nat /\ n <= max_attempts /\ undone' = undone
      BY <1>4, <1>6, <1>14
    <3>2. max_attempts \in Nat
      BY LeadStoreAssumption
    <3> QED BY <2>4, <2>5, <3>1, <3>2
  <2> QED BY <1>6, <2>1, <2>2, <2>6, <2>7 DEF Counted
<1>20. {nudges', undone', late', deskUsed', faults'} \subseteq Nat
  BY <1>2, <1>6, <1>7
<1> QED BY <1>0, <1>6, <1>15, <1>18, <1>19, <1>20, LocalStep

-----------------------------------------------------------------------------
(* A session that starts: what it opens.                                   *)
LEMMA OpenSession ==
  ASSUME IInv, NEW pc \in PC, NEW k \in 0..Len(convs)
  PROVE  LET o == Open(pc, k)
         IN  /\ o \in Session /\ o.lead = lead /\ o.lead \in Lead /\ o.pc = pc
             /\ o.dirty = {} /\ o.seen = k /\ ~o.conv_dirty /\ o.nudged = 0
             /\ DOMAIN o.marks = {} /\ o.todo = {} /\ o.message = 0
<1> DEFINE none == <<>>
           c == IF k = 0 THEN "CLOSED" ELSE convs[k]
<1>1. none \in Seq(Task) /\ none \in Marks /\ DOMAIN none = {}
  <2>1. none \in [{} -> FollowUpStatus] /\ DOMAIN none = {}
    OBVIOUS
  <2> HIDE DEF none
  <2>2. none \in Marks
    BY <2>1 DEF Marks
  <2> QED BY <2>1, <2>2 DEF none
<1>2. c \in ConversationStatus /\ lead \in Lead /\ k \in Nat
  BY DEF IInv, TypeOK, ConversationStatus
<1> HIDE DEF none
<1>3. /\ Blank \in Session /\ Blank.lead = lead /\ Blank.dirty = {} /\ ~Blank.conv_dirty
      /\ Blank.nudged = 0 /\ DOMAIN Blank.marks = {} /\ Blank.todo = {} /\ Blank.message = 0
  BY <1>1, <1>2 DEF Blank, none, Session, PC, ConversationStatus
<1>4. Open(pc, k) = [Blank EXCEPT !.pc = pc, !.seen = k, !.conv = c]
  BY DEF Open
<1> HIDE DEF c
<1> QED BY <1>2, <1>3, <1>4 DEF Session

(* A dashboard request, or a pass that reads the lead.                     *)
LEMMA StartStep ==
  ASSUME IInv, NEW s \in Desks \cup Passes, session[s].pc \notin Live,
         NEW new, Set(s, new), NEW pc \in PC, NEW k \in 0..Len(convs),
         Keeps(new, Open(pc, k)), new.pc \in Live, Placed(new),
         DOMAIN new.marks \subseteq DOMAIN tasks, new.todo \subseteq DOMAIN tasks,
         UNCHANGED <<lead, convs, tasks, inbox, nudges, undone, late, faults>>,
         deskUsed' \in Nat
  PROVE  IInv'
<1> DEFINE o == Open(pc, k)
<1>0. s \in Sessions /\ s \notin Turns
  BY Disjoint
<1>1. /\ o \in Session /\ o.lead = lead /\ o.dirty = {} /\ o.seen = k /\ ~o.conv_dirty
      /\ o.nudged = 0
  BY OpenSession
<1>2. Keeps(new, o)
  OBVIOUS
<1> HIDE DEF o
<1>3. Fits(s, session[s])
  BY <1>0 DEF IInv
<1>4. Fits(s, new)
  <2>1. RowsExist(new)
    BY <1>1, <1>2 DEF RowsExist, Keeps
  <2>2. ChangesOK(s, new)
    BY <1>1, <1>2 DEF ChangesOK, Keeps
  <2> QED BY <1>0, <1>2, <2>1, <2>2 DEF Fits, Keeps, HonoursStop
<1>5. Counted'
  <2>1. session[s].nudged = 0 /\ session[s].dirty = {}
    BY <1>3 DEF Fits, ChangesOK
  <2>2. lead.follow_up_count \in Nat
    BY DEF IInv, TypeOK, Lead
  <2>3. new.nudged = 0 /\ new.lead.follow_up_count = lead.follow_up_count + new.nudged
    BY <1>1, <1>2, <2>2 DEF Keeps
  <2> QED BY <1>0, <2>1, <2>3, CountStays
<1>6. {nudges', undone', late', deskUsed', faults'} \subseteq Nat
  BY DEF IInv, TypeOK
<1> QED BY <1>0, <1>4, <1>5, <1>6, LocalStep

LEMMA ConvsLength ==
  ASSUME IInv
  PROVE  Len(convs) \in 0..Len(convs) /\ Len(convs) \in Nat
BY DEF IInv, TypeOK

LEMMA RequestIInv ==
  ASSUME IInv, NEW d \in Desks, take_over(d) \/ release(d) \/ send_message(d)
  PROVE  IInv'
<1> DEFINE k == Len(convs)
           o == Open("cancel", k)
           e == Escalate(o)
           f == [e EXCEPT !.goal = "commit"]
           a == Assign(o, [status |-> "ENGAGED", handed_off |-> FALSE])
           b == AssignConv(a, "ACTIVE")
           g == [b EXCEPT !.goal = "arm"]
           h == FlushThen(g, "cancel")
           m == Open("send", k)
<1>1. PICK new \in {f, h, m} : Request(d, new)
  BY DEF take_over, release, send_message
<1>2. /\ session[d].pc \notin Live /\ Set(d, new)
      /\ UNCHANGED <<lead, convs, tasks, inbox, nudges, undone, late, faults>>
      /\ deskUsed' \in Nat
  BY <1>1 DEF Request, At, Live, IInv, TypeOK
<1>3. /\ o \in Session /\ o.lead \in Lead /\ o.pc = "cancel"
      /\ DOMAIN o.marks = {} /\ o.todo = {}
      /\ m \in Session /\ m.lead \in Lead /\ m.pc = "send"
      /\ DOMAIN m.marks = {} /\ m.todo = {}
  BY OpenSession, ConvsLength DEF PC
<1>k. k \in 0..Len(convs) /\ "cancel" \in PC /\ "send" \in PC
  BY ConvsLength DEF PC
<1> HIDE DEF o, m
<1>4. CASE new = f
  <2>1. Keeps(e, o) /\ SamePlace(e, o)
    BY <1>3, EscalateKeeps
  <2> HIDE DEF e
  <2>2. Keeps(f, e) /\ f.pc = "cancel" /\ f.goal = "commit" /\ DOMAIN f.marks = {} /\ f.todo = {}
    BY <1>3, <2>1 DEF Keeps, SamePlace, Session, PC
  <2> HIDE DEF f
  <2>3. Keeps(f, o) /\ Placed(f) /\ f.pc \in Live
    BY <2>1, <2>2, KeepsTwice DEF Placed, Keeps, Live, PC
  <2> QED BY <1>2, <1>4, <1>k, <2>2, <2>3, StartStep DEF o
<1>5. CASE new = h
  <2>1. Keeps(a, o) /\ SamePlace(a, o)
    BY <1>3, AssignKeeps DEF Attribute, LeadStatus
  <2> HIDE DEF a
  <2>2. Keeps(b, a) /\ SamePlace(b, a)
    BY <2>1, AssignConvKeeps DEF Keeps, ConversationStatus
  <2> HIDE DEF b
  <2>3. Keeps(g, b) /\ g.goal = "arm" /\ g.marks = b.marks /\ g.todo = b.todo
    BY <2>2 DEF Keeps, Session, PC
  <2> HIDE DEF g
  <2>4. Keeps(h, g) /\ h.pc = "flush" /\ h.after = "cancel" /\ h.goal = "arm"
        /\ h.marks = g.marks /\ h.todo = g.todo
    BY <2>3, FlushKeeps DEF Keeps, PC
  <2> HIDE DEF h
  <2>5. Keeps(h, o)
    BY <2>1, <2>2, <2>3, <2>4, KeepsTwice
  <2>6. Placed(h) /\ h.pc \in Live /\ DOMAIN h.marks = {} /\ h.todo = {}
    BY <1>3, <2>1, <2>2, <2>3, <2>4, <2>5 DEF Placed, Keeps, SamePlace, Live, PC
  <2> QED BY <1>2, <1>5, <1>k, <2>5, <2>6, StartStep DEF o
<1>6. CASE new = m
  <2>1. Keeps(m, m) /\ Placed(m) /\ m.pc \in Live
    BY <1>3, KeepsItself DEF Placed, Live, PC
  <2> QED BY <1>2, <1>3, <1>6, <1>k, <2>1, StartStep DEF m
<1> QED BY <1>1, <1>4, <1>5, <1>6

LEMMA ReadLeadIInv ==
  ASSUME IInv, NEW p \in Passes, ReadLead(p)
  PROVE  IInv'
<1> DEFINE ses == session[p]
           k == Len(convs)
           o == Open("task", k)
           new == [o EXCEPT !.todo = ses.todo, !.locks = ses.locks]
<1>0. p \in Sessions
  BY Disjoint
<1>1. /\ ses.pc = "read" /\ Set(p, new)
      /\ UNCHANGED <<lead, convs, tasks, inbox, nudges, undone, late, deskUsed, faults>>
  BY DEF ReadLead, At
<1>2. ses \in Session /\ ses.todo \subseteq DOMAIN tasks /\ deskUsed' \in Nat
  BY <1>0, <1>1 DEF IInv, Fits, RowsExist, TypeOK
<1>3. /\ o \in Session /\ o.lead \in Lead /\ o.pc = "task" /\ DOMAIN o.marks = {}
      /\ k \in 0..Len(convs) /\ "task" \in PC
  BY OpenSession, ConvsLength DEF PC
<1>4. ses.todo \in SUBSET Nat /\ ses.locks \in SUBSET ({"lead", "conv", "task"} \X Nat)
  BY <1>2 DEF Session
<1>n. ses.pc \notin Live
  BY <1>1 DEF Live
<1> HIDE DEF ses, o
<1>5. Keeps(new, o) /\ new.pc = "task" /\ new.marks = o.marks /\ new.todo = ses.todo
  BY <1>3, <1>4 DEF Keeps, Session
<1> HIDE DEF new, k
<1>6. Placed(new) /\ new.pc \in Live
  BY <1>5 DEF Placed, Keeps, Live, PC
<1> QED BY <1>1, <1>2, <1>3, <1>5, <1>6, <1>n, StartStep DEF ses, o

LEMMA IdleSession ==
  ASSUME IInv
  PROVE  /\ Idle \in Session /\ Idle.pc = "idle" /\ Idle.dirty = {} /\ ~Idle.conv_dirty
         /\ Idle.nudged = 0 /\ Idle.seen = 0 /\ DOMAIN Idle.marks = {} /\ Idle.todo = {}
<1> DEFINE none == <<>>
<1>1. none \in Seq(Task) /\ none \in Marks /\ DOMAIN none = {} /\ lead \in Lead
  <2>1. none \in [{} -> FollowUpStatus] /\ DOMAIN none = {}
    OBVIOUS
  <2>2. lead \in Lead
    BY DEF IInv, TypeOK
  <2> HIDE DEF none
  <2>3. none \in Marks
    BY <2>1 DEF Marks
  <2> QED BY <2>1, <2>2, <2>3 DEF none
<1> HIDE DEF none
<1>2. /\ Blank \in Session /\ Blank.dirty = {} /\ ~Blank.conv_dirty /\ Blank.pc = "idle"
      /\ Blank.nudged = 0 /\ Blank.seen = 0 /\ DOMAIN Blank.marks = {} /\ Blank.todo = {}
  BY <1>1 DEF Blank, none, Session, PC, ConversationStatus
<1> QED BY <1>2 DEF Idle, Session

(* An idle session fits anything.                                          *)
LEMMA IdleFits ==
  ASSUME IInv, NEW s \in Sessions, NEW new \in Session, new.pc = "idle", new.dirty = {},
         ~new.conv_dirty, new.nudged = 0, new.seen = 0, DOMAIN new.marks = {}, new.todo = {},
         convs' \in Seq(ConversationStatus)
  PROVE  Fits(s, new) /\ Fits(s, new)'
<1>1. 0 <= Len(convs) /\ 0 <= Len(convs')
  BY DEF IInv, TypeOK
<1> QED BY <1>1 DEF Fits, Placed, RowsExist, ChangesOK, HonoursStop, Live

LEMMA BeginPassIInv ==
  ASSUME IInv, NEW p \in Passes, BeginPass(p)
  PROVE  IInv'
<1>0. p \in Sessions /\ p \notin Turns
  BY Disjoint
<1>1. PICK batch \in SUBSET DOMAIN tasks :
        Set(p, [Idle EXCEPT !.pc = "read", !.todo = batch,
                            !.locks = {<<"task", j>> : j \in batch}])
  BY DEF BeginPass, due_tasks
<1>2. /\ At(p, "idle")
      /\ UNCHANGED <<lead, convs, tasks, inbox, nudges, undone, late, deskUsed, faults>>
  BY DEF BeginPass
<1> DEFINE rows == {<<"task", j>> : j \in batch}
           new == [Idle EXCEPT !.pc = "read", !.todo = batch, !.locks = rows]
<1>3. batch \in SUBSET Nat /\ rows \in SUBSET ({"lead", "conv", "task"} \X Nat)
  BY DEF IInv, TypeOK
<1>4. Set(p, new)
  BY <1>1
<1> HIDE DEF rows
<1>5. /\ new \in Session /\ new.pc = "read" /\ new.dirty = {} /\ ~new.conv_dirty
      /\ new.nudged = 0 /\ new.seen = 0 /\ DOMAIN new.marks = {} /\ new.todo = batch
  BY <1>3, IdleSession DEF Session, PC
<1> HIDE DEF new
<1>6. 0 <= Len(convs)
  BY ConvsLength
<1>7. Fits(p, new)
  BY <1>0, <1>5, <1>6 DEF Fits, Placed, RowsExist, ChangesOK, HonoursStop, Live
<1>8. Counted'
  <2>1. Fits(p, session[p])
    BY <1>0 DEF IInv
  <2>2. session[p].nudged = 0 /\ session[p].dirty = {}
    BY <1>2, <2>1 DEF Fits, ChangesOK, At, Live
  <2>3. new.pc \notin Live
    BY <1>5 DEF Live
  <2> QED BY <1>0, <1>2, <1>4, <1>5, <2>2, <2>3, CountStays
<1>9. {nudges', undone', late', deskUsed', faults'} \subseteq Nat
  BY <1>2 DEF IInv, TypeOK
<1> QED BY <1>0, <1>2, <1>4, <1>7, <1>8, <1>9, LocalStep

-----------------------------------------------------------------------------
(* Steps that change the inbox or commit.                                  *)

(* What has to be seen to for a step of at most one session s in S that    *)
(* others notice: the sessions beside it fit what they find.               *)
LEMMA Around ==
  ASSUME IInv, NEW S \in SUBSET Sessions, \A s, u \in S : s = u,
         session' \in [Sessions -> Session],
         \A q \in Sessions \ S : session'[q] = session[q],
         \A s \in S : Fits(s, session[s])',
         TypeOK', Counted', Len(inbox') <= Messages,
         Len(convs) <= Len(convs'), DOMAIN tasks \subseteq DOMAIN tasks',
         DOMAIN inbox \subseteq DOMAIN inbox',
         lead.consent = "OPTED_OUT" => lead'.consent = "OPTED_OUT",
         \A j \in DOMAIN inbox' :
           /\ inbox'[j].state \in {"queued", "running"} => inbox'[j].tries < MAX_ATTEMPTS
           /\ inbox'[j].stop /\ inbox'[j].state = "done" => lead'.consent = "OPTED_OUT",
         \A t \in Turns \ S : session[t].pc # "idle" =>
           /\ inbox'[session[t].message].state = inbox[session[t].message].state
           /\ inbox'[session[t].message].stop = inbox[session[t].message].stop
           /\ \A s \in S \cap Turns :
                session'[s].pc # "idle" => session'[s].message # session[t].message
  PROVE  IInv'
<1>1. ASSUME NEW q \in Sessions PROVE Fits(q, session[q])'
  <2>1. CASE q \notin S
    <3>1. Fits(q, session[q]) /\ session'[q] = session[q]
      BY <2>1 DEF IInv
    <3>2. session[q] \in Session /\ Placed(session[q])
      BY <3>1 DEF Fits
    <3>3. RowsExist(session[q])'
      <4>1. convs \in Seq(ConversationStatus) /\ convs' \in Seq(ConversationStatus)
        BY DEF IInv, TypeOK
      <4>2. session[q].seen \in Nat
        BY <3>2 DEF Session
      <4>3. Len(convs) \in Nat /\ Len(convs') \in Nat
        BY <4>1
      <4> QED BY <3>1, <4>2, <4>3 DEF Fits, RowsExist
    <3>4. ChangesOK(q, session[q])'
      BY <3>1 DEF Fits, ChangesOK
    <3>5. HonoursStop(q, session[q])'
      BY <2>1, <3>1 DEF Fits, HonoursStop
    <3> QED BY <3>1, <3>2, <3>3, <3>4, <3>5 DEF Fits, Placed
  <2> QED BY <2>1
<1>2. OneTurnEach'
  <2>1. ASSUME NEW t \in Turns, NEW u \in Turns, t # u, ~At(t, "idle")', ~At(u, "idle")'
        PROVE  session'[t].message # session'[u].message
    <3>0. t \in Sessions /\ u \in Sessions
      BY Disjoint
    <3>1. CASE t \notin S /\ u \notin S
      BY <2>1, <3>0, <3>1 DEF IInv, OneTurnEach, At
    <3>2. CASE t \in S
      BY <2>1, <3>0, <3>2 DEF At
    <3>3. CASE u \in S
      BY <2>1, <3>0, <3>3 DEF At
    <3> QED BY <3>1, <3>2, <3>3
  <2> QED BY <2>1 DEF OneTurnEach
<1>3. StopRecorded'
  BY DEF StopRecorded
<1> QED BY <1>1, <1>2, <1>3 DEF IInv

Message(n) ==
  [state : {"queued", "running", "done", "limited", "dead"},
   stop : BOOLEAN, conv : 1..n, tries : 0..MAX_ATTEMPTS, late : Nat]

(* A message moves on: nothing else in the inbox does.                     *)
LEMMA InboxMoves ==
  ASSUME IInv, NEW i \in DOMAIN inbox, NEW e \in Message(Len(convs)),
         inbox' = [inbox EXCEPT ![i] = e], Len(convs') = Len(convs)
  PROVE  /\ inbox' \in Seq(Message(Len(convs'))) /\ Len(inbox') = Len(inbox)
         /\ DOMAIN inbox' = DOMAIN inbox /\ inbox'[i] = e
         /\ \A j \in DOMAIN inbox : j # i => inbox'[j] = inbox[j]
<1> DEFINE M == Message(Len(convs))
<1>1. inbox \in Seq(M)
  BY DEF IInv, TypeOK, Message
<1>2. M = Message(Len(convs'))
  OBVIOUS
<1> HIDE DEF M
<1>3. inbox' \in Seq(M) /\ Len(inbox') = Len(inbox) /\ DOMAIN inbox' = DOMAIN inbox
  BY <1>1 DEF M
<1>4. inbox'[i] = e /\ \A j \in DOMAIN inbox : j # i => inbox'[j] = inbox[j]
  BY <1>1
<1> QED BY <1>2, <1>3, <1>4

(* A message taken is still within its attempts.                           *)
LEMMA InboxTyped ==
  ASSUME IInv, NEW i \in DOMAIN inbox
  PROVE  /\ inbox[i].tries \in 0..MAX_ATTEMPTS /\ inbox[i].conv \in 1..Len(convs)
         /\ inbox[i].stop \in BOOLEAN /\ inbox[i].late \in Nat /\ i \in 1..Messages
         /\ inbox[i] \in Message(Len(convs))
<1>1. inbox \in Seq(Message(Len(convs))) /\ Len(inbox) <= Messages
  BY DEF IInv, TypeOK, Message
<1>2. inbox[i] \in Message(Len(convs)) /\ i \in 1..Messages
  BY <1>1, LeadStoreAssumption
<1> QED BY <1>2 DEF Message

(* A reply is late or not; the rest of the message is left alone.          *)
LEMMA AnsweredIs ==
  ASSUME IInv, NEW i \in DOMAIN inbox, NEW sent \in BOOLEAN
  PROVE  \E l \in {inbox[i].late, inbox[i].late + 1} :
           /\ l \in Nat
           /\ Answered(inbox[i], sent) = [inbox[i] EXCEPT !.late = l]
<1>1. inbox[i] \in Message(Len(convs))
  BY InboxTyped
<1>2. inbox[i] = [inbox[i] EXCEPT !.late = inbox[i].late] /\ inbox[i].late \in Nat
  BY <1>1 DEF Message
<1> QED BY <1>2 DEF Answered

(* A message is acknowledged unread.                                       *)
LEMMA UnreadMoves ==
  ASSUME IInv, NEW i \in DOMAIN inbox, RateLimited(i) \/ NotConfigured(i)
  PROVE  \E x \in {"limited", "dead"} :
           /\ inbox' \in Seq(Message(Len(convs'))) /\ Len(inbox') = Len(inbox)
           /\ DOMAIN inbox' = DOMAIN inbox
           /\ inbox'[i].tries = inbox[i].tries /\ inbox'[i].state = x
           /\ inbox'[i].late = inbox[i].late
           /\ \A j \in DOMAIN inbox : j # i => inbox'[j] = inbox[j]
<1>1. PICK x \in {"limited", "dead"} : inbox' = [inbox EXCEPT ![i].state = x]
  BY DEF RateLimited, NotConfigured
<1>2. Len(convs') = Len(convs)
  BY DEF RateLimited, NotConfigured
<1>3. inbox[i] \in Message(Len(convs)) /\ inbox[i].tries \in 0..MAX_ATTEMPTS
      /\ inbox[i].late \in Nat
  BY InboxTyped
<1> PICK e : e = [inbox[i] EXCEPT !.state = x]
  OBVIOUS
<1>4. /\ e \in Message(Len(convs))
      /\ e.tries = inbox[i].tries /\ e.state = x /\ e.late = inbox[i].late
  BY <1>3 DEF Message
<1>5. inbox' = [inbox EXCEPT ![i] = e]
  BY <1>1
<1>6. /\ inbox' \in Seq(Message(Len(convs'))) /\ Len(inbox') = Len(inbox)
      /\ DOMAIN inbox' = DOMAIN inbox /\ inbox'[i] = e
      /\ \A j \in DOMAIN inbox : j # i => inbox'[j] = inbox[j]
  BY <1>2, <1>4, <1>5, InboxMoves
<1> QED BY <1>4, <1>6

LEMMA UnreadIInv ==
  ASSUME IInv, NEW i \in DOMAIN inbox, RateLimited(i) \/ NotConfigured(i)
  PROVE  IInv'
<1>1. /\ inbox[i].state = "queued"
      /\ UNCHANGED <<lead, convs, tasks, session, nudges, undone, late, deskUsed, faults>>
  BY DEF RateLimited, NotConfigured
<1>2. PICK x \in {"limited", "dead"} :
        /\ inbox' \in Seq(Message(Len(convs'))) /\ Len(inbox') = Len(inbox)
        /\ DOMAIN inbox' = DOMAIN inbox
        /\ inbox'[i].state = x
        /\ \A j \in DOMAIN inbox : j # i => inbox'[j] = inbox[j]
  BY UnreadMoves
<1>3. /\ inbox' \in Seq(Message(Len(convs'))) /\ Len(inbox') = Len(inbox)
      /\ DOMAIN inbox' = DOMAIN inbox
      /\ inbox'[i].state \notin {"queued", "running", "done"}
      /\ \A j \in DOMAIN inbox : j # i => inbox'[j] = inbox[j]
  BY <1>2
<1>4. TypeOK'
  BY <1>1, <1>3 DEF IInv, TypeOK, Message
<1>5. ASSUME NEW t \in Turns, session[t].pc # "idle"
      PROVE  inbox'[session[t].message] = inbox[session[t].message]
  <2>1. HonoursStop(t, session[t])
    BY Disjoint DEF IInv, Fits
  <2> QED BY <1>1, <1>3, <1>5, <2>1 DEF HonoursStop
<1>6. Counted'
  BY <1>1 DEF IInv, Counted, OneWorker, CountKnown
<1>7. Len(inbox') <= Messages /\ Len(convs) <= Len(convs') /\ session \in [Sessions -> Session]
  BY <1>1, <1>3, ConvsLength DEF IInv
<1>8. \A j \in DOMAIN inbox' :
        /\ inbox'[j].state \in {"queued", "running"} => inbox'[j].tries < MAX_ATTEMPTS
        /\ inbox'[j].stop /\ inbox'[j].state = "done" => lead'.consent = "OPTED_OUT"
  BY <1>1, <1>3 DEF IInv, OneTurnEach, StopRecorded
<1> DEFINE S == {}
<1>9. S \in SUBSET Sessions /\ S \cap Turns = {}
  OBVIOUS
<1>10. /\ \A s, u \in S : s = u
       /\ \A q \in Sessions \ S : session'[q] = session[q]
       /\ \A s \in S : Fits(s, session[s])'
  BY <1>1
<1>11. \A t \in Turns \ S : session[t].pc # "idle" =>
           /\ inbox'[session[t].message].state = inbox[session[t].message].state
           /\ inbox'[session[t].message].stop = inbox[session[t].message].stop
           /\ \A s \in S \cap Turns :
                session'[s].pc # "idle" => session'[s].message # session[t].message
  BY <1>5, <1>9
<1> HIDE DEF S
<1> QED BY <1>1, <1>3, <1>4, <1>6, <1>7, <1>8, <1>9, <1>10, <1>11, Around

LEMMA ArriveIInv ==
  ASSUME IInv, Arrive
  PROVE  IInv'
<1> DEFINE n == Len(convs)
           k == IF OpenConvs = {} THEN Len(convs) + 1
                ELSE CHOOSE i \in OpenConvs : \A j \in OpenConvs : j <= i
<1>1. /\ Len(inbox) < Messages
      /\ convs' = IF OpenConvs = {} THEN Append(convs, "ACTIVE") ELSE convs
      /\ UNCHANGED <<lead, tasks, session, nudges, undone, late, deskUsed, faults>>
  BY DEF Arrive
<1>2. PICK text \in Texts[Len(inbox) + 1] :
        inbox' = Append(inbox, [state |-> "queued", stop |-> is_opt_out(text),
                                conv |-> k, tries |-> 0, late |-> 0])
  BY DEF Arrive
<1>3. convs \in Seq(ConversationStatus) /\ n \in Nat /\ OpenConvs \in SUBSET (1..n)
  BY DEF IInv, TypeOK, OpenConvs
<1>4. convs' \in Seq(ConversationStatus) /\ n <= Len(convs') /\ k \in 1..Len(convs')
  <2>1. CASE OpenConvs = {}
    BY <1>1, <1>3, <2>1 DEF ConversationStatus
  <2>2. CASE OpenConvs # {}
    <3>1. k \in OpenConvs
      BY <1>3, <2>2, MaxExists
    <3> HIDE DEF k
    <3> QED BY <1>1, <1>3, <2>2, <3>1
  <2> QED BY <2>1, <2>2
<1> HIDE DEF k
<1> DEFINE e == [state |-> "queued", stop |-> is_opt_out(text), conv |-> k, tries |-> 0,
                 late |-> 0]
<1>5. e \in Message(Len(convs')) /\ e.state = "queued" /\ e.tries = 0
  <2>1. is_opt_out(text) \in BOOLEAN
    BY DEF is_opt_out
  <2> QED BY <1>4, <2>1, LeadStoreAssumption DEF Message
<1>6. inbox' = Append(inbox, e)
  BY <1>2
<1> HIDE DEF e
<1>7. inbox \in Seq(Message(n))
  BY DEF IInv, TypeOK, Message
<1>8. inbox \in Seq(Message(Len(convs')))
  <2>1. Message(n) \subseteq Message(Len(convs'))
    BY <1>3, <1>4 DEF Message
  <2> HIDE DEF n
  <2> QED BY <1>7, <2>1
<1>9. /\ inbox' \in Seq(Message(Len(convs'))) /\ Len(inbox') = Len(inbox) + 1
      /\ \A j \in DOMAIN inbox : inbox'[j] = inbox[j]
      /\ DOMAIN inbox' = DOMAIN inbox \cup {Len(inbox) + 1}
      /\ inbox'[Len(inbox) + 1] = e
  <2> HIDE DEF n
  <2> QED BY <1>5, <1>6, <1>8
<1>10. TypeOK'
  BY <1>1, <1>4, <1>9 DEF IInv, TypeOK, Message
<1>11. Counted'
  BY <1>1 DEF IInv, Counted, OneWorker, CountKnown
<1>12. Len(inbox) \in Nat /\ Len(inbox') <= Messages /\ session \in [Sessions -> Session]
  BY <1>1, <1>7, <1>9, LeadStoreAssumption DEF IInv
<1>13. \A j \in DOMAIN inbox' :
         /\ inbox'[j].state \in {"queued", "running"} => inbox'[j].tries < MAX_ATTEMPTS
         /\ inbox'[j].stop /\ inbox'[j].state = "done" => lead'.consent = "OPTED_OUT"
  BY <1>1, <1>5, <1>9, LeadStoreAssumption DEF IInv, OneTurnEach, StopRecorded
<1>14. ASSUME NEW t \in Turns, session[t].pc # "idle"
       PROVE  inbox'[session[t].message] = inbox[session[t].message]
  <2>1. HonoursStop(t, session[t])
    BY Disjoint DEF IInv, Fits
  <2> QED BY <1>9, <1>14, <2>1 DEF HonoursStop
<1> DEFINE S == {}
<1>15. S \in SUBSET Sessions /\ S \cap Turns = {}
  OBVIOUS
<1>16. /\ \A s, u \in S : s = u
       /\ \A q \in Sessions \ S : session'[q] = session[q]
       /\ \A s \in S : Fits(s, session[s])'
  BY <1>1
<1>17. \A t \in Turns \ S : session[t].pc # "idle" =>
           /\ inbox'[session[t].message].state = inbox[session[t].message].state
           /\ inbox'[session[t].message].stop = inbox[session[t].message].stop
           /\ \A s \in S \cap Turns :
                session'[s].pc # "idle" => session'[s].message # session[t].message
  BY <1>14, <1>15
<1> HIDE DEF S
<1> QED BY <1>1, <1>4, <1>9, <1>10, <1>11, <1>12, <1>13, <1>15, <1>16, <1>17, Around

(* The stop is honoured first, whoever owns the lead.                      *)
LEMMA HandleInbound ==
  ASSUME IInv, NEW i \in DOMAIN inbox, NEW a \in Session, a.lead \in Lead,
         a.message = i, a.pc = "model", a.seen # 0, DOMAIN a.marks = {}, a.todo = {},
         a.nudged = 0, a.lead.consent = lead.consent,
         "consent" \notin a.dirty, "follow_up_count" \notin a.dirty
  PROVE  LET new == handle_inbound(a)
         IN  /\ new \in Session /\ Placed(new) /\ new.pc \in Live /\ new.seen = a.seen
             /\ new.message = i /\ DOMAIN new.marks = {} /\ new.todo = {} /\ new.nudged = 0
             /\ "follow_up_count" \notin new.dirty
             /\ "consent" \in new.dirty => new.lead.consent = "OPTED_OUT"
             /\ inbox[i].stop =>
                  /\ new.lead.consent = "OPTED_OUT"
                  /\ "consent" \in new.dirty \/ lead.consent = "OPTED_OUT"
<1> DEFINE new == handle_inbound(a)
<1>1. CASE inbox[i].stop
  <2> DEFINE v == [consent |-> "OPTED_OUT", status |-> "OPTED_OUT"]
             l == Override(a.lead, v)
             w == a.dirty \cup {f \in DOMAIN v : v[f] # a.lead[f]}
             b == Assign(a, v)
             c == AssignConv(b, "CLOSED")
             d == [c EXCEPT !.pc = "cancel", !.goal = "commit"]
  <2>1. new = d
    BY <1>1 DEF handle_inbound, OptOut
  <2>2. l \in Lead
    BY OverrideLead DEF Attribute, LeadStatus
  <2>3. l.consent = "OPTED_OUT"
    BY DEF Override, Lead
  <2>4. /\ w \in SUBSET (Attribute \cup {"last_outbound"})
        /\ "follow_up_count" \notin w
        /\ "consent" \in w \/ lead.consent = "OPTED_OUT"
    BY DEF Session, Attribute
  <2>5. b = [a EXCEPT !.lead = l, !.dirty = w]
    BY DEF Assign, Session
  <2> HIDE DEF l, w
  <2>x. b \in Session
    <3>1. w \in SUBSET (Attribute \cup {"last_outbound"}) /\ l \in Lead \cup {<<>>}
      BY <2>2, <2>4
    <3> HIDE DEF b
    <3> QED BY <2>5, <3>1 DEF Session
  <2>y. /\ b.lead = l /\ b.dirty = w /\ b.seen = a.seen /\ b.message = i
        /\ b.marks = a.marks /\ b.todo = a.todo /\ b.nudged = 0
    BY <2>5 DEF Session
  <2>6. /\ b \in Session /\ b.lead = l /\ b.dirty = w /\ b.seen = a.seen /\ b.message = i
        /\ b.marks = a.marks /\ b.todo = a.todo /\ b.nudged = 0
    BY <2>x, <2>y
  <2> HIDE DEF b
  <2>7. /\ c \in Session /\ c.lead = l /\ c.dirty = w /\ c.seen = a.seen /\ c.message = i
        /\ c.marks = a.marks /\ c.todo = a.todo /\ c.nudged = 0
    BY <2>6 DEF AssignConv, Session, ConversationStatus
  <2> HIDE DEF c
  <2>8. /\ d \in Session /\ d.lead = l /\ d.dirty = w /\ d.seen = a.seen /\ d.message = i
        /\ d.marks = a.marks /\ d.todo = a.todo /\ d.nudged = 0
        /\ d.pc = "cancel" /\ d.goal = "commit"
    BY <2>7 DEF Session, PC
  <2> HIDE DEF d
  <2>9. Placed(d) /\ d.pc \in Live
    BY <2>2, <2>8 DEF Placed, Live, PC
  <2> QED BY <2>1, <2>3, <2>4, <2>8, <2>9
<1>2. CASE ~inbox[i].stop
  <2>1. SUFFICES Keeps(new, a) /\ Placed(new) /\ new.pc \in Live
                 /\ new.marks = a.marks /\ new.todo = a.todo
    BY <1>2, <2>1 DEF Keeps
  <2>2. CASE HumanOwns(a)
    <3> DEFINE b == AssignConv(a, "HUMAN_TAKEOVER")
               c == [b EXCEPT !.pc = "cancel", !.goal = "commit", !.reply = FALSE]
    <3>1. new = c
      BY <1>2, <2>2 DEF handle_inbound, StaySilent
    <3>2. Keeps(b, a) /\ SamePlace(b, a)
      BY AssignConvKeeps DEF ConversationStatus
    <3> HIDE DEF b
    <3>3. Keeps(c, b) /\ c.pc = "cancel" /\ c.goal = "commit" /\ c.marks = b.marks /\ c.todo = b.todo
      BY <3>2 DEF Keeps, Session, PC
    <3> HIDE DEF c, new
    <3> QED BY <3>1, <3>2, <3>3, KeepsTwice DEF Placed, Keeps, SamePlace, Live, PC
  <2>3. CASE ~HumanOwns(a) /\ a.lead.high_budget
    <3> DEFINE e == Escalate(a)
               f == FlushThen(e, "model")
    <3>1. new = f
      BY <1>2, <2>3 DEF handle_inbound
    <3>2. Keeps(e, a) /\ SamePlace(e, a)
      BY EscalateKeeps
    <3> HIDE DEF e
    <3>3. Keeps(f, e) /\ f.pc = "flush" /\ f.after = "model" /\ f.marks = e.marks /\ f.todo = e.todo
      BY <3>2, FlushKeeps DEF Keeps, PC
    <3> HIDE DEF f, new
    <3> QED BY <3>1, <3>2, <3>3, KeepsTwice DEF Placed, Keeps, SamePlace, Live, PC
  <2>4. CASE ~HumanOwns(a) /\ ~a.lead.high_budget
    <3>1. new = [a EXCEPT !.pc = "model"]
      BY <1>2, <2>4 DEF handle_inbound
    <3> QED BY <3>1 DEF Placed, Keeps, Session, Live, PC
  <2> QED BY <2>2, <2>3, <2>4
<1> QED BY <1>1, <1>2

LEMMA BeginTurnIInv ==
  ASSUME IInv, NEW t \in Turns, NEW i \in DOMAIN inbox, BeginTurn(t, i)
  PROVE  IInv'
<1> DEFINE k == inbox[i].conv
           o == Open("model", k)
           m == [o EXCEPT !.message = i, !.reply = TRUE]
           v == [last_inbound |-> i]
           a == Assign(m, v)
           begun == handle_inbound(a)
<1>0. t \in Sessions /\ t \notin Passes
  BY Disjoint
<1>1. /\ session[t].pc = "idle" /\ inbox[i].state = "queued" /\ Set(t, begun)
      /\ UNCHANGED <<lead, convs, tasks, nudges, undone, late, deskUsed, faults>>
  BY DEF BeginTurn, At
<1>2. k \in 1..Len(convs) /\ k # 0 /\ k \in 0..Len(convs) /\ i \in 1..Messages
      /\ i \in Nat /\ i \in 0..Messages
  BY InboxTyped, ConvsLength, LeadStoreAssumption
<1>3. /\ o \in Session /\ o.lead = lead /\ o.lead \in Lead /\ o.pc = "model"
      /\ o.dirty = {} /\ o.seen = k /\ ~o.conv_dirty /\ o.nudged = 0
      /\ DOMAIN o.marks = {} /\ o.todo = {}
  BY <1>2, OpenSession DEF PC
<1> HIDE DEF o, k
<1>4. /\ m \in Session /\ m.message = i /\ m.lead = lead /\ m.lead \in Lead /\ m.pc = "model"
      /\ m.dirty = {} /\ m.seen = k /\ ~m.conv_dirty /\ m.nudged = 0
      /\ DOMAIN m.marks = {} /\ m.todo = {}
  BY <1>2, <1>3 DEF Session
<1> HIDE DEF m
<1>5. Keeps(a, m) /\ SamePlace(a, m)
  BY <1>2, <1>4, AssignKeeps DEF Attribute
<1> HIDE DEF a
<1>p. PICK new : new = begun
  OBVIOUS
<1>6. /\ new \in Session /\ Placed(new) /\ new.pc \in Live /\ new.seen = k
      /\ new.message = i /\ DOMAIN new.marks = {} /\ new.todo = {} /\ new.nudged = 0
      /\ "follow_up_count" \notin new.dirty
      /\ "consent" \in new.dirty => new.lead.consent = "OPTED_OUT"
      /\ inbox[i].stop =>
           /\ new.lead.consent = "OPTED_OUT"
           /\ "consent" \in new.dirty \/ lead.consent = "OPTED_OUT"
  <2>1. /\ a \in Session /\ a.lead \in Lead /\ a.message = i /\ a.pc = "model" /\ a.seen = k
        /\ DOMAIN a.marks = {} /\ a.todo = {} /\ a.nudged = 0 /\ a.lead.consent = lead.consent
        /\ "consent" \notin a.dirty /\ "follow_up_count" \notin a.dirty
    BY <1>4, <1>5 DEF Keeps, SamePlace
  <2> QED BY <1>2, <1>p, <2>1, HandleInbound
<1> HIDE DEF begun
<1>s. Set(t, new)
  BY <1>1, <1>p
<1>7. PICK e \in Message(Len(convs)) :
        /\ inbox' = [inbox EXCEPT ![i] = e]
        /\ e.state = "running" /\ e.tries = inbox[i].tries /\ e.stop = inbox[i].stop
  <2>1. inbox[i] \in Message(Len(convs))
    BY InboxTyped
  <2>2. PICK e : e = [inbox[i] EXCEPT !.state = "running"]
    OBVIOUS
  <2>3. /\ e \in Message(Len(convs)) /\ e.state = "running" /\ e.tries = inbox[i].tries
        /\ e.stop = inbox[i].stop
    BY <2>1, <2>2 DEF Message
  <2>4. inbox' = [inbox EXCEPT ![i] = e]
    BY <2>2 DEF BeginTurn
  <2> QED BY <2>3, <2>4
<1>m. /\ inbox' \in Seq(Message(Len(convs'))) /\ Len(inbox') = Len(inbox)
      /\ DOMAIN inbox' = DOMAIN inbox /\ inbox'[i] = e
      /\ \A j \in DOMAIN inbox : j # i => inbox'[j] = inbox[j]
  BY <1>1, <1>7, InboxMoves
<1>8. /\ inbox' \in Seq(Message(Len(convs'))) /\ Len(inbox') = Len(inbox)
      /\ DOMAIN inbox' = DOMAIN inbox
      /\ inbox'[i].state = "running" /\ inbox'[i].tries = inbox[i].tries
      /\ inbox'[i].stop = inbox[i].stop
      /\ \A j \in DOMAIN inbox : j # i => inbox'[j] = inbox[j]
  BY <1>7, <1>m
<1>9. /\ session' \in [Sessions -> Session] /\ session'[t] = new
      /\ \A q \in Sessions \ {t} : session'[q] = session[q]
  BY <1>0, <1>6, <1>s DEF IInv, Set
<1>10. TypeOK'
  BY <1>1, <1>8, <1>9 DEF IInv, TypeOK, Message, Session
<1>11. Fits(t, session[t])'
  <2>1. RowsExist(new)'
    <3>1. k <= Len(convs')
      BY <1>1, <1>2
    <3> QED BY <1>2, <1>6, <3>1 DEF RowsExist
  <2>2. ChangesOK(t, new)'
    BY <1>6 DEF ChangesOK
  <2>3. HonoursStop(t, new)'
    BY <1>1, <1>6, <1>8 DEF HonoursStop
  <2> QED BY <1>6, <1>9, <2>1, <2>2, <2>3 DEF Fits, Placed
<1>12. Counted'
  BY <1>0, <1>1, <1>s, CountStays
<1>13. \A j \in DOMAIN inbox' :
         /\ inbox'[j].state \in {"queued", "running"} => inbox'[j].tries < MAX_ATTEMPTS
         /\ inbox'[j].stop /\ inbox'[j].state = "done" => lead'.consent = "OPTED_OUT"
  BY <1>1, <1>8 DEF IInv, OneTurnEach, StopRecorded
<1>14. ASSUME NEW u \in Turns \ {t}, session[u].pc # "idle"
       PROVE  /\ inbox'[session[u].message].state = inbox[session[u].message].state
              /\ inbox'[session[u].message].stop = inbox[session[u].message].stop
              /\ session'[t].message # session[u].message
  <2>1. HonoursStop(u, session[u])
    BY Disjoint DEF IInv, Fits
  <2> QED BY <1>1, <1>6, <1>8, <1>9, <1>14, <2>1 DEF HonoursStop
<1>15. Len(inbox') <= Messages /\ Len(convs) <= Len(convs')
  BY <1>1, <1>8, ConvsLength DEF IInv
<1> DEFINE S == {t}
<1>16. /\ S \in SUBSET Sessions /\ \A s, u \in S : s = u
       /\ \A q \in Sessions \ S : session'[q] = session[q]
       /\ \A s \in S : Fits(s, session[s])'
  BY <1>0, <1>9, <1>11
<1>17. \A u \in Turns \ S : session[u].pc # "idle" =>
           /\ inbox'[session[u].message].state = inbox[session[u].message].state
           /\ inbox'[session[u].message].stop = inbox[session[u].message].stop
           /\ \A s \in S \cap Turns :
                session'[s].pc # "idle" => session'[s].message # session[u].message
  BY <1>14
<1>18. lead.consent = "OPTED_OUT" => lead'.consent = "OPTED_OUT"
  BY <1>1
<1>19. DOMAIN tasks \subseteq DOMAIN tasks' /\ DOMAIN inbox \subseteq DOMAIN inbox'
  BY <1>1, <1>8
<1> HIDE DEF S
<1> QED BY <1>9, <1>10, <1>12, <1>13, <1>15, <1>16, <1>17, <1>18, <1>19, Around

(* A turn that fails sends its message back to the queue, or gives it up.  *)
LEMMA RetryMoves ==
  ASSUME IInv, NEW s \in Turns, NEW sent \in BOOLEAN, RollBack(s, sent),
         session[s].pc # "idle"
  PROVE  LET i == session[s].message
             n == inbox[i].tries + 1
         IN  /\ i \in DOMAIN inbox /\ inbox[i].tries < MAX_ATTEMPTS
             /\ inbox' \in Seq(Message(Len(convs'))) /\ Len(inbox') = Len(inbox)
             /\ DOMAIN inbox' = DOMAIN inbox
             /\ inbox'[i].tries = n /\ inbox'[i].stop = inbox[i].stop
             /\ inbox'[i].state = IF n < MAX_ATTEMPTS THEN "queued" ELSE "dead"
             /\ inbox'[i].late <= inbox[i].late + 1
             /\ \A j \in DOMAIN inbox : j # i => inbox'[j] = inbox[j]
<1> DEFINE i == session[s].message
           n == inbox[i].tries + 1
           x == IF n < MAX_ATTEMPTS THEN "queued" ELSE "dead"
<1>1. i \in DOMAIN inbox /\ inbox[i].state = "running"
  BY Disjoint DEF IInv, Fits, HonoursStop
<1>2. /\ inbox[i].tries < MAX_ATTEMPTS /\ inbox[i].tries \in 0..MAX_ATTEMPTS
      /\ inbox[i] \in Message(Len(convs)) /\ inbox[i].late \in Nat
  BY <1>1, InboxTyped DEF IInv, OneTurnEach
<1>3. n \in 0..MAX_ATTEMPTS
  BY <1>2, LeadStoreAssumption
<1>4. PICK l \in {inbox[i].late, inbox[i].late + 1} :
        l \in Nat /\ Answered(inbox[i], sent) = [inbox[i] EXCEPT !.late = l]
  BY <1>1, AnsweredIs
<1>5. Retried([inbox[i] EXCEPT !.late = l])
        = [inbox[i] EXCEPT !.tries = n, !.state = x, !.late = l]
  BY <1>2 DEF Retried, Message
<1>6. inbox' = [inbox EXCEPT ![i] = Retried(Answered(inbox[i], sent))] /\ convs' = convs
  BY DEF RollBack
<1>7. x \in {"queued", "running", "done", "limited", "dead"} /\ Len(convs') = Len(convs)
  BY <1>6
<1> HIDE DEF n, x, i
<1>8. PICK e : /\ inbox' = [inbox EXCEPT ![i] = e]
               /\ e = [inbox[i] EXCEPT !.tries = n, !.state = x, !.late = l]
  BY <1>4, <1>5, <1>6
<1>e. /\ e \in Message(Len(convs)) /\ e.tries = n /\ e.state = x /\ e.stop = inbox[i].stop
      /\ e.late = l
  <2>1. inbox[i] \in Message(Len(convs)) /\ i \in DOMAIN inbox
    BY <1>1, <1>2 DEF i
  <2> QED BY <1>3, <1>4, <1>7, <1>8, <2>1 DEF Message
<1>9. /\ inbox' \in Seq(Message(Len(convs'))) /\ Len(inbox') = Len(inbox)
      /\ DOMAIN inbox' = DOMAIN inbox /\ inbox'[i] = e
      /\ \A j \in DOMAIN inbox : j # i => inbox'[j] = inbox[j]
  BY <1>1, <1>7, <1>8, <1>e, InboxMoves
<1>10. l <= inbox[i].late + 1
  BY <1>2, <1>4
<1> QED BY <1>1, <1>2, <1>9, <1>e, <1>10 DEF i, n, x

(* A commit writes the conversation the session saw.                       *)
LEMMA CommitKeepsLength ==
  ASSUME IInv, NEW s \in Sessions, Commit(s)
  PROVE  convs' \in Seq(ConversationStatus) /\ Len(convs') = Len(convs)
<1> DEFINE ses == session[s]
<1>1. SaveRows(s)
  BY DEF Commit
<1>2. Fits(s, ses) /\ ses \in Session
  BY DEF IInv, Fits
<1>3. convs \in Seq(ConversationStatus)
  BY DEF IInv, TypeOK
<1>4. ses.conv \in ConversationStatus /\ ses.seen \in Nat /\ ses.seen <= Len(convs)
  BY <1>2 DEF Fits, RowsExist, Session
<1>5. convs' = IF ses.conv_dirty THEN [convs EXCEPT ![ses.seen] = ses.conv] ELSE convs
  BY <1>1 DEF SaveRows
<1>6. ses.conv_dirty => ses.seen \in 1..Len(convs)
  BY <1>2, <1>3, <1>4 DEF Fits, RowsExist
<1> HIDE DEF ses
<1>7. CASE ses.conv_dirty
  <2> DEFINE k == ses.seen
             c == ses.conv
  <2> HIDE DEF k, c
  <2>1. c \in ConversationStatus /\ convs' = [convs EXCEPT ![k] = c]
    BY <1>4, <1>5, <1>7 DEF k, c
  <2>2. k \in 1..Len(convs)
    BY <1>6, <1>7 DEF k
  <2> QED BY <1>3, <2>1, <2>2
<1> QED BY <1>3, <1>5, <1>7

(* A turn that commits is done with its message.                           *)
LEMMA DoneMoves ==
  ASSUME IInv, NEW s \in Turns, Commit(s)
  PROVE  LET i == session[s].message
         IN  /\ i \in DOMAIN inbox /\ inbox[i].tries < MAX_ATTEMPTS
             /\ inbox' \in Seq(Message(Len(convs'))) /\ Len(inbox') = Len(inbox)
             /\ DOMAIN inbox' = DOMAIN inbox
             /\ inbox'[i].tries = inbox[i].tries
             /\ inbox'[i].state = "done" /\ inbox'[i].stop = inbox[i].stop
             /\ inbox'[i].late <= inbox[i].late + 1
             /\ \A j \in DOMAIN inbox : j # i => inbox'[j] = inbox[j]
<1> DEFINE i == session[s].message
           n == inbox[i].tries
<1>1. i \in DOMAIN inbox /\ inbox[i].state = "running"
  BY Disjoint DEF Commit, At, IInv, Fits, HonoursStop
<1>2. /\ n < MAX_ATTEMPTS /\ n \in 0..MAX_ATTEMPTS
      /\ inbox[i] \in Message(Len(convs)) /\ inbox[i].late \in Nat
  BY <1>1, InboxTyped DEF IInv, OneTurnEach
<1>3. PICK sent \in BOOLEAN :
        inbox' = [inbox EXCEPT ![i] = [Answered(inbox[i], sent) EXCEPT !.state = "done"]]
  BY DEF Commit, Sends
<1>4. PICK l \in {inbox[i].late, inbox[i].late + 1} :
        l \in Nat /\ Answered(inbox[i], sent) = [inbox[i] EXCEPT !.late = l]
  BY <1>1, AnsweredIs
<1>5. [[inbox[i] EXCEPT !.late = l] EXCEPT !.state = "done"]
        = [inbox[i] EXCEPT !.tries = n, !.state = "done", !.late = l]
  BY <1>2 DEF Message
<1>c. Len(convs') = Len(convs)
  BY CommitKeepsLength, Disjoint
<1> HIDE DEF n, i
<1>6. PICK e : /\ inbox' = [inbox EXCEPT ![i] = e]
               /\ e = [inbox[i] EXCEPT !.tries = n, !.state = "done", !.late = l]
  BY <1>3, <1>4, <1>5
<1>e. /\ e \in Message(Len(convs)) /\ e.tries = n /\ e.state = "done"
      /\ e.stop = inbox[i].stop /\ e.late = l
  <2>1. inbox[i] \in Message(Len(convs)) /\ i \in DOMAIN inbox
    BY <1>1, <1>2 DEF i
  <2> QED BY <1>2, <1>4, <1>6, <2>1 DEF Message
<1>7. /\ inbox' \in Seq(Message(Len(convs'))) /\ Len(inbox') = Len(inbox)
      /\ DOMAIN inbox' = DOMAIN inbox /\ inbox'[i] = e
      /\ \A j \in DOMAIN inbox : j # i => inbox'[j] = inbox[j]
  BY <1>1, <1>6, <1>c, <1>e, InboxMoves
<1>8. l <= inbox[i].late + 1
  BY <1>2, <1>4
<1> QED BY <1>1, <1>2, <1>7, <1>e, <1>8 DEF i, n

(* A session that is over is idle, whatever it did to its message.         *)
LEMMA RollBackIInv ==
  ASSUME IInv, NEW s \in Sessions, NEW sent \in BOOLEAN, RollBack(s, sent),
         s \in Turns => session[s].pc # "idle"
  PROVE  IInv'
<1> DEFINE i == session[s].message
           k == session[s].nudged
           n == inbox[i].tries + 1
           x == IF n < MAX_ATTEMPTS THEN "queued" ELSE "dead"
<1>1. /\ Set(s, Idle) /\ UNCHANGED <<lead, convs, tasks, nudges, late, deskUsed>>
      /\ undone' = undone + k
      /\ faults' = IF s \in Passes THEN faults + 1 ELSE faults
      /\ s \notin Turns => inbox' = inbox
  BY DEF RollBack
<1>2. Fits(s, session[s]) /\ session[s] \in Session /\ session \in [Sessions -> Session]
  BY DEF IInv
<1>3. ASSUME s \in Turns
      PROVE  /\ i \in DOMAIN inbox /\ inbox[i].state = "running"
             /\ n \in 0..MAX_ATTEMPTS
  <2>1. i \in DOMAIN inbox /\ inbox[i].state = "running"
    BY <1>2, <1>3 DEF Fits, HonoursStop
  <2>2. inbox[i].tries < MAX_ATTEMPTS /\ inbox[i].tries \in 0..MAX_ATTEMPTS
    BY <2>1, InboxTyped DEF IInv, OneTurnEach
  <2> QED BY <2>1, <2>2, LeadStoreAssumption
<1>4. ASSUME s \in Turns
      PROVE  /\ inbox' \in Seq(Message(Len(convs'))) /\ Len(inbox') = Len(inbox)
             /\ DOMAIN inbox' = DOMAIN inbox
             /\ inbox'[i].tries = n /\ inbox'[i].state = x /\ inbox'[i].stop = inbox[i].stop
             /\ \A j \in DOMAIN inbox : j # i => inbox'[j] = inbox[j]
  BY <1>2, <1>4, RetryMoves DEF RollBack
<1> PICK new : new = Idle
  OBVIOUS
<1>5. /\ new \in Session /\ new.pc = "idle" /\ new.dirty = {} /\ ~new.conv_dirty
      /\ new.nudged = 0 /\ new.seen = 0 /\ DOMAIN new.marks = {} /\ new.todo = {}
  BY IdleSession
<1>6. /\ session' \in [Sessions -> Session] /\ session'[s] = new
      /\ \A q \in Sessions : q # s => session'[q] = session[q]
  BY <1>1, <1>2, <1>5 DEF Set
<1> HIDE DEF i, k, n, x
<1>7. inbox' \in Seq(Message(Len(convs'))) /\ DOMAIN inbox' = DOMAIN inbox
      /\ Len(inbox') = Len(inbox)
  <2>1. CASE s \in Turns
    BY <1>4, <2>1
  <2>2. CASE s \notin Turns
    BY <1>1, <2>2 DEF IInv, TypeOK, Message
  <2> QED BY <2>1, <2>2
<1>8. TypeOK'
  <2>1. k \in Nat
    BY <1>2 DEF k, Session
  <2>2. {nudges', undone', late', deskUsed', faults'} \subseteq Nat
    BY <1>1, <2>1 DEF IInv, TypeOK
  <2>3. \A q \in Sessions : session'[q].pc \in PC /\ session'[q].fresh \in Seq(Task)
    BY <1>6 DEF Session
  <2> QED BY <1>1, <1>7, <2>2, <2>3 DEF IInv, TypeOK, Message
<1>9. Fits(s, session[s])'
  <2>1. convs' \in Seq(ConversationStatus)
    BY <1>1 DEF IInv, TypeOK
  <2>2. Fits(s, new)'
    BY <1>5, <2>1, IdleFits
  <2> QED BY <1>6, <2>2 DEF Fits, Placed, RowsExist, ChangesOK, HonoursStop
<1>10. Counted'
  <2> SUFFICES ASSUME OneWorker PROVE Counted'
    BY DEF Counted, OneWorker
  <2>0. /\ k \in Nat /\ nudges \in Nat /\ undone \in Nat /\ max_attempts \in Nat
        /\ lead.follow_up_count \in Nat
    BY <1>2, LeadStoreAssumption DEF k, Session, IInv, TypeOK, Lead
  <2>1. /\ lead.follow_up_count <= max_attempts /\ nudges <= max_attempts + undone
        /\ \A p \in Passes : CountKnown(p)
    BY DEF IInv, Counted
  <2>2. nudges' <= max_attempts + undone'
    BY <1>1, <2>0, <2>1
  <2>3. ASSUME NEW p \in Passes PROVE CountKnown(p)'
    <3>1. CASE p = s
      <4>1. new.pc \notin Live
        BY <1>5 DEF Live
      <4>2. nudges' = lead'.follow_up_count + undone' + new.nudged
        BY <1>1, <1>5, <2>0, <2>1, <3>1 DEF CountKnown, k
      <4> QED BY <1>5, <1>6, <3>1, <4>1, <4>2 DEF CountKnown
    <3>2. CASE p # s
      <4>1. s \notin Passes
        BY <3>2 DEF OneWorker
      <4>2. k = 0 /\ session'[p] = session[p]
        BY <1>2, <1>6, <3>2, <4>1, Disjoint DEF k, Fits, ChangesOK
      <4> QED BY <1>1, <2>0, <2>1, <4>2 DEF CountKnown
    <3> QED BY <3>1, <3>2
  <2> QED BY <1>1, <2>1, <2>2, <2>3 DEF Counted
<1>11. \A j \in DOMAIN inbox' :
         /\ inbox'[j].state \in {"queued", "running"} => inbox'[j].tries < MAX_ATTEMPTS
         /\ inbox'[j].stop /\ inbox'[j].state = "done" => lead'.consent = "OPTED_OUT"
  <2>1. \A j \in DOMAIN inbox :
          /\ inbox[j].state \in {"queued", "running"} => inbox[j].tries < MAX_ATTEMPTS
          /\ inbox[j].stop /\ inbox[j].state = "done" => lead.consent = "OPTED_OUT"
    BY DEF IInv, OneTurnEach, StopRecorded
  <2>2. CASE s \notin Turns
    BY <1>1, <2>1, <2>2
  <2>3. CASE s \in Turns
    BY <1>1, <1>4, <2>1, <2>3 DEF x
  <2> QED BY <2>2, <2>3
<1>12. ASSUME NEW u \in Turns, u # s, session[u].pc # "idle"
       PROVE  inbox'[session[u].message] = inbox[session[u].message]
  <2>1. CASE s \notin Turns
    BY <1>1, <2>1
  <2>2. CASE s \in Turns
    <3>1. session[u].message # i
      BY <1>12, <2>2 DEF IInv, OneTurnEach, At, i
    <3>2. session[u].message \in DOMAIN inbox
      BY <1>12, Disjoint DEF IInv, Fits, HonoursStop
    <3> QED BY <1>4, <2>2, <3>1, <3>2
  <2> QED BY <2>1, <2>2
<1> DEFINE S == {s}
<1>13. /\ S \in SUBSET Sessions /\ \A q, u \in S : q = u
       /\ \A q \in Sessions \ S : session'[q] = session[q]
       /\ \A q \in S : Fits(q, session[q])'
  BY <1>6, <1>9
<1>14. \A u \in Turns \ S : session[u].pc # "idle" =>
           /\ inbox'[session[u].message].state = inbox[session[u].message].state
           /\ inbox'[session[u].message].stop = inbox[session[u].message].stop
           /\ \A q \in S \cap Turns :
                session'[q].pc # "idle" => session'[q].message # session[u].message
  BY <1>5, <1>6, <1>12
<1>15. /\ Len(inbox') <= Messages /\ Len(convs) <= Len(convs')
       /\ DOMAIN tasks \subseteq DOMAIN tasks' /\ DOMAIN inbox \subseteq DOMAIN inbox'
       /\ lead.consent = "OPTED_OUT" => lead'.consent = "OPTED_OUT"
  BY <1>1, <1>7, ConvsLength DEF IInv
<1> HIDE DEF S
<1> QED BY <1>6, <1>8, <1>10, <1>11, <1>13, <1>14, <1>15, Around

(* A commit writes what the session changed, and leaves the rest to others. *)
LEMMA CommitIInv ==
  ASSUME IInv, NEW s \in Sessions, Commit(s)
  PROVE  IInv'
<1> DEFINE ses == session[s]
           i == ses.message
<1>1. /\ ses.pc = "commit" /\ ses.pc \in Live /\ SaveRows(s) /\ Set(s, Idle)
      /\ UNCHANGED <<nudges, undone, late, deskUsed, faults>>
      /\ s \notin Turns => inbox' = inbox
  BY DEF Commit, At, Live, PC
<1>2. /\ Fits(s, ses) /\ ses \in Session /\ session \in [Sessions -> Session]
      /\ ses.lead \in Lead /\ DOMAIN ses.marks \subseteq DOMAIN tasks
  BY <1>1, LiveSession DEF IInv
<1>3. /\ lead' \in Lead
      /\ lead'.consent = IF "consent" \in ses.dirty THEN ses.lead.consent ELSE lead.consent
      /\ lead'.follow_up_count = IF "follow_up_count" \in ses.dirty
                                 THEN ses.lead.follow_up_count ELSE lead.follow_up_count
  <2>1. lead' = [f \in DOMAIN lead |-> IF f \in ses.dirty THEN ses.lead[f] ELSE lead[f]]
    BY <1>1 DEF SaveRows, Committed
  <2>2. lead \in Lead
    BY DEF IInv, TypeOK
  <2> HIDE DEF ses
  <2> QED BY <1>2, <2>1, <2>2 DEF Lead
<1>4. lead.consent = "OPTED_OUT" => lead'.consent = "OPTED_OUT"
  BY <1>2, <1>3 DEF Fits, ChangesOK
<1>5. convs' \in Seq(ConversationStatus) /\ Len(convs') = Len(convs)
  BY CommitKeepsLength
<1>6. tasks' \in Seq(Task) /\ DOMAIN tasks \subseteq DOMAIN tasks'
  <2> DEFINE row(j) == IF j \in DOMAIN ses.marks THEN [tasks[j] EXCEPT !.status = ses.marks[j]]
                                                  ELSE tasks[j]
             rows == [j \in DOMAIN tasks |-> row(j)]
  <2>1. tasks \in Seq(Task) /\ Len(tasks) \in Nat /\ DOMAIN tasks = 1..Len(tasks)
    BY DEF IInv, TypeOK
  <2>2. ASSUME NEW j \in DOMAIN tasks PROVE row(j) \in Task
    <3>1. tasks[j] \in Task
      BY <2>1
    <3>2. j \in DOMAIN ses.marks => ses.marks[j] \in FollowUpStatus
      <4>1. ses.marks \in Marks
        BY <1>2 DEF Session
      <4>2. PICK J \in SUBSET Nat : ses.marks \in [J -> FollowUpStatus]
        BY <4>1 DEF Marks
      <4> QED BY <4>2
    <3> QED BY <3>1, <3>2 DEF Task
  <2>3. tasks' = rows \o ses.fresh
    BY <1>1 DEF SaveRows
  <2> HIDE DEF row
  <2>4. rows \in [1..Len(tasks) -> Task]
    BY <2>1, <2>2
  <2> HIDE DEF rows
  <2>5. rows \in Seq(Task) /\ Len(rows) = Len(tasks)
    BY <2>1, <2>4, SeqOfFunction
  <2>6. ses.fresh \in Seq(Task)
    BY <1>2 DEF Session
  <2> DEFINE fresh == ses.fresh
  <2> HIDE DEF ses, fresh
  <2>7. rows \o fresh \in Seq(Task) /\ Len(rows \o fresh) = Len(rows) + Len(fresh)
    BY <2>5, <2>6, ConcatProperties DEF fresh
  <2>8. tasks' = rows \o fresh /\ Len(fresh) \in Nat
    BY <2>3, <2>6 DEF fresh
  <2> QED BY <2>1, <2>5, <2>7, <2>8
<1>7. ASSUME s \in Turns
      PROVE  /\ i \in DOMAIN inbox /\ inbox[i].state = "running"
             /\ inbox[i].stop => lead'.consent = "OPTED_OUT"
  BY <1>1, <1>2, <1>3, <1>4, <1>7 DEF Fits, HonoursStop
<1>8. ASSUME s \in Turns
      PROVE  /\ inbox' \in Seq(Message(Len(convs'))) /\ Len(inbox') = Len(inbox)
             /\ DOMAIN inbox' = DOMAIN inbox
             /\ inbox'[i].state = "done" /\ inbox'[i].stop = inbox[i].stop
             /\ \A j \in DOMAIN inbox : j # i => inbox'[j] = inbox[j]
  BY <1>8, DoneMoves
<1> PICK new : new = Idle
  OBVIOUS
<1>9. /\ new \in Session /\ new.pc = "idle" /\ new.dirty = {} /\ ~new.conv_dirty
      /\ new.nudged = 0 /\ new.seen = 0 /\ DOMAIN new.marks = {} /\ new.todo = {}
  BY IdleSession
<1>10. /\ session' \in [Sessions -> Session] /\ session'[s] = new
       /\ \A q \in Sessions : q # s => session'[q] = session[q]
  BY <1>1, <1>2, <1>9 DEF Set
<1> HIDE DEF i
<1>11. inbox' \in Seq(Message(Len(convs'))) /\ DOMAIN inbox' = DOMAIN inbox
       /\ Len(inbox') = Len(inbox)
  <2>1. CASE s \in Turns
    BY <1>8, <2>1
  <2>2. CASE s \notin Turns
    BY <1>1, <1>5, <2>2 DEF IInv, TypeOK, Message
  <2> QED BY <2>1, <2>2
<1>12. TypeOK'
  <2>1. {nudges', undone', late', deskUsed', faults'} \subseteq Nat
    BY <1>1 DEF IInv, TypeOK
  <2>2. \A q \in Sessions : session'[q].pc \in PC /\ session'[q].fresh \in Seq(Task)
    BY <1>10 DEF Session
  <2> QED BY <1>3, <1>5, <1>6, <1>11, <2>1, <2>2 DEF TypeOK, Message
<1>13. Fits(s, session[s])'
  <2>1. Fits(s, new)'
    BY <1>5, <1>9, IdleFits
  <2> QED BY <1>10, <2>1 DEF Fits, Placed, RowsExist, ChangesOK, HonoursStop
<1>14. Counted'
  <2> SUFFICES ASSUME OneWorker PROVE Counted'
    BY DEF Counted, OneWorker
  <2>0. /\ ses.nudged \in Nat /\ lead.follow_up_count \in Nat
    BY <1>2 DEF Session, IInv, TypeOK, Lead
  <2>1. /\ lead.follow_up_count <= max_attempts /\ nudges <= max_attempts + undone
        /\ \A p \in Passes : CountKnown(p)
    BY DEF IInv, Counted
  <2>2. CASE s \notin Passes
    <3>1. lead'.follow_up_count = lead.follow_up_count
      BY <1>2, <1>3, <2>2 DEF Fits, ChangesOK
    <3>2. ASSUME NEW p \in Passes PROVE CountKnown(p)'
      <4>1. session'[p] = session[p]
        BY <1>10, <2>2, Disjoint
      <4> QED BY <1>1, <2>1, <3>1, <4>1 DEF CountKnown
    <3> QED BY <1>1, <2>1, <3>1, <3>2 DEF Counted
  <2>3. CASE s \in Passes
    <3>1. /\ CountKnown(s)
          /\ \A p \in Passes : p = s
      BY <2>1, <2>3 DEF OneWorker
    <3>2. /\ lead'.follow_up_count = lead.follow_up_count + ses.nudged
          /\ lead'.follow_up_count <= max_attempts
      BY <1>1, <1>3, <2>0, <2>1, <3>1 DEF CountKnown
    <3>3. new.pc \notin Live
      BY <1>9 DEF Live
    <3>4. nudges' = lead'.follow_up_count + undone' + new.nudged
      <4>1. nudges \in Nat /\ undone \in Nat /\ undone' = undone /\ nudges' = nudges
        BY <1>1 DEF IInv, TypeOK
      <4>2. nudges = lead.follow_up_count + undone + ses.nudged
        BY <3>1 DEF CountKnown
      <4> HIDE DEF ses
      <4> QED BY <1>9, <2>0, <3>2, <4>1, <4>2
    <3>5. CountKnown(s)'
      BY <1>9, <1>10, <3>3, <3>4 DEF CountKnown
    <3> QED BY <1>1, <2>1, <3>1, <3>2, <3>5 DEF Counted
  <2> QED BY <2>2, <2>3
<1>15. \A j \in DOMAIN inbox' :
         /\ inbox'[j].state \in {"queued", "running"} => inbox'[j].tries < MAX_ATTEMPTS
         /\ inbox'[j].stop /\ inbox'[j].state = "done" => lead'.consent = "OPTED_OUT"
  <2>1. \A j \in DOMAIN inbox :
          /\ inbox[j].state \in {"queued", "running"} => inbox[j].tries < MAX_ATTEMPTS
          /\ inbox[j].stop /\ inbox[j].state = "done" => lead'.consent = "OPTED_OUT"
    BY <1>4 DEF IInv, OneTurnEach, StopRecorded
  <2>2. CASE s \notin Turns
    BY <1>1, <2>1, <2>2
  <2>3. CASE s \in Turns
    BY <1>7, <1>8, <2>1, <2>3
  <2> QED BY <2>2, <2>3
<1>16. ASSUME NEW u \in Turns, u # s, session[u].pc # "idle"
       PROVE  inbox'[session[u].message] = inbox[session[u].message]
  <2>1. CASE s \notin Turns
    BY <1>1, <2>1
  <2>2. CASE s \in Turns
    <3>1. session[u].message # i
      BY <1>1, <1>16, <2>2 DEF IInv, OneTurnEach, At, i
    <3>2. session[u].message \in DOMAIN inbox
      BY <1>16, Disjoint DEF IInv, Fits, HonoursStop
    <3> QED BY <1>8, <2>2, <3>1, <3>2
  <2> QED BY <2>1, <2>2
<1> DEFINE S == {s}
<1>17. /\ S \in SUBSET Sessions /\ \A q, u \in S : q = u
       /\ \A q \in Sessions \ S : session'[q] = session[q]
       /\ \A q \in S : Fits(q, session[q])'
  BY <1>10, <1>13
<1>18. \A u \in Turns \ S : session[u].pc # "idle" =>
           /\ inbox'[session[u].message].state = inbox[session[u].message].state
           /\ inbox'[session[u].message].stop = inbox[session[u].message].stop
           /\ \A q \in S \cap Turns :
                session'[q].pc # "idle" => session'[q].message # session[u].message
  BY <1>9, <1>10, <1>16
<1>19. /\ Len(inbox') <= Messages /\ Len(convs) <= Len(convs')
       /\ DOMAIN inbox \subseteq DOMAIN inbox'
  BY <1>5, <1>11, ConvsLength DEF IInv
<1> HIDE DEF S
<1> QED BY <1>4, <1>6, <1>10, <1>12, <1>14, <1>15, <1>17, <1>18, <1>19, Around

-----------------------------------------------------------------------------
LEMMA InitIInv == Init => IInv
<1> SUFFICES ASSUME Init PROVE IInv
  OBVIOUS
<1> DEFINE none == <<>>
<1>1. /\ none \in Seq(Task) /\ none \in Seq(ConversationStatus) /\ Len(none) = 0
      /\ none \in Seq(Message(Len(convs))) /\ none \in Marks /\ DOMAIN none = {}
  <2>1. none \in [{} -> FollowUpStatus] /\ DOMAIN none = {}
    OBVIOUS
  <2> HIDE DEF none
  <2>2. none \in Marks
    BY <2>1 DEF Marks
  <2> QED BY <2>1, <2>2 DEF none
<1>2. convs = none /\ tasks = none /\ inbox = none /\ 0 \in 0..Messages
  BY LeadStoreAssumption DEF Init
<1>3. lead \in Lead /\ lead.follow_up_count = 0 /\ lead.consent = "OPTED_IN"
  BY <1>2 DEF Init, Lead, LeadStatus
<1> HIDE DEF none
<1>4. /\ Blank \in Session /\ Blank.pc = "idle" /\ Blank.dirty = {} /\ ~Blank.conv_dirty
      /\ Blank.nudged = 0 /\ Blank.seen = 0 /\ DOMAIN Blank.marks = {} /\ Blank.todo = {}
  BY <1>1, <1>3 DEF Blank, none, Session, PC, ConversationStatus
<1>5. /\ Idle \in Session /\ Idle.pc = "idle" /\ Idle.dirty = {} /\ ~Idle.conv_dirty
      /\ Idle.nudged = 0 /\ Idle.seen = 0 /\ DOMAIN Idle.marks = {} /\ Idle.todo = {}
  BY <1>4 DEF Idle, Session
<1>6. session = [s \in Sessions |-> Idle]
  BY DEF Init
<1>7. session \in [Sessions -> Session] /\ \A s \in Sessions : session[s] = Idle
  BY <1>5, <1>6
<1> HIDE DEF Idle
<1>8. TypeOK
  <2>1. {nudges, undone, late, deskUsed, faults} \subseteq Nat
    BY DEF Init
  <2>2. \A s \in Sessions : session[s].pc \in PC /\ session[s].fresh \in Seq(Task)
    BY <1>5, <1>7 DEF Session
  <2> QED BY <1>1, <1>2, <1>3, <2>1, <2>2 DEF TypeOK, Message
<1>9. ASSUME NEW s \in Sessions PROVE Fits(s, session[s])
  BY <1>1, <1>2, <1>5, <1>7 DEF Fits, Placed, RowsExist, ChangesOK, HonoursStop, Live
<1>10. OneTurnEach
  BY <1>1, <1>2, <1>5, <1>7, Disjoint DEF OneTurnEach, At
<1>11. StopRecorded
  BY <1>1, <1>2 DEF StopRecorded
<1>12. Counted
  <2>1. nudges = 0 /\ undone = 0
    BY DEF Init
  <2>2. ASSUME NEW p \in Passes PROVE CountKnown(p)
    BY <1>3, <1>5, <1>7, <2>1, Disjoint DEF CountKnown, Live
  <2> QED BY <1>3, <2>1, <2>2, LeadStoreAssumption DEF Counted
<1>13. Len(inbox) <= Messages
  BY <1>1, <1>2, LeadStoreAssumption
<1> QED BY <1>7, <1>8, <1>9, <1>10, <1>11, <1>12, <1>13 DEF IInv

LEMMA NextIInv == IInv /\ [Next]_vars => IInv'
<1> SUFFICES ASSUME IInv, [Next]_vars PROVE IInv'
  OBVIOUS
<1>1. CASE UNCHANGED vars
  BY <1>1 DEF vars, IInv, TypeOK, Fits, Placed, RowsExist, ChangesOK, HonoursStop,
              OneTurnEach, At, StopRecorded, Counted, OneWorker, CountKnown
<1>2. CASE Arrive
  BY <1>2, ArriveIInv
<1>3. ASSUME NEW i \in DOMAIN inbox, RateLimited(i) \/ NotConfigured(i) PROVE IInv'
  BY <1>3, UnreadIInv
<1>4. ASSUME NEW s \in Sessions, Flush(s) \/ cancel_pending(s) \/ Commit(s) \/ DeadlockVictim(s)
      PROVE  IInv'
  <2>1. DeadlockVictim(s) => RollBack(s, FALSE) /\ session[s].pc # "idle"
    BY DEF DeadlockVictim, Deadlocked, WaitsFor, At
  <2> QED BY <1>4, <2>1, FlushIInv, CancelIInv, CommitIInv, RollBackIInv
<1>5. ASSUME NEW t \in Turns, TurnStep(t) PROVE IInv'
  <2>1. t \in Sessions
    BY Disjoint
  <2>2. CASE update_lead_profile(t) \/ score_lead(t) \/ book_appointment(t) \/ escalate_to_human(t)
    BY <2>2, ToolsIInv
  <2>3. CASE EndModel(t)
    BY <2>3, EndModelIInv
  <2>4. CASE schedule_next(t, "commit")
    BY <2>1, <2>4, ScheduleIInv
  <2>5. CASE TurnFails(t)
    BY <2>1, <2>5, RollBackIInv DEF TurnFails, At, Sends
  <2>6. ASSUME NEW i \in DOMAIN inbox, BeginTurn(t, i) PROVE IInv'
    BY <2>6, BeginTurnIInv
  <2> QED BY <1>5, <2>2, <2>3, <2>4, <2>5, <2>6 DEF TurnStep
<1>6. ASSUME NEW d \in Desks, DeskStep(d) PROVE IInv'
  <2>1. d \in Sessions /\ d \notin Turns
    BY Disjoint
  <2>2. CASE take_over(d) \/ release(d) \/ send_message(d)
    BY <2>2, RequestIInv
  <2>3. CASE schedule_next(d, "commit")
    BY <2>1, <2>3, ScheduleIInv
  <2>4. CASE MessageSent(d)
    BY <2>4, MessageSentIInv
  <2>5. CASE MessageRejected(d)
    BY <2>1, <2>5, RollBackIInv DEF MessageRejected
  <2> QED BY <1>6, <2>2, <2>3, <2>4, <2>5 DEF DeskStep
<1>7. ASSUME NEW p \in Passes, PassStep(p) PROVE IInv'
  <2>1. p \in Sessions /\ p \notin Turns
    BY Disjoint
  <2>2. CASE BeginPass(p)
    BY <2>2, BeginPassIInv
  <2>3. CASE ReadLead(p)
    BY <2>3, ReadLeadIInv
  <2>4. CASE SkipTask(p) \/ DeferTask(p) \/ FailTask(p) \/ EndPass(p)
    BY <2>4, JudgeIInv
  <2>5. CASE SendNudge(p)
    BY <2>5, SendNudgeIInv
  <2>6. CASE schedule_next(p, "task")
    BY <2>1, <2>6, ScheduleIInv
  <2>7. CASE PassFails(p)
    BY <2>1, <2>7, RollBackIInv DEF PassFails
  <2> QED BY <1>7, <2>2, <2>3, <2>4, <2>5, <2>6, <2>7 DEF PassStep
<1> QED BY <1>1, <1>2, <1>3, <1>4, <1>5, <1>6, <1>7 DEF Next

LEMMA Invariant == Spec => []IInv
BY InitIInv, NextIInv, PTL DEF Spec

(* The variables of LeadLifecycle keep their types.                        *)
THEOREM TypeCorrect == Spec => []TypeOK
<1>1. IInv => TypeOK
  BY DEF IInv
<1> QED BY <1>1, Invariant, PTL

(* A stop the worker finished is recorded, whoever owned the lead          *)
(* (engine.handle_inbound), and stays recorded.                            *)
THEOREM StopsRecorded == Spec => []StopRecorded
<1>1. IInv => StopRecorded
  BY DEF IInv
<1> QED BY <1>1, Invariant, PTL

(* One follow-up worker keeps to the cap unless a pass of it was rolled    *)
(* back after sending (followups.max_attempts).                            *)
THEOREM CapKept == Spec => []CapOrUndone
<1>1. IInv => CapOrUndone
  BY DEF IInv, Counted, CapOrUndone
<1> QED BY <1>1, Invariant, PTL

(* A commit keeps a committed opt-out: consent is only written to opt out. *)
LEMMA ConsentKept ==
  ASSUME IInv, Next, lead.consent = "OPTED_OUT"
  PROVE  lead'.consent = "OPTED_OUT"
<1>1. ASSUME NEW s \in Sessions, Commit(s) PROVE lead'.consent = "OPTED_OUT"
  <2>1. lead' = [f \in DOMAIN lead |->
                   IF f \in session[s].dirty THEN session[s].lead[f] ELSE lead[f]]
    BY <1>1 DEF Commit, SaveRows, Committed
  <2>2. ChangesOK(s, session[s]) /\ lead \in Lead
    BY DEF IInv, Fits, TypeOK
  <2> QED BY <2>1, <2>2 DEF ChangesOK, Lead
<1>2. (\E s \in Sessions : Commit(s)) \/ lead' = lead
  BY DEF Next, Arrive, RateLimited, NotConfigured, Flush, cancel_pending, DeadlockVictim, RollBack,
         TurnStep, update_lead_profile, score_lead, book_appointment, escalate_to_human,
         Tool, EndModel, schedule_next, TurnFails, BeginTurn,
         DeskStep, take_over, release, Request, send_message, MessageSent, MessageRejected,
         PassStep, BeginPass, ReadLead, SkipTask, DeferTask, FailTask, SendNudge, EndPass,
         PassFails
<1> QED BY <1>1, <1>2

(* No transaction takes a committed opt-out back (dashboard.release,       *)
(* engine.handle_inbound): a session only ever writes consent to opt out.  *)
THEOREM OptOutStays == Spec => OptOutIsFinal
<1> DEFINE Final == lead.consent = "OPTED_OUT" => lead'.consent = "OPTED_OUT"
<1>1. IInv /\ [Next]_vars => [Final]_vars
  BY ConsentKept DEF vars
<1> QED BY <1>1, Invariant, PTL DEF Spec, OptOutIsFinal

-----------------------------------------------------------------------------
(* Who can still write to the lead after an opt-out: a pass in whose eyes  *)
(* it has not opted out, once for every nudge the cap leaves it, and a     *)
(* dashboard request that is about to send.                                *)
Budget == Passes \X (1..max_attempts)

Unaware(ses) == ses.pc \in Live /\ ses.lead.consent = "OPTED_IN"

LeftOf(f) == {x \in Budget : Unaware(f[x[1]]) /\ f[x[1]].lead.follow_up_count < x[2]}
SendingOf(f) == {d \in Desks : f[d].pc = "send"}

Left == LeftOf(session)
Sending == SendingOf(session)

LateInv ==
  /\ \A d \in Desks : session[d].after # "send" /\ session[d].goal # "send"
  /\ Cardinality(Sending) <= deskUsed
  /\ lead.consent = "OPTED_IN" => late = 0
  /\ late + Cardinality(Left) + Cardinality(Sending) <= Cardinality(Budget) + deskUsed

(* Their numbers are numbers.                                              *)
LEMMA FewCanBeLate ==
  ASSUME NEW f
  PROVE  /\ IsFiniteSet(Budget) /\ Cardinality(Budget) = Cardinality(Passes) * max_attempts
         /\ IsFiniteSet(LeftOf(f)) /\ Cardinality(LeftOf(f)) <= Cardinality(Budget)
         /\ IsFiniteSet(SendingOf(f))
         /\ {Cardinality(Budget), Cardinality(LeftOf(f)), Cardinality(SendingOf(f))} \subseteq Nat
<1>1. IsFiniteSet(1..max_attempts) /\ Cardinality(1..max_attempts) = max_attempts
  BY FS_Interval, LeadStoreAssumption
<1>2. IsFiniteSet(Budget) /\ Cardinality(Budget) = Cardinality(Passes) * max_attempts
  BY <1>1, FS_Product, LeadStoreAssumption DEF Budget
<1>3. IsFiniteSet(LeftOf(f)) /\ Cardinality(LeftOf(f)) <= Cardinality(Budget)
  BY <1>2, FS_Subset DEF LeftOf
<1>4. IsFiniteSet(SendingOf(f))
  BY FS_Subset, LeadStoreAssumption DEF SendingOf
<1> QED BY <1>2, <1>3, <1>4, FS_CardinalityType

(* What a step may do to the three numbers.                                *)
LEMMA LateCounts ==
  ASSUME IInv, IInv', LateInv,
         \A d \in Desks : session'[d].after # "send" /\ session'[d].goal # "send",
         Cardinality(Sending') + deskUsed <= Cardinality(Sending) + deskUsed',
         lead.consent = "OPTED_IN" => late' = late,
         lead.consent = "OPTED_OUT" =>
           /\ lead'.consent = "OPTED_OUT"
           /\ late' + Cardinality(Left') + Cardinality(Sending') + deskUsed
                <= late + Cardinality(Left) + Cardinality(Sending) + deskUsed'
  PROVE  LateInv'
<1> DEFINE b == Cardinality(Budget)
           l == Cardinality(LeftOf(session))   l1 == Cardinality(LeftOf(session'))
           n == Cardinality(SendingOf(session)) n1 == Cardinality(SendingOf(session'))
<1>1. lead \in Lead /\ lead' \in Lead /\ {late, deskUsed, late', deskUsed'} \subseteq Nat
  BY DEF IInv, TypeOK
<1>2. lead.consent \in {"OPTED_IN", "OPTED_OUT"} /\ lead'.consent \in {"OPTED_IN", "OPTED_OUT"}
  BY <1>1 DEF Lead
<1>3. {b, l, n} \subseteq Nat /\ {l1, n1} \subseteq Nat /\ l1 <= b
  BY FewCanBeLate
<1>4. n <= deskUsed /\ (lead.consent = "OPTED_IN" => late = 0) /\ late + l + n <= b + deskUsed
  BY DEF LateInv, Left, Sending
<1>5. /\ n1 + deskUsed <= n + deskUsed'
      /\ lead.consent = "OPTED_OUT" => late' + l1 + n1 + deskUsed <= late + l + n + deskUsed'
  BY DEF Left, Sending
<1> HIDE DEF b, l, l1, n, n1
<1>6. /\ n1 <= deskUsed' /\ (lead'.consent = "OPTED_IN" => late' = 0)
      /\ late' + l1 + n1 <= b + deskUsed'
  BY <1>1, <1>2, <1>3, <1>4, <1>5
<1> QED BY <1>6 DEF LateInv, Left, Sending, b, l1, n1, Budget

(* A step of a session that sends nothing: after an opt-out it knows of it *)
(* or has no more to send than before.                                     *)
NoLater(s, new) ==
  /\ s \in Desks => new.after # "send" /\ new.goal # "send" /\ new.pc # "send"
  /\ s \in Passes /\ lead.consent = "OPTED_OUT" /\ Unaware(new) =>
       Unaware(session[s]) /\ session[s].lead.follow_up_count <= new.lead.follow_up_count

(* What a step of one session leaves of those who can be late.             *)
LEMMA OneMoves ==
  ASSUME IInv, IInv', LateInv, NEW s \in Sessions, NEW new, Set(s, new)
  PROVE  /\ session'[s] = new /\ \A q \in Sessions : q # s => session'[q] = session[q]
         /\ Sending' \subseteq Sending \cup {s}
         /\ (s \in Desks => new.after # "send" /\ new.goal # "send") =>
              \A d \in Desks : session'[d].after # "send" /\ session'[d].goal # "send"
         /\ s \notin Desks \/ new.pc # "send" => Sending' \subseteq Sending \ {s}
         /\ s \notin Passes => Left' \subseteq Left
         /\ lead.consent = "OPTED_OUT" /\ NoLater(s, new) => Left' \subseteq Left
<1>1. session'[s] = new /\ \A q \in Sessions : q # s => session'[q] = session[q]
  BY DEF Set, IInv
<1>2. Desks \subseteq Sessions /\ Passes \subseteq Sessions
  BY DEF Sessions
<1>3. Sending' \subseteq Sending \cup {s} /\ (s \notin Desks \/ new.pc # "send" => Sending' \subseteq Sending \ {s})
  BY <1>1, <1>2 DEF Sending, SendingOf
<1>4. (s \in Desks => new.after # "send" /\ new.goal # "send") =>
        \A d \in Desks : session'[d].after # "send" /\ session'[d].goal # "send"
  BY <1>1, <1>2 DEF LateInv
<1>5. ASSUME s \notin Passes \/ (lead.consent = "OPTED_OUT" /\ NoLater(s, new))
      PROVE  Left' \subseteq Left
  <2> SUFFICES ASSUME NEW x \in Budget, Unaware(session'[x[1]]),
                      session'[x[1]].lead.follow_up_count < x[2]
               PROVE  Unaware(session[x[1]]) /\ session[x[1]].lead.follow_up_count < x[2]
    BY DEF Left, LeftOf, Budget, Unaware
  <2>1. x[1] \in Passes /\ x[1] \in Sessions /\ x[2] \in Int
    BY <1>2, LeadStoreAssumption DEF Budget
  <2>2. CASE x[1] # s
    BY <1>1, <2>1, <2>2
  <2>3. CASE x[1] = s
    <3>1. Unaware(session[s]) /\ session[s].lead.follow_up_count <= new.lead.follow_up_count
      BY <1>1, <1>5, <2>1, <2>3 DEF NoLater
    <3>2. session[s].lead \in Lead /\ new.lead \in Lead
      BY <1>1, <2>3, <3>1 DEF IInv, Fits, Placed, Unaware
    <3>3. {session[s].lead.follow_up_count, new.lead.follow_up_count} \subseteq Nat
      BY <3>2 DEF Lead
    <3> QED BY <1>1, <2>1, <2>3, <3>1, <3>3
  <2> QED BY <2>2, <2>3
<1> QED BY <1>1, <1>3, <1>4, <1>5

(* A step that sends nothing and after which nobody else can be late.      *)
LEMMA NobodyLater ==
  ASSUME IInv, IInv', LateInv, late' = late, deskUsed' = deskUsed, Sending' \subseteq Sending,
         \A d \in Desks : session'[d].after # "send" /\ session'[d].goal # "send",
         lead.consent = "OPTED_OUT" => lead'.consent = "OPTED_OUT" /\ Left' \subseteq Left
  PROVE  LateInv'
<1> DEFINE l == Cardinality(LeftOf(session))   l1 == Cardinality(LeftOf(session'))
           n == Cardinality(SendingOf(session)) n1 == Cardinality(SendingOf(session'))
<1>1. {late, deskUsed} \subseteq Nat
  BY DEF IInv, TypeOK
<1>2. {l, n} \subseteq Nat /\ {l1, n1} \subseteq Nat
  BY FewCanBeLate
<1>3. n1 <= n
  BY FewCanBeLate, FS_Subset DEF Sending
<1>4. lead.consent = "OPTED_OUT" => l1 <= l
  BY FewCanBeLate, FS_Subset DEF Left
<1> HIDE DEF l, l1, n, n1
<1>5. /\ n1 + deskUsed <= n + deskUsed'
      /\ lead.consent = "OPTED_OUT" => late' + l1 + n1 + deskUsed <= late + l + n + deskUsed'
  BY <1>1, <1>2, <1>3, <1>4
<1> QED BY <1>5, LateCounts DEF Left, Sending, l, l1, n, n1

LEMMA QuietStep ==
  ASSUME IInv, IInv', LateInv, NEW s \in Sessions, NEW new, Set(s, new), NoLater(s, new),
         late' = late, deskUsed' = deskUsed,
         lead.consent = "OPTED_OUT" => lead'.consent = "OPTED_OUT"
  PROVE  LateInv'
<1>1. /\ Sending' \subseteq Sending
      /\ \A d \in Desks : session'[d].after # "send" /\ session'[d].goal # "send"
      /\ lead.consent = "OPTED_OUT" => Left' \subseteq Left
  BY OneMoves DEF NoLater
<1> QED BY <1>1, NobodyLater

(* A session that only reads or marks rows keeps its view of the lead.     *)
LEMMA SameView ==
  ASSUME NEW s \in Sessions, NEW new, session[s].pc \in Live, new.lead = session[s].lead,
         IInv, new.pc \in Live,
         s \in Desks => new.after # "send" /\ new.goal # "send" /\ new.pc # "send"
  PROVE  NoLater(s, new)
<1>1. session[s].lead.follow_up_count \in Nat
  BY LiveSession DEF Lead
<1> QED BY <1>1 DEF NoLater, Unaware

LEMMA FlushLate ==
  ASSUME IInv, IInv', LateInv, NEW s \in Sessions, Flush(s) \/ cancel_pending(s)
  PROVE  LateInv'
<1>1. Fits(s, session[s]) /\ session[s] \in Session
  BY DEF IInv, Fits
<1>2. s \in Desks => session[s].after # "send" /\ session[s].goal # "send"
  BY DEF LateInv
<1>3. late' = late /\ deskUsed' = deskUsed /\ lead' = lead
  BY DEF Flush, cancel_pending
<1>4. CASE Flush(s)
  <2>1. session[s].pc = "flush" /\ session[s].after \in Live /\ session[s].pc \in Live
    BY <1>1, <1>4 DEF Flush, At, Fits, Placed, Live, PC
  <2>2. PICK got \in SUBSET Wanted(s) :
          Set(s, [session[s] EXCEPT !.locks = @ \cup got,
                      !.written = IF got = Wanted(s) THEN DOMAIN session[s].marks ELSE @,
                      !.pc = IF got = Wanted(s) THEN session[s].after ELSE "flush"])
    BY <1>4 DEF Flush
  <2> DEFINE new == [session[s] EXCEPT !.locks = @ \cup got,
                      !.written = IF got = Wanted(s) THEN DOMAIN session[s].marks ELSE @,
                      !.pc = IF got = Wanted(s) THEN session[s].after ELSE "flush"]
  <2>3. /\ new.lead = session[s].lead /\ new.pc \in {session[s].after, "flush"}
        /\ new.after = session[s].after /\ new.goal = session[s].goal
    BY <1>1 DEF Session
  <2>4. Set(s, new)
    BY <2>2
  <2> HIDE DEF new
  <2>5. NoLater(s, new)
    BY <1>2, <2>1, <2>3, SameView
  <2> QED BY <1>3, <2>4, <2>5, QuietStep
<1>5. CASE cancel_pending(s)
  <2> DEFINE new == FlushThen([session[s] EXCEPT
                !.marks = Override(@, [j \in Pending(session[s]) |-> "CANCELLED"]), !.fresh = <<>>],
              session[s].goal)
  <2>1. session[s].pc \in Live /\ Set(s, new)
    BY <1>5 DEF cancel_pending, At, Live, PC
  <2>2. /\ new.lead = session[s].lead /\ new.pc = "flush"
        /\ new.after = session[s].goal /\ new.goal = session[s].goal
    BY <1>1 DEF Session, FlushThen
  <2> HIDE DEF new
  <2>3. "flush" \in Live
    BY DEF Live, PC
  <2>4. NoLater(s, new)
    BY <1>2, <2>1, <2>2, <2>3, SameView
  <2> QED BY <1>3, <2>1, <2>4, QuietStep
<1> QED BY <1>4, <1>5

(* A session that is over, or has not read the lead, can send nothing.     *)
LEMMA OverLate ==
  ASSUME IInv, IInv', LateInv, NEW s \in Sessions, NEW sent,
         Commit(s) \/ RollBack(s, sent) \/ BeginPass(s),
         lead.consent = "OPTED_OUT" => lead'.consent = "OPTED_OUT"
  PROVE  LateInv'
<1>1. PICK new : /\ Set(s, new) /\ new.pc \in {"idle", "read"}
                 /\ new.after = "idle" /\ new.goal = "idle"
  <2>1. \A batch : LET new == [Idle EXCEPT !.pc = "read", !.todo = batch,
                                   !.locks = {<<"task", j>> : j \in batch}]
                   IN  new.pc = "read" /\ new.after = "idle" /\ new.goal = "idle"
    BY DEF Idle, Blank
  <2>2. Idle.pc = "idle" /\ Idle.after = "idle" /\ Idle.goal = "idle"
    BY DEF Idle, Blank
  <2>3. CASE Commit(s) \/ RollBack(s, sent)
    BY <2>2, <2>3 DEF Commit, RollBack
  <2>4. CASE BeginPass(s)
    BY <2>1, <2>4 DEF BeginPass
  <2> QED BY <2>3, <2>4
<1>2. late' = late /\ deskUsed' = deskUsed
  BY DEF Commit, RollBack, BeginPass
<1>3. NoLater(s, new)
  BY <1>1 DEF NoLater, Unaware, Live
<1> QED BY <1>1, <1>2, <1>3, QuietStep

(* A turn is neither a pass nor a dashboard request.                       *)
LEMMA TurnLate ==
  ASSUME IInv, IInv', LateInv, NEW t \in Turns, NEW new, Set(t, new), late' = late,
         deskUsed' = deskUsed, lead' = lead
  PROVE  LateInv'
BY QuietStep, Disjoint DEF NoLater

LEMMA ArmLate ==
  ASSUME IInv, IInv', LateInv, NEW s \in Sessions, NEW pc \in {"commit", "task"},
         schedule_next(s, pc)
  PROVE  LateInv'
<1>1. session[s] \in Session /\ session[s].pc \in Live
  BY DEF IInv, Fits, schedule_next, At, Live, PC
<1>2. PICK fresh : Set(s, [session[s] EXCEPT !.pc = pc, !.fresh = fresh])
  BY DEF schedule_next
<1> DEFINE new == [session[s] EXCEPT !.pc = pc, !.fresh = fresh]
<1>3. /\ new.lead = session[s].lead /\ new.pc = pc
      /\ new.after = session[s].after /\ new.goal = session[s].goal
  BY <1>1 DEF Session
<1>4. Set(s, new)
  BY <1>2
<1> HIDE DEF new
<1>5. NoLater(s, new)
  BY <1>1, <1>3, SameView DEF LateInv, Live, PC
<1> QED BY <1>4, <1>5, QuietStep DEF schedule_next

(* The follow-up worker judges a task, or ends its pass.                   *)
LEMMA JudgeLate ==
  ASSUME IInv, IInv', LateInv, NEW p \in Passes,
         SkipTask(p) \/ DeferTask(p) \/ FailTask(p) \/ EndPass(p)
  PROVE  LateInv'
<1> DEFINE ses == session[p]
<1>1. p \in Sessions /\ p \notin Desks
  BY Disjoint
<1>2. ses.pc \in Live /\ UNCHANGED <<lead, late, deskUsed>>
  BY DEF SkipTask, DeferTask, FailTask, EndPass, At, Live, PC
<1>3. ses \in Session /\ ses.lead \in Lead
  BY <1>1, <1>2, LiveSession
<1>4. PICK new : Set(p, new) /\ new.lead = ses.lead
  <2>1. \A mark : Marked(p, mark).lead = ses.lead
    BY <1>3 DEF Marked, Session
  <2>2. \A mark : [Marked(p, mark) EXCEPT !.pc = "cancel", !.goal = "arm"].lead = ses.lead
    BY <1>3 DEF Marked, Session
  <2>3. [ses EXCEPT !.todo = @ \ {Due(p)}].lead = ses.lead
    BY <1>3 DEF Session
  <2>4. FlushThen(ses, "commit").lead = ses.lead
    BY <1>3 DEF Session, FlushThen
  <2>5. CASE SkipTask(p)
    BY <2>1, <2>2, <2>5 DEF SkipTask
  <2>6. CASE DeferTask(p)
    BY <2>3, <2>6 DEF DeferTask
  <2>7. CASE FailTask(p)
    BY <2>1, <2>7 DEF FailTask
  <2>8. CASE EndPass(p)
    BY <2>4, <2>8 DEF EndPass
  <2> QED BY <2>5, <2>6, <2>7, <2>8
<1>5. NoLater(p, new)
  BY <1>1, <1>2, <1>3, <1>4 DEF NoLater, Unaware, Lead
<1> QED BY <1>1, <1>2, <1>4, <1>5, QuietStep

(* A pass that reads the lead after the opt-out knows of it.               *)
LEMMA ReadLeadLate ==
  ASSUME IInv, IInv', LateInv, NEW p \in Passes, ReadLead(p)
  PROVE  LateInv'
<1> DEFINE k == Len(convs)
           o == Open("task", k)
           new == [o EXCEPT !.todo = session[p].todo, !.locks = session[p].locks]
<1>1. p \in Sessions /\ p \notin Desks
  BY Disjoint
<1>2. Set(p, new) /\ UNCHANGED <<lead, late, deskUsed>>
  BY DEF ReadLead
<1>3. o \in Session /\ o.lead = lead
  BY OpenSession, ConvsLength DEF PC
<1> HIDE DEF o
<1>4. new.lead = lead
  BY <1>3 DEF Session
<1> HIDE DEF new
<1>5. NoLater(p, new)
  BY <1>1, <1>4 DEF NoLater, Unaware
<1> QED BY <1>1, <1>2, <1>5, QuietStep

(* A nudge after the opt-out takes one from those that were left.          *)
LEMMA SendNudgeLate ==
  ASSUME IInv, IInv', LateInv, NEW p \in Passes, SendNudge(p)
  PROVE  LateInv'
<1> DEFINE ses == session[p]
           n == ses.lead.follow_up_count + 1
           v == [follow_up_count |-> n]
           new == FlushThen([Assign(Marked(p, "SENT"), v)
                               EXCEPT !.goal = "arm", !.nudged = @ + 1], "cancel")
           x == <<p, n>>
           l == Cardinality(LeftOf(session))   l1 == Cardinality(LeftOf(session'))
           m == Cardinality(SendingOf(session)) m1 == Cardinality(SendingOf(session'))
<1>1. p \in Sessions /\ p \notin Desks
  BY Disjoint
<1>2. ses.pc \in Live /\ Verdict(p) = "OK"
  BY DEF SendNudge, At, Live, PC
<1>3. ses \in Session /\ ses.lead \in Lead /\ {late, deskUsed} \subseteq Nat
  BY <1>1, <1>2, LiveSession
<1>4. /\ Set(p, new) /\ UNCHANGED <<lead, deskUsed>>
      /\ late' = IF lead.consent = "OPTED_OUT" THEN late + 1 ELSE late
  BY DEF SendNudge
<1>5. ses.lead.consent = "OPTED_IN" /\ n \in 1..max_attempts /\ n = ses.lead.follow_up_count + 1
  <2>1. ses.lead.consent # "OPTED_OUT" /\ ~(ses.lead.follow_up_count >= max_attempts)
    BY <1>2 DEF Verdict, check_eligibility
  <2>2. ses.lead.consent \in {"OPTED_IN", "OPTED_OUT"} /\ ses.lead.follow_up_count \in Nat
    BY <1>3 DEF Lead
  <2> QED BY <2>1, <2>2, LeadStoreAssumption
<1>6. new.lead = Override(ses.lead, v) /\ new.pc = "flush"
  BY <1>3 DEF FlushThen, Assign, Marked, Session
<1>7. new.lead.follow_up_count = n
  BY <1>3, <1>6 DEF Override, Lead
<1> HIDE DEF new, n, v
<1>8. session'[p] = new /\ \A q \in Sessions : q # p => session'[q] = session[q]
  BY <1>1, <1>4, OneMoves
<1>9. x \in Left
  BY <1>2, <1>3, <1>5 DEF Left, LeftOf, Budget, Unaware, Lead
<1>10. Left' \subseteq Left \ {x}
  <2> SUFFICES ASSUME NEW y \in Budget, Unaware(session'[y[1]]),
                      session'[y[1]].lead.follow_up_count < y[2]
               PROVE  y # x /\ Unaware(session[y[1]]) /\ session[y[1]].lead.follow_up_count < y[2]
    BY DEF Left, LeftOf, Budget, Unaware
  <2>1. y[1] \in Passes /\ y[1] \in Sessions /\ y[2] \in 1..max_attempts /\ y = <<y[1], y[2]>>
    BY Disjoint DEF Budget
  <2>2. CASE y[1] # p
    BY <1>8, <2>1, <2>2
  <2>3. CASE y[1] = p
    <3>1. n < y[2] /\ ses.lead.follow_up_count \in Nat /\ y[2] \in Int /\ n \in Int
      <4>1. ses.lead.follow_up_count \in Nat
        BY <1>3 DEF Lead
      <4>2. y[2] \in Int /\ n \in Int
        BY <1>5, <2>1, LeadStoreAssumption
      <4>3. session'[y[1]].lead.follow_up_count = n
        BY <1>7, <1>8, <2>3
      <4> QED BY <4>1, <4>2, <4>3
    <3>2. Unaware(ses)
      BY <1>2, <1>5 DEF Unaware
    <3>3. ses.lead.follow_up_count < y[2] /\ y[2] # n
      BY <1>5, <3>1
    <3> QED BY <2>3, <3>2, <3>3
  <2> QED BY <2>2, <2>3
<1>11. /\ Sending' \subseteq Sending
       /\ \A d \in Desks : session'[d].after # "send" /\ session'[d].goal # "send"
  BY <1>1, <1>4, OneMoves
<1>12. {l, m} \subseteq Nat /\ {l1, m1} \subseteq Nat /\ m1 <= m
  BY <1>11, FewCanBeLate, FS_Subset DEF Sending
<1>13. l1 <= l - 1
  <2>1. IsFiniteSet(Left) /\ Cardinality(Left \ {x}) = Cardinality(Left) - 1 /\ IsFiniteSet(Left \ {x})
    BY <1>9, FewCanBeLate, FS_RemoveElement DEF Left
  <2>2. Cardinality(Left') <= Cardinality(Left \ {x})
    BY <1>10, <2>1, FS_Subset
  <2> QED BY <2>1, <2>2 DEF Left
<1> HIDE DEF l, l1, m, m1
<1>14. /\ m1 + deskUsed <= m + deskUsed'
       /\ lead.consent = "OPTED_OUT" => late' + l1 + m1 + deskUsed <= late + l + m + deskUsed'
       /\ lead.consent = "OPTED_IN" => late' = late
  BY <1>3, <1>4, <1>12, <1>13
<1> QED BY <1>4, <1>11, <1>14, LateCounts DEF Left, Sending, l, l1, m, m1

(* A dashboard message is late at most once.                               *)
LEMMA MessageSentLate ==
  ASSUME IInv, IInv', LateInv, NEW d \in Desks, MessageSent(d)
  PROVE  LateInv'
<1> DEFINE ses == session[d]
           new == FlushThen([ses EXCEPT !.dirty = @ \cup {"last_outbound"}], "commit")
           l == Cardinality(LeftOf(session))   l1 == Cardinality(LeftOf(session'))
           m == Cardinality(SendingOf(session)) m1 == Cardinality(SendingOf(session'))
<1>1. d \in Sessions /\ d \notin Passes
  BY Disjoint
<1>2. ses \in Session /\ ses.pc = "send" /\ {late, deskUsed} \subseteq Nat
  BY <1>1 DEF IInv, Fits, MessageSent, At, TypeOK
<1>3. /\ Set(d, new) /\ UNCHANGED <<lead, deskUsed>>
      /\ late' = IF lead.consent = "OPTED_OUT" THEN late + 1 ELSE late
  BY DEF MessageSent
<1>4. new.pc = "flush" /\ new.after = "commit" /\ new.goal = ses.goal /\ ses.goal # "send"
  BY <1>2 DEF FlushThen, Session, LateInv
<1> HIDE DEF new
<1>5. /\ Sending' \subseteq Sending \ {d} /\ Left' \subseteq Left
      /\ \A e \in Desks : session'[e].after # "send" /\ session'[e].goal # "send"
  BY <1>1, <1>3, <1>4, OneMoves
<1>6. {l, m} \subseteq Nat /\ {l1, m1} \subseteq Nat /\ l1 <= l
  BY <1>5, FewCanBeLate, FS_Subset DEF Left
<1>7. m1 <= m - 1
  <2>1. d \in Sending
    BY <1>2 DEF Sending, SendingOf
  <2>2. /\ IsFiniteSet(Sending) /\ Cardinality(Sending \ {d}) = Cardinality(Sending) - 1
        /\ IsFiniteSet(Sending \ {d})
    BY <2>1, FewCanBeLate, FS_RemoveElement DEF Sending
  <2>3. Cardinality(Sending') <= Cardinality(Sending \ {d})
    BY <1>5, <2>2, FS_Subset
  <2> QED BY <2>2, <2>3 DEF Sending
<1> HIDE DEF l, l1, m, m1
<1>8. /\ m1 + deskUsed <= m + deskUsed'
      /\ lead.consent = "OPTED_OUT" => late' + l1 + m1 + deskUsed <= late + l + m + deskUsed'
      /\ lead.consent = "OPTED_IN" => late' = late
  BY <1>2, <1>3, <1>6, <1>7
<1> QED BY <1>3, <1>5, <1>8, LateCounts DEF Left, Sending, l, l1, m, m1

(* Each dashboard request that may send is counted.                        *)
LEMMA RequestLate ==
  ASSUME IInv, IInv', LateInv, NEW d \in Desks, take_over(d) \/ release(d) \/ send_message(d)
  PROVE  LateInv'
<1> DEFINE k == Len(convs)
           o == Open("cancel", k)
           e == Escalate(o)
           f == [e EXCEPT !.goal = "commit"]
           a == Assign(o, [status |-> "ENGAGED", handed_off |-> FALSE])
           b == AssignConv(a, "ACTIVE")
           g == [b EXCEPT !.goal = "arm"]
           h == FlushThen(g, "cancel")
           q == Open("send", k)
           l == Cardinality(LeftOf(session))   l1 == Cardinality(LeftOf(session'))
           m == Cardinality(SendingOf(session)) m1 == Cardinality(SendingOf(session'))
<1>1. d \in Sessions /\ d \notin Passes
  BY Disjoint
<1>2. PICK new \in {f, h, q} : Request(d, new)
  BY DEF take_over, release, send_message
<1>3. /\ o \in Session /\ o.lead \in Lead /\ q \in Session
  BY OpenSession, ConvsLength DEF PC
<1>4. o.after = "idle" /\ q.after = "idle" /\ q.goal = "idle"
  BY DEF Open, Blank
<1> HIDE DEF o, q
<1>5. f.after = "idle" /\ f.goal = "commit"
  <2>1. Keeps(e, o) /\ SamePlace(e, o)
    BY <1>3, EscalateKeeps
  <2> HIDE DEF e
  <2> QED BY <1>4, <2>1 DEF Keeps, SamePlace, Session
<1>6. h.after = "cancel" /\ h.goal = "arm"
  <2>1. Keeps(a, o) /\ SamePlace(a, o)
    BY <1>3, AssignKeeps DEF Attribute, LeadStatus
  <2> HIDE DEF a
  <2>2. Keeps(b, a)
    BY <2>1, AssignConvKeeps DEF Keeps, ConversationStatus
  <2> HIDE DEF b
  <2> QED BY <2>2 DEF Keeps, Session, FlushThen
<1>7. Set(d, new) /\ UNCHANGED <<lead, late>> /\ deskUsed' = deskUsed + 1
  BY <1>2 DEF Request
<1>8. new.after # "send" /\ new.goal # "send"
  BY <1>2, <1>4, <1>5, <1>6
<1>9. /\ Sending' \subseteq Sending \cup {d} /\ Left' \subseteq Left
      /\ \A x \in Desks : session'[x].after # "send" /\ session'[x].goal # "send"
  BY <1>1, <1>7, <1>8, OneMoves
<1>10. {l, m} \subseteq Nat /\ {l1, m1} \subseteq Nat /\ l1 <= l /\ {late, deskUsed} \subseteq Nat
  BY <1>9, FewCanBeLate, FS_Subset DEF Left, IInv, TypeOK
<1>11. m1 <= m + 1
  <2>0. IsFiniteSet(Sending) /\ Cardinality(Sending) \in Nat
    BY FewCanBeLate DEF Sending
  <2>1. /\ IsFiniteSet(Sending \cup {d})
        /\ Cardinality(Sending \cup {d}) =
             IF d \in Sending THEN Cardinality(Sending) ELSE Cardinality(Sending) + 1
    BY <2>0, FS_AddElement
  <2>2. Cardinality(Sending') <= Cardinality(Sending \cup {d})
    BY <1>9, <2>1, FS_Subset
  <2>3. Cardinality(Sending \cup {d}) \in Nat
    BY <2>1, FS_CardinalityType
  <2>4. Cardinality(Sending \cup {d}) <= Cardinality(Sending) + 1
    BY <2>0, <2>1
  <2> QED BY <1>10, <2>0, <2>2, <2>3, <2>4 DEF Sending
<1> HIDE DEF l, l1, m, m1
<1>12. /\ m1 + deskUsed <= m + deskUsed'
       /\ lead.consent = "OPTED_OUT" => late' + l1 + m1 + deskUsed <= late + l + m + deskUsed'
  BY <1>7, <1>10, <1>11
<1> QED BY <1>7, <1>9, <1>12, LateCounts DEF Left, Sending, l, l1, m, m1

LEMMA InitLate == Init => LateInv
<1> SUFFICES ASSUME Init PROVE LateInv
  OBVIOUS
<1>1. /\ lead.consent = "OPTED_IN" /\ late = 0 /\ deskUsed = 0
      /\ session = [s \in Sessions |-> Idle]
  BY DEF Init
<1>2. Idle.pc = "idle" /\ Idle.after = "idle" /\ Idle.goal = "idle"
  BY DEF Idle, Blank
<1> HIDE DEF Idle
<1>3. \A d \in Desks : session[d] = Idle
  BY <1>1, Disjoint
<1>4. Sending = {} /\ Cardinality(Sending) = 0
  <2>1. Sending = {}
    BY <1>2, <1>3 DEF Sending, SendingOf
  <2> QED BY <2>1, FS_EmptySet
<1>5. Cardinality(Left) <= Cardinality(Budget) /\ {Cardinality(Left), Cardinality(Budget)} \subseteq Nat
  BY FewCanBeLate DEF Left
<1> QED BY <1>1, <1>2, <1>3, <1>4, <1>5 DEF LateInv

LEMMA NextLate == IInv /\ IInv' /\ LateInv /\ [Next]_vars => LateInv'
<1> SUFFICES ASSUME IInv, IInv', LateInv, [Next]_vars PROVE LateInv'
  OBVIOUS
<1>1. CASE UNCHANGED vars
  BY <1>1, NobodyLater DEF vars, LateInv, Left, Sending
<1>2. CASE Arrive \/ \E i \in DOMAIN inbox : RateLimited(i) \/ NotConfigured(i)
  <2>1. UNCHANGED <<lead, session, late, deskUsed>>
    BY <1>2 DEF Arrive, RateLimited, NotConfigured
  <2> QED BY <2>1, NobodyLater DEF LateInv, Left, Sending
<1>3. ASSUME NEW s \in Sessions, Flush(s) \/ cancel_pending(s) PROVE LateInv'
  BY <1>3, FlushLate
<1>4. ASSUME NEW s \in Sessions, Next,
             Commit(s) \/ DeadlockVictim(s) \/ (\E sent : RollBack(s, sent)) \/ BeginPass(s)
      PROVE  LateInv'
  <2>1. PICK sent : Commit(s) \/ RollBack(s, sent) \/ BeginPass(s)
    BY <1>4 DEF DeadlockVictim
  <2> QED BY <1>4, <2>1, ConsentKept, OverLate
<1>5. ASSUME Next, NEW t \in Turns, TurnStep(t) PROVE LateInv'
  <2>1. CASE TurnFails(t)
    BY <1>5, <2>1, <1>4, Disjoint DEF TurnFails
  <2>2. CASE schedule_next(t, "commit")
    BY <2>2, ArmLate, Disjoint
  <2>3. CASE EndModel(t) \/ \E i \in DOMAIN inbox : BeginTurn(t, i)
    <3>1. UNCHANGED <<lead, late, deskUsed>> /\ \E new : Set(t, new)
      BY <2>3 DEF EndModel, BeginTurn
    <3> QED BY <3>1, TurnLate
  <2>4. CASE update_lead_profile(t) \/ score_lead(t) \/ book_appointment(t) \/ escalate_to_human(t)
    <3>1. \E new : Tool(t, new)
      BY <2>4 DEF update_lead_profile, score_lead, book_appointment, escalate_to_human
    <3>2. UNCHANGED <<lead, late, deskUsed>> /\ \E new : Set(t, new)
      BY <3>1 DEF Tool
    <3> QED BY <3>2, TurnLate
  <2> QED BY <1>5, <2>1, <2>2, <2>3, <2>4 DEF TurnStep
<1>6. ASSUME Next, NEW d \in Desks, DeskStep(d) PROVE LateInv'
  <2>1. CASE take_over(d) \/ release(d) \/ send_message(d)
    BY <2>1, RequestLate
  <2>2. CASE schedule_next(d, "commit")
    BY <2>2, ArmLate, Disjoint
  <2>3. CASE MessageSent(d)
    BY <2>3, MessageSentLate
  <2>4. CASE MessageRejected(d)
    BY <1>4, <1>6, <2>4, Disjoint DEF MessageRejected
  <2> QED BY <1>6, <2>1, <2>2, <2>3, <2>4 DEF DeskStep
<1>7. ASSUME Next, NEW p \in Passes, PassStep(p) PROVE LateInv'
  <2>1. CASE BeginPass(p) \/ PassFails(p)
    BY <1>4, <1>7, <2>1, Disjoint DEF PassFails
  <2>2. CASE ReadLead(p)
    BY <2>2, ReadLeadLate
  <2>3. CASE SkipTask(p) \/ DeferTask(p) \/ FailTask(p) \/ EndPass(p)
    BY <2>3, JudgeLate
  <2>4. CASE SendNudge(p)
    BY <2>4, SendNudgeLate
  <2>5. CASE schedule_next(p, "task")
    BY <2>5, ArmLate, Disjoint
  <2> QED BY <1>7, <2>1, <2>2, <2>3, <2>4, <2>5 DEF PassStep
<1> QED BY <1>1, <1>2, <1>3, <1>4, <1>5, <1>6, <1>7 DEF Next

(* Each attempt of a message answers once at most, and the attempt that is *)
(* done is one more than those that were tried again.                      *)
RepliesInv ==
  \A i \in DOMAIN inbox :
    /\ inbox[i].late <= inbox[i].tries + (IF inbox[i].state = "done" THEN 1 ELSE 0)
    /\ inbox[i].state = "done" => inbox[i].tries < MAX_ATTEMPTS

(* Only one message changes, and it keeps to its attempts.                 *)
LEMMA OneReplies ==
  ASSUME RepliesInv, NEW i \in DOMAIN inbox, DOMAIN inbox' = DOMAIN inbox,
         \A j \in DOMAIN inbox : j # i => inbox'[j] = inbox[j],
         inbox'[i].late <= inbox'[i].tries + (IF inbox'[i].state = "done" THEN 1 ELSE 0),
         inbox'[i].state = "done" => inbox'[i].tries < MAX_ATTEMPTS
  PROVE  RepliesInv'
BY DEF RepliesInv

LEMMA BeginReplies ==
  ASSUME IInv, RepliesInv, NEW t \in Turns, NEW i \in DOMAIN inbox, BeginTurn(t, i)
  PROVE  RepliesInv'
<1>1. /\ inbox' = [inbox EXCEPT ![i].state = "running"]
      /\ inbox[i].state = "queued"
  BY DEF BeginTurn
<1>2. inbox[i] \in Message(Len(convs)) /\ inbox \in Seq(Message(Len(convs)))
  BY InboxTyped DEF IInv, TypeOK, Message
<1>3. /\ DOMAIN inbox' = DOMAIN inbox
      /\ \A j \in DOMAIN inbox : j # i => inbox'[j] = inbox[j]
      /\ inbox'[i] = [inbox[i] EXCEPT !.state = "running"]
  BY <1>1, <1>2
<1>4. /\ inbox'[i].late = inbox[i].late /\ inbox'[i].tries = inbox[i].tries
      /\ inbox'[i].state = "running"
  BY <1>2, <1>3 DEF Message
<1>5. inbox[i].late <= inbox[i].tries /\ inbox[i].tries \in 0..MAX_ATTEMPTS
  BY <1>1, InboxTyped DEF RepliesInv
<1>6. inbox'[i].late <= inbox'[i].tries + (IF inbox'[i].state = "done" THEN 1 ELSE 0)
  BY <1>4, <1>5, LeadStoreAssumption
<1> QED BY <1>3, <1>4, <1>6, OneReplies

LEMMA UnreadReplies ==
  ASSUME IInv, RepliesInv, NEW i \in DOMAIN inbox, RateLimited(i) \/ NotConfigured(i)
  PROVE  RepliesInv'
<1>1. inbox[i].state = "queued"
  BY DEF RateLimited, NotConfigured
<1>2. inbox[i].late <= inbox[i].tries /\ inbox[i].tries \in 0..MAX_ATTEMPTS
  BY <1>1, InboxTyped DEF RepliesInv
<1>3. PICK x \in {"limited", "dead"} :
        /\ DOMAIN inbox' = DOMAIN inbox
        /\ inbox'[i].tries = inbox[i].tries /\ inbox'[i].state = x
        /\ inbox'[i].late = inbox[i].late
        /\ \A j \in DOMAIN inbox : j # i => inbox'[j] = inbox[j]
  BY UnreadMoves
<1> QED BY <1>2, <1>3, OneReplies

(* The next state has its types too.                                       *)
LEMMA InboxLate ==
  ASSUME IInv', NEW i \in DOMAIN inbox, DOMAIN inbox' = DOMAIN inbox
  PROVE  inbox'[i].late \in Nat
<1>1. inbox' \in Seq(Message(Len(convs')))
  BY DEF IInv, TypeOK, Message
<1>2. inbox'[i] \in Message(Len(convs'))
  BY <1>1
<1> QED BY <1>2 DEF Message

LEMMA RetryReplies ==
  ASSUME IInv, IInv', RepliesInv, NEW s \in Turns, NEW sent \in BOOLEAN, RollBack(s, sent),
         session[s].pc # "idle"
  PROVE  RepliesInv'
<1>1. PICK i, n : /\ i = session[s].message /\ n = inbox[i].tries + 1
                  /\ i \in DOMAIN inbox /\ inbox[i].state = "running"
  BY Disjoint DEF IInv, Fits, HonoursStop
<1>2. /\ DOMAIN inbox' = DOMAIN inbox
      /\ inbox'[i].tries = n
      /\ inbox'[i].state # "done"
      /\ inbox'[i].late <= inbox[i].late + 1
      /\ \A j \in DOMAIN inbox : j # i => inbox'[j] = inbox[j]
  BY <1>1, RetryMoves
<1>3. inbox[i].late <= inbox[i].tries /\ inbox[i].tries \in 0..MAX_ATTEMPTS
      /\ inbox[i].late \in Nat
  BY <1>1, InboxTyped DEF RepliesInv
<1>4. inbox'[i].late \in Nat
  BY <1>1, <1>2, InboxLate
<1>5. inbox'[i].late <= n
  BY <1>1, <1>2, <1>3, <1>4, LeadStoreAssumption
<1> QED BY <1>1, <1>2, <1>5, OneReplies

LEMMA DoneReplies ==
  ASSUME IInv, IInv', RepliesInv, NEW s \in Turns, Commit(s)
  PROVE  RepliesInv'
<1>1. PICK i : /\ i = session[s].message
               /\ i \in DOMAIN inbox /\ inbox[i].state = "running"
  BY Disjoint DEF IInv, Fits, HonoursStop, Commit, At
<1>2. /\ DOMAIN inbox' = DOMAIN inbox
      /\ inbox[i].tries < MAX_ATTEMPTS
      /\ inbox'[i].tries = inbox[i].tries /\ inbox'[i].state = "done"
      /\ inbox'[i].late <= inbox[i].late + 1
      /\ \A j \in DOMAIN inbox : j # i => inbox'[j] = inbox[j]
  BY <1>1, DoneMoves
<1>3. inbox[i].late <= inbox[i].tries /\ inbox[i].tries \in 0..MAX_ATTEMPTS
      /\ inbox[i].late \in Nat
  BY <1>1, InboxTyped DEF RepliesInv
<1>4. inbox'[i].late \in Nat
  BY <1>1, <1>2, InboxLate
<1>5. inbox'[i].late <= inbox[i].tries + 1
  BY <1>2, <1>3, <1>4, LeadStoreAssumption
<1> QED BY <1>1, <1>2, <1>5, OneReplies

LEMMA NextReplies == IInv /\ IInv' /\ RepliesInv /\ [Next]_vars => RepliesInv'
<1> SUFFICES ASSUME IInv, IInv', RepliesInv, [Next]_vars PROVE RepliesInv'
  OBVIOUS
<1>1. CASE inbox' = inbox
  BY <1>1 DEF RepliesInv
<1>2. CASE Arrive
  <2>1. PICK e : inbox' = Append(inbox, e) /\ e.late = 0 /\ e.tries = 0 /\ e.state = "queued"
    BY <1>2 DEF Arrive
  <2>2. inbox \in Seq(Message(Len(convs)))
    BY DEF IInv, TypeOK, Message
  <2>3. ASSUME NEW j \in DOMAIN inbox'
        PROVE  inbox'[j] = e \/ (j \in DOMAIN inbox /\ inbox'[j] = inbox[j])
    BY <2>1, <2>2
  <2> QED BY <2>1, <2>3 DEF RepliesInv
<1>3. ASSUME NEW i \in DOMAIN inbox, RateLimited(i) \/ NotConfigured(i) PROVE RepliesInv'
  BY <1>3, UnreadReplies
<1>4. ASSUME NEW t \in Turns, NEW i \in DOMAIN inbox, BeginTurn(t, i) PROVE RepliesInv'
  BY <1>4, BeginReplies
<1>5. ASSUME NEW s \in Sessions, Commit(s) PROVE RepliesInv'
  <2>1. CASE s \in Turns
    BY <1>5, <2>1, DoneReplies
  <2>2. CASE s \notin Turns
    BY <1>1, <1>5, <2>2 DEF Commit
  <2> QED BY <2>1, <2>2
<1>6. ASSUME NEW s \in Sessions, NEW sent \in BOOLEAN, RollBack(s, sent),
             s \in Turns => session[s].pc # "idle"
      PROVE  RepliesInv'
  <2>1. CASE s \in Turns
    BY <1>6, <2>1, RetryReplies
  <2>2. CASE s \notin Turns
    BY <1>1, <1>6, <2>2 DEF RollBack
  <2> QED BY <2>1, <2>2
<1>7. ASSUME NEW s \in Sessions, Flush(s) \/ cancel_pending(s) \/ DeadlockVictim(s)
      PROVE  RepliesInv'
  <2>1. DeadlockVictim(s) => RollBack(s, FALSE) /\ session[s].pc # "idle"
    BY DEF DeadlockVictim, Deadlocked, WaitsFor, At
  <2>2. Flush(s) \/ cancel_pending(s) => inbox' = inbox
    BY DEF Flush, cancel_pending
  <2> QED BY <1>1, <1>6, <1>7, <2>1, <2>2
<1>8. ASSUME NEW t \in Turns, TurnStep(t) PROVE RepliesInv'
  <2>1. CASE TurnFails(t)
    <3>1. PICK sent \in BOOLEAN : RollBack(t, sent)
      BY <2>1 DEF TurnFails, Sends
    <3> QED BY <1>6, <2>1, <3>1, Disjoint DEF TurnFails, At
  <2>2. CASE ~TurnFails(t) /\ ~\E i \in DOMAIN inbox : BeginTurn(t, i)
    <3>1. inbox' = inbox
      BY <1>8, <2>2 DEF TurnStep, update_lead_profile, score_lead, book_appointment,
                        escalate_to_human, Tool, EndModel, schedule_next
    <3> QED BY <1>1, <3>1
  <2> QED BY <1>4, <2>1, <2>2
<1>9. ASSUME NEW d \in Desks, DeskStep(d) PROVE RepliesInv'
  <2>1. CASE MessageRejected(d)
    BY <1>6, <2>1, Disjoint DEF MessageRejected
  <2>2. CASE ~MessageRejected(d)
    <3>1. inbox' = inbox
      BY <1>9, <2>2 DEF DeskStep, take_over, release, Request, send_message, MessageSent,
                        schedule_next
    <3> QED BY <1>1, <3>1
  <2> QED BY <2>1, <2>2
<1>10. ASSUME NEW p \in Passes, PassStep(p) PROVE RepliesInv'
  <2>1. CASE PassFails(p)
    BY <1>6, <2>1, Disjoint DEF PassFails
  <2>2. CASE ~PassFails(p)
    <3>1. inbox' = inbox
      BY <1>10, <2>2 DEF PassStep, BeginPass, ReadLead, SkipTask, DeferTask, FailTask,
                         SendNudge, EndPass, schedule_next
    <3> QED BY <1>1, <3>1
  <2> QED BY <2>1, <2>2
<1>11. CASE UNCHANGED vars
  BY <1>1, <1>11 DEF vars
<1> QED BY <1>2, <1>3, <1>5, <1>7, <1>8, <1>9, <1>10, <1>11 DEF Next

(* After a committed opt-out each follow-up worker reaches the lead at     *)
(* most as often as the cap allows, in one batch, each dashboard message   *)
(* at most once (followup_worker.process_task, dashboard.send_message),    *)
(* and the turns of one message at most once for each attempt it has       *)
(* (engine.handle_inbound, ingestion.deliver): a reply is not suppressed.  *)
THEOREM LateIsBounded == Spec => []LateBounded
<1>1. ASSUME IInv, LateInv PROVE late <= Cardinality(Passes) * max_attempts + deskUsed
  <2>1. /\ Cardinality(Budget) = Cardinality(Passes) * max_attempts
        /\ {Cardinality(Left), Cardinality(Sending), Cardinality(Budget)} \subseteq Nat
    BY FewCanBeLate DEF Left, Sending
  <2>2. {late, deskUsed} \subseteq Nat
    BY <1>1 DEF IInv, TypeOK
  <2>3. late <= Cardinality(Budget) + deskUsed
    BY <1>1, <2>1, <2>2 DEF LateInv
  <2> QED BY <2>1, <2>3
<1>2. ASSUME IInv, RepliesInv, NEW i \in DOMAIN inbox PROVE inbox[i].late <= MAX_ATTEMPTS
  <2>1. inbox[i].late \in Nat /\ inbox[i].tries \in 0..MAX_ATTEMPTS
    BY <1>2, InboxTyped
  <2>2. /\ inbox[i].late <= inbox[i].tries + (IF inbox[i].state = "done" THEN 1 ELSE 0)
        /\ inbox[i].state = "done" => inbox[i].tries < MAX_ATTEMPTS
    BY <1>2 DEF RepliesInv
  <2> QED BY <2>1, <2>2, LeadStoreAssumption
<1>3. IInv /\ LateInv /\ RepliesInv => LateBounded
  BY <1>1, <1>2 DEF LateBounded
<1>4. Init => RepliesInv
  BY DEF Init, RepliesInv
<1> QED BY <1>3, <1>4, Invariant, InitLate, NextLate, NextReplies, PTL DEF Spec
=============================================================================
