---------------------------- MODULE LeadLifecycle ----------------------------
(***************************************************************************)
(* Everything that happens to one lead at the same time: the model turns   *)
(* of its messages (agent/engine.py, the tools of agent/tools.py,          *)
(* services/turn.py and deliver), the agent taking the lead over or giving *)
(* it back (api/dashboard.py), and the follow-up worker                    *)
(* (workers/followup_worker.py). Each of them is one transaction of        *)
(* LeadStore.                                                              *)
(***************************************************************************)
EXTENDS LeadStore

PC == {"idle", "model", "flush", "cancel", "arm", "commit", "read", "task", "send"}

Init ==
  /\ lead = [status |-> "NEW", consent |-> "OPTED_IN", last_inbound |-> 0,
             follow_up_count |-> 0, handed_off |-> FALSE, high_budget |-> FALSE]
  /\ convs = <<>>
  /\ tasks = <<>>
  /\ session = [s \in Sessions |-> Idle]
  /\ inbox = <<>>
  /\ nudges = 0
  /\ undone = 0
  /\ late = 0
  /\ deskUsed = 0
  /\ faults = 0

(* The webhook claims the lead's next message into its latest conversation *)
(* that is not closed, or into a new one.                                  *)
OpenConvs == {k \in DOMAIN convs : convs[k] # "CLOSED"}

Arrive ==
  /\ Len(inbox) < Messages
  /\ LET k == IF OpenConvs = {} THEN Len(convs) + 1
              ELSE CHOOSE i \in OpenConvs : \A j \in OpenConvs : j <= i
     IN  \E text \in Texts[Len(inbox) + 1] :
           inbox' = Append(inbox, [state |-> "queued", stop |-> is_opt_out(text),
                                   conv |-> k, tries |-> 0, late |-> 0])
  /\ convs' = IF OpenConvs = {} THEN Append(convs, "ACTIVE") ELSE convs
  /\ UNCHANGED <<lead, tasks, session, nudges, undone, late, deskUsed, faults>>

-----------------------------------------------------------------------------
(* handle_inbound. A stop is honoured first; then a lead a human owns is   *)
(* left alone; then a budget above the threshold goes to a human.          *)
Escalate(ses) ==
  [AssignConv(Assign(ses, [status |-> "HANDED_OFF", handed_off |-> TRUE]), "HUMAN_TAKEOVER")
     EXCEPT !.escalated = TRUE, !.dirty = @ \cup {"handed_off"}]

OptOut(ses) ==
  [AssignConv(Assign(ses, [consent |-> "OPTED_OUT", status |-> "OPTED_OUT"]), "CLOSED")
     EXCEPT !.pc = "cancel", !.goal = "commit"]

StaySilent(ses) ==
  [AssignConv(ses, "HUMAN_TAKEOVER") EXCEPT !.pc = "cancel", !.goal = "commit", !.reply = FALSE]

HumanOwns(ses) == ses.conv = "HUMAN_TAKEOVER" \/ ses.lead.status = "HANDED_OFF"

(* Two other readings of it: the takeover check before the stop, and every *)
(* message that is no stop taken as a fresh opt-in.                        *)
TakeoverFirst(ses) ==
  IF HumanOwns(ses) THEN StaySilent(ses)
  ELSE IF inbox[ses.message].stop THEN OptOut(ses)
  ELSE IF ses.lead.high_budget THEN FlushThen(Escalate(ses), "model")
  ELSE [ses EXCEPT !.pc = "model"]

OptsInAgain(ses) ==
  IF inbox[ses.message].stop THEN OptOut(ses)
  ELSE IF HumanOwns(ses) THEN StaySilent(Assign(ses, [consent |-> "OPTED_IN"]))
  ELSE [Assign(ses, [consent |-> "OPTED_IN"]) EXCEPT !.pc = "model"]

handle_inbound(ses) ==
  IF inbox[ses.message].stop THEN OptOut(ses)
  ELSE IF HumanOwns(ses) THEN StaySilent(ses)
  ELSE IF ses.lead.high_budget THEN FlushThen(Escalate(ses), "model")
  ELSE [ses EXCEPT !.pc = "model"]

BeginTurn(t, i) ==
  /\ At(t, "idle")
  /\ inbox[i].state = "queued"
  /\ inbox' = [inbox EXCEPT ![i].state = "running"]
  /\ Set(t, handle_inbound(Assign([Open("model", inbox[i].conv) EXCEPT !.message = i,
                                                                       !.reply = TRUE],
                                  [last_inbound |-> i])))
  /\ UNCHANGED <<lead, convs, tasks, nudges, undone, late, deskUsed, faults>>

(* run_claim: over the rate limit, the message is acknowledged unread.     *)
RateLimited(i) ==
  /\ inbox[i].state = "queued"
  /\ inbox' = [inbox EXCEPT ![i].state = "limited"]
  /\ UNCHANGED <<lead, convs, tasks, session, nudges, undone, late, deskUsed, faults>>

(* No model key, or an agent without a number: it is dead-lettered unread. *)
NotConfigured(i) ==
  /\ inbox[i].state = "queued"
  /\ inbox' = [inbox EXCEPT ![i].state = "dead"]
  /\ UNCHANGED <<lead, convs, tasks, session, nudges, undone, late, deskUsed, faults>>

(* The model calls a tool; each one flushes.                               *)
MayCall(t) == At(t, "model") /\ session[t].tools < MaxTools

Tool(t, ses) ==
  /\ Set(t, FlushThen([ses EXCEPT !.tools = @ + 1], "model"))
  /\ UNCHANGED <<lead, convs, tasks, inbox, nudges, undone, late, deskUsed, faults>>

update_lead_profile(t) ==
  /\ MayCall(t)
  /\ \E high \in BOOLEAN :
       Tool(t, Assign(session[t],
         [high_budget |-> high,
          status |-> IF session[t].lead.status = "NEW" THEN "ENGAGED" ELSE session[t].lead.status]))

score_lead(t) ==
  /\ MayCall(t)
  /\ \E cold \in BOOLEAN :
       Tool(t, IF ~cold /\ session[t].lead.status = "ENGAGED"
               THEN Assign(session[t], [status |-> "QUALIFIED"]) ELSE session[t])

book_appointment(t) ==
  /\ MayCall(t)
  /\ \E synced \in BOOLEAN :
       Tool(t, [Assign(session[t], [status |-> "BOOKED"]) EXCEPT !.unsynced = @ \/ ~synced])

escalate_to_human(t) ==
  /\ MayCall(t)
  /\ Tool(t, Escalate(session[t]))

(* The model is done, or failed; a failure, or a booking the calendar does *)
(* not show, goes to a human. The reply is recorded, then the cadence is   *)
(* re-armed.                                                               *)
EndModel(t) ==
  /\ At(t, "model")
  /\ \E failed \in BOOLEAN :
       LET ses == IF (failed \/ session[t].unsynced) /\ ~session[t].escalated
                  THEN Escalate(session[t]) ELSE session[t]
       IN  Set(t, FlushThen([ses EXCEPT !.goal = "arm", !.tools = 0,
                                      !.escalated = FALSE, !.unsynced = FALSE], "cancel"))
  /\ UNCHANGED <<lead, convs, tasks, inbox, nudges, undone, late, deskUsed, faults>>

(* A turn that failed is tried again until its attempts are used up.       *)
(* OneTryTooMany counts the attempts from zero.                            *)
OneTryTooMany(message) ==
  [message EXCEPT !.tries = @ + 1,
                  !.state = IF message.tries < MAX_ATTEMPTS THEN "queued" ELSE "dead"]

Retried(message) ==
  [message EXCEPT !.tries = @ + 1,
                  !.state = IF message.tries + 1 < MAX_ATTEMPTS THEN "queued" ELSE "dead"]

(* What a turn that answers the lead may do about its reply: deliver it,   *)
(* or leave it unsent (outside the service window, rejected, raised).      *)
(* Neither the engine nor deliver asks for consent: a reply that goes out  *)
(* while an opt-out is committed is counted with its message.              *)
Sends(s) == IF session[s].reply THEN BOOLEAN ELSE {FALSE}

Answered(message, sent) ==
  IF sent /\ lead.consent = "OPTED_OUT" THEN [message EXCEPT !.late = @ + 1] ELSE message

(* The transaction is rolled back; a dashboard request or a pass is over   *)
(* with that.                                                              *)
RollBack(s, sent) ==
  /\ s \in Passes => faults < MaxFaults
  /\ faults' = IF s \in Passes THEN faults + 1 ELSE faults
  /\ Set(s, Idle)
  /\ undone' = undone + session[s].nudged
  /\ inbox' = IF s \in Turns
              THEN [inbox EXCEPT ![session[s].message] = Retried(Answered(@, sent))] ELSE inbox
  /\ UNCHANGED <<lead, convs, tasks, nudges, late, deskUsed>>

(* deliver: the channel rejects the reply, or raises; or the commit fails, *)
(* when the reply is out.                                                  *)
TurnFails(t) ==
  /\ At(t, "commit")
  /\ \E sent \in Sends(t) : RollBack(t, sent)

DeadlockVictim(s) ==
  /\ Deadlocked(s)
  /\ RollBack(s, FALSE)

(* The channel took the turn's reply, or there is none or no window for    *)
(* it, and the session is committed. The turn has held the lead's row      *)
(* since its first flush, so consent is the same when it sends.            *)
Commit(s) ==
  /\ At(s, "commit")
  /\ SaveRows(s)
  /\ Set(s, Idle)
  /\ \E sent \in Sends(s) :
       inbox' = IF s \in Turns
                THEN [inbox EXCEPT ![session[s].message] =
                        [Answered(@, sent) EXCEPT !.state = "done"]] ELSE inbox
  /\ UNCHANGED <<nudges, undone, late, deskUsed, faults>>

-----------------------------------------------------------------------------
(* The dashboard: take_over and release work on the latest conversation.   *)
Request(d, ses) ==
  /\ At(d, "idle")
  /\ deskUsed < MaxDesk
  /\ deskUsed' = deskUsed + 1
  /\ Set(d, ses)
  /\ UNCHANGED <<lead, convs, tasks, inbox, nudges, undone, late, faults>>

take_over(d) ==
  Request(d, [Escalate(Open("cancel", Len(convs))) EXCEPT !.goal = "commit"])

release(d) ==
  LET ses == Open("cancel", Len(convs))
  IN  /\ HumanOwns(ses)
      /\ ses.lead.consent # "OPTED_OUT"
      /\ Request(d, FlushThen(
           [AssignConv(Assign(ses, [status |-> "ENGAGED", handed_off |-> FALSE]), "ACTIVE")
              EXCEPT !.goal = "arm"], "cancel"))

(* send_message: the agent writes to the lead. Consent and the service      *)
(* window are judged before the channel is asked; a message it takes is    *)
(* saved, and a message it does not take is not: the 502 rolls back.       *)
send_message(d) ==
  /\ lead.consent # "OPTED_OUT"
  /\ convs # <<>>
  /\ Request(d, Open("send", Len(convs)))

MessageSent(d) ==
  /\ At(d, "send")
  /\ late' = IF lead.consent = "OPTED_OUT" THEN late + 1 ELSE late
  /\ Set(d, FlushThen([session[d] EXCEPT !.dirty = @ \cup {"last_outbound"}], "commit"))
  /\ UNCHANGED <<lead, convs, tasks, inbox, nudges, undone, deskUsed, faults>>

MessageRejected(d) ==
  /\ At(d, "send")
  /\ RollBack(d, FALSE)

-----------------------------------------------------------------------------
(* The follow-up worker. due_tasks locks the due tasks nobody else holds;  *)
(* which of the scheduled ones are due is left open.                       *)
due_tasks(p) ==
  {j \in DOMAIN tasks : tasks[j].status = "SCHEDULED" /\ ~HeldByOther(p, <<"task", j>>)}

BeginPass(p) ==
  /\ At(p, "idle")
  /\ \E batch \in SUBSET due_tasks(p) \ {{}} :
       Set(p, [Idle EXCEPT !.pc = "read",
                 !.todo = batch, !.locks = {<<"task", j>> : j \in batch}])
  /\ UNCHANGED <<lead, convs, tasks, inbox, nudges, undone, late, deskUsed, faults>>

(* The lead is read when its first task comes up in the batch.             *)
ReadLead(p) ==
  /\ At(p, "read")
  /\ Set(p, [Open("task", Len(convs)) EXCEPT
               !.todo = session[p].todo, !.locks = session[p].locks])
  /\ UNCHANGED <<lead, convs, tasks, inbox, nudges, undone, late, deskUsed, faults>>

Due(p) == CHOOSE j \in session[p].todo : \A i \in session[p].todo : j <= i
Verdict(p) == check_eligibility(session[p], tasks[Due(p)].baseline)

(* process_task is over with the task; mark is its new status.             *)
Marked(p, mark) ==
  [session[p] EXCEPT !.todo = @ \ {Due(p)}, !.marks = Override(@, [j \in {Due(p)} |-> mark])]

SkipTask(p) ==
  /\ At(p, "task")
  /\ session[p].todo # {}
  /\ Verdict(p) # "OK"
  /\ LET ses == Marked(p, IF Verdict(p) = "CAP_REACHED" THEN "SKIPPED" ELSE "CANCELLED")
     IN  Set(p, IF Verdict(p) = "LEAD_REPLIED"
                THEN [ses EXCEPT !.pc = "cancel", !.goal = "arm"] ELSE ses)
  /\ UNCHANGED <<lead, convs, tasks, inbox, nudges, undone, late, deskUsed, faults>>

(* Quiet hours or the agent's nudge limit: the task stays scheduled.       *)
DeferTask(p) ==
  /\ At(p, "task")
  /\ session[p].todo # {}
  /\ Verdict(p) = "OK"
  /\ Set(p, [session[p] EXCEPT !.todo = @ \ {Due(p)}])
  /\ UNCHANGED <<lead, convs, tasks, inbox, nudges, undone, late, deskUsed, faults>>

(* No template for it, no channel, or the channel rejects it.              *)
FailTask(p) ==
  /\ At(p, "task")
  /\ session[p].todo # {}
  /\ Verdict(p) = "OK"
  /\ \E mark \in {"FAILED", "SKIPPED"} : Set(p, Marked(p, mark))
  /\ UNCHANGED <<lead, convs, tasks, inbox, nudges, undone, late, deskUsed, faults>>

(* The nudge goes out; only then is it recorded, and the next one armed.   *)
(* UncountedNudge forgets the counter.                                     *)
UncountedNudge(p) ==
  /\ At(p, "task")
  /\ session[p].todo # {}
  /\ Verdict(p) = "OK"
  /\ nudges' = nudges + 1
  /\ late' = IF lead.consent = "OPTED_OUT" THEN late + 1 ELSE late
  /\ Set(p, FlushThen([Marked(p, "SENT") EXCEPT !.goal = "arm", !.nudged = @ + 1], "cancel"))
  /\ UNCHANGED <<lead, convs, tasks, inbox, undone, deskUsed, faults>>

SendNudge(p) ==
  /\ At(p, "task")
  /\ session[p].todo # {}
  /\ Verdict(p) = "OK"
  /\ nudges' = nudges + 1
  /\ late' = IF lead.consent = "OPTED_OUT" THEN late + 1 ELSE late
  /\ Set(p, FlushThen(
       [Assign(Marked(p, "SENT"),
               [follow_up_count |-> session[p].lead.follow_up_count + 1])
          EXCEPT !.goal = "arm", !.nudged = @ + 1], "cancel"))
  /\ UNCHANGED <<lead, convs, tasks, inbox, undone, deskUsed, faults>>

EndPass(p) ==
  /\ At(p, "task")
  /\ session[p].todo = {}
  /\ Set(p, FlushThen(session[p], "commit"))
  /\ UNCHANGED <<lead, convs, tasks, inbox, nudges, undone, late, deskUsed, faults>>

(* Anything that raises rolls the whole batch back.                        *)
PassFails(p) ==
  /\ PassesRaise
  /\ ~At(p, "idle")
  /\ RollBack(p, FALSE)

-----------------------------------------------------------------------------
TurnStep(t) ==
  \/ update_lead_profile(t) \/ score_lead(t) \/ book_appointment(t) \/ escalate_to_human(t)
  \/ EndModel(t) \/ schedule_next(t, "commit") \/ TurnFails(t)
  \/ \E i \in DOMAIN inbox : BeginTurn(t, i)

DeskStep(d) ==
  \/ take_over(d) \/ release(d) \/ schedule_next(d, "commit")
  \/ send_message(d) \/ MessageSent(d) \/ MessageRejected(d)

PassStep(p) ==
  \/ BeginPass(p) \/ ReadLead(p) \/ SkipTask(p) \/ DeferTask(p) \/ FailTask(p) \/ SendNudge(p)
  \/ EndPass(p) \/ schedule_next(p, "task") \/ PassFails(p)

Next ==
  \/ Arrive
  \/ \E i \in DOMAIN inbox : RateLimited(i) \/ NotConfigured(i)
  \/ \E s \in Sessions : Flush(s) \/ cancel_pending(s) \/ Commit(s) \/ DeadlockVictim(s)
  \/ \E t \in Turns : TurnStep(t)
  \/ \E d \in Desks : DeskStep(d)
  \/ \E p \in Passes : PassStep(p)

Spec == Init /\ [][Next]_vars

-----------------------------------------------------------------------------
TypeOK ==
  /\ lead \in Lead
  /\ convs \in Seq(ConversationStatus)
  /\ tasks \in Seq(Task)
  /\ \A s \in Sessions : session[s].pc \in PC /\ session[s].fresh \in Seq(Task)
  /\ inbox \in Seq([state : {"queued", "running", "done", "limited", "dead"},
                    stop : BOOLEAN, conv : 1..Len(convs), tries : 0..MAX_ATTEMPTS,
                    late : Nat])
  /\ {nudges, undone, late, deskUsed, faults} \subseteq Nat

(* Once an opt-out is committed nothing takes it back: not a turn or a     *)
(* release that read the lead before (dashboard.py: "Releasing must never  *)
(* resurrect a lead who asked us to stop").                                *)
OptOutIsFinal ==
  [][lead.consent = "OPTED_OUT" => lead'.consent = "OPTED_OUT"]_vars

(* A stop the worker finished is recorded, whoever owned the lead          *)
(* (engine.handle_inbound: the stop comes before the takeover check).      *)
StopRecorded ==
  \A i \in DOMAIN inbox : inbox[i].stop /\ inbox[i].state = "done" => lead.consent = "OPTED_OUT"

(* A stop the worker acknowledged for any reason is recorded (README.md:   *)
(* "opt-out is honoured instantly, in code"). The rate limit comes before  *)
(* the engine, so this fails.                                              *)
StopHonoured ==
  \A i \in DOMAIN inbox :
    inbox[i].stop /\ inbox[i].state \in {"done", "limited"} => lead.consent = "OPTED_OUT"

(* What a lead still receives after its opt-out is committed. Unasked,     *)
(* only from what judged it before: the batch of a pass that had read it   *)
(* (followup_worker.process_task re-checks, on what the batch first read,  *)
(* so that of two nudges in a batch both may go out, up to the cap), and a *)
(* dashboard message the agent was already sending                         *)
(* (dashboard.send_message). And replies: a turn that overlapped the stop, *)
(* or is of a message that came after it, answers like any other, because  *)
(* handle_inbound and deliver never look at consent (optout.py:84 has      *)
(* promised the lead no more messages); there is one for each attempt of   *)
(* a message at most.                                                      *)
LateBounded ==
  /\ late <= Cardinality(Passes) * max_attempts + deskUsed
  /\ \A i \in DOMAIN inbox : inbox[i].late <= MAX_ATTEMPTS

(* With one follow-up worker, more nudges than the cap go out only when a   *)
(* pass was rolled back after sending (followups.max_attempts).            *)
OneWorker == \A p, q \in Passes : p = q
CapOrUndone == OneWorker => nudges <= max_attempts + undone

(* The cap is hard, however many workers share the tasks and as long as no *)
(* pass is rolled back (followups.py:59 "Hard cap"; followups.py:185       *)
(* "several worker replicas can run concurrently without sending the same  *)
(* nudge twice"). A pass that re-arms a lead who replied does so without   *)
(* the lead's row, beside a turn that does the same: two workers then take *)
(* one task each, judge the lead by the same count, and both nudge.        *)
HardCap == undone = 0 => nudges <= max_attempts
=============================================================================
