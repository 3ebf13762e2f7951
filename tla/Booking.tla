------------------------------- MODULE Booking -------------------------------
(***************************************************************************)
(* Booking an appointment: the book_appointment tool over the free slots   *)
(* of services/scheduling.py, its copy on the agent's Google calendar      *)
(* (services/booking.py, services/google_calendar.py) and the reconnection *)
(* of that calendar (api/oauth.py).                                        *)
(*                                                                         *)
(* A turn is one transaction in some process. It reads what is committed   *)
(* and what the calendar says, inserts its appointment, and creates the    *)
(* event before it commits; nothing keeps two turns from the same slot,    *)
(* and a turn that is rolled back and run again leaves its event behind.   *)
(* Each process caches one access token, of the grant the agent had when   *)
(* it was fetched; a grant is of one Google account.                       *)
(***************************************************************************)
EXTENDS Integers, FiniteSets

CONSTANTS
  Turns,        \* the turns that may book
  Slots,        \* the slots they may want
  Processes,    \* the processes that run turns
  Api,          \* the one that also serves the OAuth callback
  ProcessOf,    \* where each turn runs
  AccountOf,    \* the Google account of each grant, the grants being 1..n
  MaxAttempts,  \* settings.http_max_retries + 1
  MaxRuns,      \* how often a turn is run at most
  MaxFaults,    \* bound on lost replies, outages and failed turns
  None          \* no slot, no event

Grants == DOMAIN AccountOf
NotConnected == 0

ASSUME BookingAssumption ==
  /\ IsFiniteSet(Grants) /\ Grants = 1..Cardinality(Grants) /\ Grants # {}
  /\ Api \in Processes
  /\ ProcessOf \in [Turns -> Processes]
  /\ MaxAttempts \in Nat \ {0} /\ MaxRuns \in Nat \ {0} /\ MaxFaults \in Nat
  /\ None \notin Slots

VARIABLES
  refresh,     \* the grant committed as Agent.google_refresh_token
  issued,      \* the grants Google issued: 1..issued
  revoked,     \* the grants withdrawn at Google
  cache,       \* the access token each process caches
  callback,    \* the grant of a callback that did not commit yet
  turn,        \* what each turn is doing
  booked,      \* committed appointments, by turn
  events,      \* events on the calendars
  raced,       \* <<t, u>>: u committed between t's look at the appointments and its end
  refilled,    \* processes whose token was fetched with a grant being replaced
  faults       \* how many faults happened so far

vars == <<refresh, issued, revoked, cache, callback, turn, booked, events, raced, refilled, faults>>

-----------------------------------------------------------------------------
Grant == Grants \cup {NotConnected}
Token == [grant : Grant, fresh : BOOLEAN]
NoToken == [grant |-> NotConnected, fresh |-> FALSE]

Event == [turn : Turns, run : 1..MaxRuns, attempt : 1..MaxAttempts, slot : Slots, grant : Grants]

(* What a human hears of an appointment with the turn: nothing, that the   *)
(* lead is theirs for another reason, or that the calendar lacks it.       *)
Attention == {"none", "handed", "warned"}
Appointment == [slot : Slots, event : Event \cup {None}, connected : BOOLEAN,
                crashed : BOOLEAN, attention : Attention]

(* No event and no appointment is one of either.                           *)
ASSUME NoneAssumption == None \notin Event \cup Appointment

PC == {"idle", "lookup", "freebusy", "choose", "fetch", "post", "reply", "done", "buried"}
Turn == [pc : PC, run : 1..MaxRuns, seen : Grant, token : Grant, busy : SUBSET Slots,
         slot : Slots \cup {None}, attempt : 1..MaxAttempts, event : Event \cup {None},
         attention : BOOLEAN, crashed : BOOLEAN]
NoTurn == [pc |-> "idle", run |-> 1, seen |-> NotConnected, token |-> NotConnected, busy |-> {},
           slot |-> None, attempt |-> 1, event |-> None, attention |-> FALSE,
           crashed |-> FALSE]

At(t, pc) == turn[t].pc = pc
Goto(t, pc) == turn' = [turn EXCEPT ![t].pc = pc]

Init ==
  /\ refresh \in {NotConnected, 1}
  /\ issued = refresh
  /\ revoked = {}
  /\ cache = [p \in Processes |-> NoToken]
  /\ callback = NotConnected
  /\ turn = [t \in Turns |-> NoTurn]
  /\ booked = [t \in Turns |-> None]
  /\ events = {}
  /\ raced = {}
  /\ refilled = {}
  /\ faults = 0

Fault == faults < MaxFaults /\ faults' = faults + 1
NoFault == UNCHANGED faults

-----------------------------------------------------------------------------
(* Mutant: an expired token is still used.                                 *)
Cached_forever(p) == cache[p].grant

(* Access tokens. A cached one is used until shortly before it expires,    *)
(* whichever grant it is of.                                               *)
Cached(p) == IF cache[p].fresh THEN cache[p].grant ELSE NotConnected

(* The token a call of turn t uses: the cached one, or one fetched with    *)
(* the refresh token the turn loaded.                                      *)
TokenOf(t) == IF Cached(ProcessOf[t]) # NotConnected THEN Cached(ProcessOf[t]) ELSE turn[t].seen

Fetches(t) == Cached(ProcessOf[t]) = NotConnected
Working(g) == g \notin revoked

(* Fetching fills the cache.                                               *)
FetchToken(t) ==
  IF Fetches(t)
  THEN /\ Working(turn[t].seen)
       /\ cache' = [cache EXCEPT ![ProcessOf[t]] = [grant |-> turn[t].seen, fresh |-> TRUE]]
       /\ refilled' = IF callback # NotConnected \/ turn[t].seen # refresh
                      THEN refilled \cup {ProcessOf[t]} ELSE refilled \ {ProcessOf[t]}
  ELSE UNCHANGED <<cache, refilled>>

(* Time passes: the token a process caches is about to expire.             *)
TokenExpires(p) ==
  /\ cache[p].fresh
  /\ cache' = [cache EXCEPT ![p].fresh = FALSE]
  /\ UNCHANGED <<refresh, issued, revoked, callback, turn, booked, events, raced, refilled, faults>>

-----------------------------------------------------------------------------
(* The tool. Begin loads the agent; without a refresh token the turn gets  *)
(* no calendar.                                                            *)
Begin(t) ==
  /\ At(t, "idle")
  /\ turn' = [turn EXCEPT ![t] = [NoTurn EXCEPT !.pc = "lookup", !.run = turn[t].run, !.seen = refresh]]
  /\ UNCHANGED <<refresh, issued, revoked, cache, callback, booked, events, raced, refilled, faults>>

(* Mutant: pending appointments block a slot, confirmed ones, which is what *)
(* the tool makes, do not.                                                 *)
Taken_pending == {}

(* The appointments that block a slot are the committed ones.              *)
Taken == {booked[u].slot : u \in {v \in Turns : booked[v] # None}}

ReadAppointments(t) ==
  /\ At(t, "lookup")
  /\ turn' = [turn EXCEPT ![t].busy = Taken,
                          ![t].pc = IF turn[t].seen = NotConnected THEN "choose" ELSE "freebusy"]
  /\ UNCHANGED <<refresh, issued, revoked, cache, callback, booked, events, raced, refilled, faults>>

(* The calendar of the token's account adds its events.                    *)
OnCalendar(g) == {e.slot : e \in {x \in events : AccountOf[x.grant] = AccountOf[g]}}

FreeBusy(t) ==
  /\ At(t, "freebusy")
  /\ FetchToken(t)
  /\ Working(TokenOf(t))
  /\ turn' = [turn EXCEPT ![t].busy = @ \cup OnCalendar(TokenOf(t)), ![t].pc = "choose"]
  /\ UNCHANGED <<refresh, issued, revoked, callback, booked, events, raced, faults>>

(* A calendar that rejects the token or does not answer does not stop the  *)
(* booking; a token fetched before that stays cached.                      *)
FreeBusyFails(t) ==
  /\ At(t, "freebusy")
  /\ \/ Fetches(t) /\ ~Working(turn[t].seen) /\ NoFault /\ UNCHANGED <<cache, refilled>>
     \/ Fetches(t) /\ Fault /\ UNCHANGED <<cache, refilled>>
     \/ FetchToken(t) /\ ~Working(TokenOf(t)) /\ NoFault
     \/ FetchToken(t) /\ Fault
  /\ Goto(t, "choose")
  /\ UNCHANGED <<refresh, issued, revoked, callback, booked, events, raced>>

(* An answer without its token, or that is no JSON, raises something that  *)
(* is no GoogleCalendarError: the tool crashes before it books.            *)
FreeBusyCrashes(t) ==
  /\ At(t, "freebusy")
  /\ Fault
  /\ \/ FetchToken(t)
     \/ UNCHANGED <<cache, refilled>>
  /\ turn' = [turn EXCEPT ![t].busy = {}, ![t].pc = "reply"]
  /\ UNCHANGED <<refresh, issued, revoked, callback, booked, events, raced>>

(* The model books a slot that is free, or ends its turn without one.      *)
Book(t, s) ==
  /\ At(t, "choose")
  /\ s \notin turn[t].busy
  /\ turn' = [turn EXCEPT ![t].slot = s, ![t].busy = {},
                          ![t].pc = IF turn[t].seen = NotConnected THEN "reply" ELSE "fetch"]
  /\ UNCHANGED <<refresh, issued, revoked, cache, callback, booked, events, raced, refilled, faults>>

BookNothing(t) ==
  /\ At(t, "choose")
  /\ turn' = [turn EXCEPT ![t].busy = {}, ![t].pc = "reply"]
  /\ UNCHANGED <<refresh, issued, revoked, cache, callback, booked, events, raced, refilled, faults>>

-----------------------------------------------------------------------------
(* sync_to_calendar. A failure keeps the booking and has a human told of   *)
(* it. One that is no GoogleCalendarError it does not catch: _run_tool     *)
(* swallows that, the tool has failed for the model, and the row it        *)
(* flushed before stays in the transaction.                                *)
Outcome(t, event, attention, crashed) ==
  turn' = [turn EXCEPT ![t].event = event, ![t].attention = attention, ![t].crashed = crashed,
                       ![t].token = NotConnected, ![t].attempt = 1, ![t].pc = "reply"]
Synced(t, e) == Outcome(t, e, FALSE, FALSE)
GiveUp(t) == Outcome(t, None, TRUE, FALSE)
Swallowed(t) == Outcome(t, None, FALSE, TRUE)

Fetch(t) ==
  /\ At(t, "fetch")
  /\ FetchToken(t)
  /\ turn' = [turn EXCEPT ![t].token = TokenOf(t), ![t].pc = "post"]
  /\ UNCHANGED <<refresh, issued, revoked, callback, booked, events, raced, faults>>

FetchFails(t) ==
  /\ At(t, "fetch") /\ Fetches(t)
  /\ \/ /\ ~Working(turn[t].seen)
        /\ NoFault
     \/ Fault
  /\ GiveUp(t)
  /\ UNCHANGED <<refresh, issued, revoked, cache, callback, booked, events, raced, refilled>>

(* The token endpoint's answer has no token, or is no JSON.                *)
FetchCrashes(t) ==
  /\ At(t, "fetch") /\ Fetches(t)
  /\ Fault
  /\ Swallowed(t)
  /\ UNCHANGED <<refresh, issued, revoked, cache, callback, booked, events, raced, refilled>>

NewEvent(t) == [turn |-> t, run |-> turn[t].run, attempt |-> turn[t].attempt,
                slot |-> turn[t].slot, grant |-> turn[t].token]

CreateEvent(t) ==
  /\ At(t, "post") /\ Working(turn[t].token)
  /\ events' = events \cup {NewEvent(t)}
  /\ Synced(t, NewEvent(t))
  /\ UNCHANGED <<refresh, issued, revoked, cache, callback, booked, raced, refilled, faults>>

(* Mutant: after the last attempt the failure is only logged.              *)
AfterNoAnswer_silent(t) ==
  IF turn[t].attempt < MaxAttempts
  THEN turn' = [turn EXCEPT ![t].attempt = @ + 1]
  ELSE Outcome(t, None, FALSE, FALSE)

(* The same POST is sent again when the answer does not come, although     *)
(* Google may have made the event.                                         *)
AfterNoAnswer(t) ==
  IF turn[t].attempt < MaxAttempts
  THEN turn' = [turn EXCEPT ![t].attempt = @ + 1]
  ELSE GiveUp(t)

NoAnswer(t) ==
  /\ At(t, "post")
  /\ Fault
  /\ \/ Working(turn[t].token) /\ events' = events \cup {NewEvent(t)}
     \/ UNCHANGED events
  /\ AfterNoAnswer(t)
  /\ UNCHANGED <<refresh, issued, revoked, cache, callback, booked, raced, refilled>>

(* Google answers that the token is no good, or that the request is not.   *)
EventRejected(t) ==
  /\ At(t, "post")
  /\ \/ /\ ~Working(turn[t].token)
        /\ NoFault
     \/ Fault
  /\ GiveUp(t)
  /\ UNCHANGED <<refresh, issued, revoked, cache, callback, booked, events, raced, refilled>>

(* The event is made, and the answer that says so has no id.               *)
PostCrashes(t) ==
  /\ At(t, "post") /\ Working(turn[t].token)
  /\ Fault
  /\ events' = events \cup {NewEvent(t)}
  /\ Swallowed(t)
  /\ UNCHANGED <<refresh, issued, revoked, cache, callback, booked, raced, refilled>>

-----------------------------------------------------------------------------
(* _escalate_for_failure: a turn that was escalated already, for its       *)
(* budget, by the model, or because the model failed, adds nothing.        *)
Heard(t, escalated) ==
  IF escalated THEN "handed" ELSE IF turn[t].attention THEN "warned" ELSE "none"

(* Mutant: the event is made and its id not kept.                          *)
Recorded_no_id(t, escalated) ==
  [slot |-> turn[t].slot, event |-> None, connected |-> turn[t].seen # NotConnected,
   crashed |-> turn[t].crashed, attention |-> Heard(t, escalated)]

(* The turn commits with its reply, and with the event it knows of.        *)
Recorded(t, escalated) ==
  [slot |-> turn[t].slot, event |-> turn[t].event, connected |-> turn[t].seen # NotConnected,
   crashed |-> turn[t].crashed, attention |-> Heard(t, escalated)]

LookedAt(u) == turn[u].pc \in {"freebusy", "choose", "fetch", "post", "reply"}

CommitTurn(t) ==
  /\ At(t, "reply")
  /\ \E escalated \in BOOLEAN :
       booked' = IF turn[t].slot # None
                 THEN [booked EXCEPT ![t] = Recorded(t, escalated)] ELSE booked
  /\ raced' = raced \cup {<<u, t>> : u \in {v \in Turns \ {t} : LookedAt(v)}}
  /\ turn' = [turn EXCEPT ![t] = [NoTurn EXCEPT !.pc = "done", !.run = turn[t].run]]
  /\ UNCHANGED <<refresh, issued, revoked, cache, callback, events, refilled, faults>>

(* Mutant: run once more than the queue allows.                            *)
FailTurn_one_more(t) ==
  /\ turn[t].pc \notin {"idle", "done", "buried"}
  /\ Fault
  /\ turn' = [turn EXCEPT ![t] = IF turn[t].run <= MaxRuns
                                 THEN [NoTurn EXCEPT !.run = turn[t].run + 1]
                                 ELSE [NoTurn EXCEPT !.pc = "buried", !.run = MaxRuns]]
  /\ UNCHANGED <<refresh, issued, revoked, cache, callback, booked, events, raced, refilled>>

(* Anything that fails it rolls the appointment back; the queue runs it    *)
(* again or gives it up.                                                   *)
FailTurn(t) ==
  /\ turn[t].pc \notin {"idle", "done", "buried"}
  /\ Fault
  /\ turn' = [turn EXCEPT ![t] = IF turn[t].run < MaxRuns
                                 THEN [NoTurn EXCEPT !.run = turn[t].run + 1]
                                 ELSE [NoTurn EXCEPT !.pc = "buried", !.run = MaxRuns]]
  /\ UNCHANGED <<refresh, issued, revoked, cache, callback, booked, events, raced, refilled>>

-----------------------------------------------------------------------------
(* Mutant: the cached token is kept.                                       *)
Connect_keeps_token ==
  /\ callback = NotConnected
  /\ issued + 1 \in Grants
  /\ issued' = issued + 1
  /\ callback' = issued + 1
  /\ refilled' = refilled \ {Api}
  /\ UNCHANGED <<refresh, revoked, cache, turn, booked, events, raced, faults>>

(* The callback of a consent: a new grant, and the token its process has   *)
(* cached is dropped before the grant is committed.                        *)
Connect ==
  /\ callback = NotConnected
  /\ issued + 1 \in Grants
  /\ issued' = issued + 1
  /\ callback' = issued + 1
  /\ cache' = [cache EXCEPT ![Api] = NoToken]
  /\ refilled' = refilled \ {Api}
  /\ UNCHANGED <<refresh, revoked, turn, booked, events, raced, faults>>

CommitGrant ==
  /\ callback # NotConnected
  /\ refresh' = callback
  /\ callback' = NotConnected
  /\ UNCHANGED <<issued, revoked, cache, turn, booked, events, raced, refilled, faults>>

ConnectFails ==
  /\ callback # NotConnected
  /\ Fault
  /\ callback' = NotConnected
  /\ UNCHANGED <<refresh, issued, revoked, cache, turn, booked, events, raced, refilled>>

(* The agent withdraws a grant at Google.                                  *)
Revoke(g) ==
  /\ g \in 1..issued \ revoked
  /\ revoked' = revoked \cup {g}
  /\ UNCHANGED <<refresh, issued, cache, callback, turn, booked, events, raced, refilled, faults>>

Next ==
  \/ \E t \in Turns :
       \/ Begin(t)
       \/ ReadAppointments(t)
       \/ FreeBusy(t) \/ FreeBusyFails(t) \/ FreeBusyCrashes(t)
       \/ \E s \in Slots : Book(t, s)
       \/ BookNothing(t)
       \/ Fetch(t) \/ FetchFails(t) \/ FetchCrashes(t)
       \/ CreateEvent(t) \/ NoAnswer(t) \/ EventRejected(t) \/ PostCrashes(t)
       \/ CommitTurn(t) \/ FailTurn(t)
  \/ \E p \in Processes : TokenExpires(p)
  \/ Connect \/ CommitGrant \/ ConnectFails
  \/ \E g \in Grants : Revoke(g)

(* Tokens expire; nothing else need ever happen.                           *)
Fairness == \A p \in Processes : WF_vars(TokenExpires(p))

Spec == Init /\ [][Next]_vars /\ Fairness

-----------------------------------------------------------------------------
TypeOK ==
  /\ refresh \in Grant /\ issued \in Grant /\ callback \in Grant
  /\ revoked \subseteq 1..issued
  /\ cache \in [Processes -> Token]
  /\ \A p \in Processes : cache[p].fresh => cache[p].grant \in 1..issued
  /\ turn \in [Turns -> Turn]
  /\ booked \in [Turns -> Appointment \cup {None}]
  /\ events \subseteq Event
  /\ raced \subseteq Turns \X Turns
  /\ refilled \subseteq Processes
  /\ faults \in 0..MaxFaults

(* Two leads hold the same slot only when their turns overlapped: one had  *)
(* looked at the appointments before the other's was committed             *)
(* (tools.py:424-451, scheduling.py:76-88).                                *)
DoubleBookingRaced ==
  \A t, u \in Turns :
    t # u /\ booked[t] # None /\ booked[u] # None /\ booked[t].slot = booked[u].slot =>
      <<t, u>> \in raced \/ <<u, t>> \in raced

(* An appointment the model was told of, and may confirm to the lead, is   *)
(* on a calendar or its lead is with a human, unless the agent had         *)
(* connected none. A human is told why only if the turn was not escalated  *)
(* before (engine.py:517). One the tool crashed over is no more than a row *)
(* that blocks its slot: nobody is told of it, and it has no event, or one *)
(* the row does not know (booking.py:134-146, engine.py:286-293); each of  *)
(* those costs a malformed answer.                                         *)
Unseen(t) ==
  /\ booked[t] # None /\ booked[t].connected
  /\ booked[t].event = None /\ booked[t].attention = "none"

SeenOrCrashed ==
  \A t \in Turns : booked[t] # None =>
    /\ booked[t].event # None => booked[t].event \in events
    /\ Unseen(t) => booked[t].crashed

NothingUnseen == SeenOrCrashed /\ Cardinality({t \in Turns : Unseen(t)}) <= faults

(* An event without its appointment costs a fault each: a lost reply, one  *)
(* without the event's id, or a rolled-back turn (booking.py:120-151).     *)
Known(e) == \/ booked[e.turn] # None /\ booked[e.turn].event = e
            \/ turn[e.turn].event = e
OrphansEarned == Cardinality({e \in events : ~Known(e)}) <= faults

(* The process that serves the callback uses no token of an earlier grant, *)
(* except one fetched while the grant was being replaced (oauth.py:109).   *)
TokenDropped ==
  Cached(Api) \in {NotConnected, refresh} \/ Api \in refilled

(* Every process comes to use the agent's current grant: an earlier one    *)
(* lasts no longer than its access token (google_calendar.py:66-70).       *)
ReconnectConverges ==
  <>[](\A p \in Processes : Cached(p) \in {NotConnected, refresh})

-----------------------------------------------------------------------------
(* Why these hold: what a turn may hold at each stage. Only a reply knows  *)
(* of an event, and one that promises a slot has it on the calendar or     *)
(* with a human.                                                           *)
ShapeOf(w, given, made) ==
  /\ w.seen # NotConnected => w.seen \in 1..given
  /\ w.pc \in {"freebusy", "fetch", "post"} => w.seen # NotConnected
  /\ w.pc = "post" => w.token \in 1..given
  /\ w.pc \in {"fetch", "post"} => w.slot # None
  /\ w.pc \notin {"fetch", "post", "reply"} => w.slot = None
  /\ w.pc # "reply" \/ w.slot = None => w.event = None
  /\ w.pc # "reply" => ~w.crashed
  /\ w.event # None => w.event \in made
  /\ w.pc = "reply" /\ w.slot # None /\ w.seen # NotConnected =>
       w.event # None \/ w.attention \/ w.crashed

Shape ==
  /\ refresh \in 0..issued /\ callback \in 0..issued
  /\ IsFiniteSet(events)
  /\ \A t \in Turns : ShapeOf(turn[t], issued, events)
  /\ \A t \in Turns : booked[t] # None => At(t, "done")

Base == TypeOK /\ Shape

(* A turn that has looked at the appointments knows each of them as busy,  *)
(* or it was committed since.                                              *)
BusyKnown ==
  \A t, u \in Turns : t # u /\ booked[u] # None =>
    /\ turn[t].pc \in {"freebusy", "choose"} =>
         booked[u].slot \in turn[t].busy \/ <<t, u>> \in raced
    /\ turn[t].slot = booked[u].slot => <<t, u>> \in raced

(* While a grant is being replaced the callback's process has no token, or *)
(* one it fetched meanwhile.                                               *)
DroppedMeanwhile ==
  callback # NotConnected => Cached(Api) = NotConnected \/ Api \in refilled

(* A tool that crashed over a booking cost a fault, committed or not.      *)
Crashed == {t \in Turns : turn[t].crashed \/ Unseen(t)}
CrashesEarned == IsFiniteSet(Crashed) /\ Cardinality(Crashed) <= faults

IInv == /\ Base /\ BusyKnown /\ DoubleBookingRaced /\ SeenOrCrashed /\ CrashesEarned
        /\ OrphansEarned /\ DroppedMeanwhile /\ TokenDropped
=============================================================================
