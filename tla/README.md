# Realty lead agent: TLA+ models and proofs

The program answers property leads on WhatsApp: Meta delivers messages to a
webhook, a worker runs a language-model turn for each, the turn's tools change
the lead's rows and book appointments, a second worker nudges leads who went
quiet, and the agent (a human) watches and steps in from a dashboard. Postgres
keeps everything; Redis carries the inbound queue and the rate limits.

What follows is the inventory of the system, the map from modules to code, what
each run and each proof shows, and the plan for what is not there yet. All paths
are below `backend/app/` unless they start with `README` or `docs`.

## 1. The system

| Part | Code | State it keeps | Operations |
|---|---|---|---|
| Webhook | `api/webhooks.py`, `services/ingestion.py` (claim, receipts) | rows of leads, conversations, messages; one transaction per request | `receive`: apply receipts, claim each message, commit, dispatch |
| Inbound queue | `services/inbound_queue.py` | a Redis stream, a consumer group's pending list, a dead-letter stream | `ensure_group`, `enqueue`, `consume`, `reclaim_stale`, `ack`, `dead_letter` |
| Inbound worker | `workers/inbound_worker.py`, `services/turn.py` | the batch in hand, the pass counter | `run_forever`, `run_once`, `handle`, `run_claim` |
| Conversation engine | `agent/engine.py`, `agent/tools.py`, `services/ingestion.py` (`deliver`) | the ORM session of one turn | `handle_inbound`, opt-out, takeover, budget and failure escalation, six tools, delivery |
| Follow-ups | `services/followups.py`, `workers/followup_worker.py` | `follow_up_tasks`, the lead's counter | `check_eligibility`, `cancel_pending`, `schedule_next`, `due_tasks`, `process_task`, `run_once` |
| Dashboard | `api/dashboard.py` | none of its own | `take_over`, `release`, `send_message`, queries |
| Booking and calendar | `services/scheduling.py`, `booking.py`, `google_calendar.py` | appointments; events at Google; a token cache per process | `find_available_slots`, `sync_to_calendar`, free/busy, event calls |
| Rate limiter | `services/ratelimit.py` | a counter with an expiry per subject in Redis | `check`, `reset` |
| Accounts | `api/accounts.py`, `auth.py`, `services/sessions.py`, `passwords.py` | agents, their sessions | signup, login, logout, password change, resolve |
| OAuth | `api/oauth.py`, `services/oauth_state.py` | a signed state token, the agent's calendar credentials | start, callback, disconnect |
| Onboarding | `api/onboarding.py`, `services/listing_import.py` | listings | import, profile changes |
| Pure rules | `agent/scoring.py`, `agent/optout.py`, `services/quiet_hours.py` | none | score, stop detection, quiet hours |
| The rest | `channels/`, `core/`, `agent/llm.py`, `api/health.py`, `scripts/`, the frontend | configuration and wiring | HTTP calls, parsing, start-up |

How they interact. The webhook hands a claim to the worker through the stream
(or runs it in its own process when Redis is missing). The worker's turn is one
database transaction that includes the calls to the model, the calendar and the
channel, and ends with a commit; only after that is the entry acknowledged.
Turns, dashboard requests and follow-up passes share the rows of a lead and
nothing else: they meet as Postgres transactions at READ COMMITTED, under the
ORM's rule that a row is read once and written back at a flush.

What is hard about it:

* at-least-once delivery twice over (Meta's redeliveries, the queue's reclaims)
  around a turn that sends a reply before it commits;
* acknowledging, appending, sending and committing are separate calls, and a
  process can die or raise between any two of them;
* the stream is trimmed, and time decides who takes over whose entries;
* several transactions work on copies of one lead that may be out of date, and
  lock its rows in different orders;
* hard promises (a stop is final, a nudge cap, no reply while a human owns the
  thread) are kept by code that runs concurrently with all of this.

What makes each part correct:

* webhook: an acknowledged delivery is recorded, a message is handed over once,
  and only after its row is visible; a receipt is lost only by being early;
* queue and worker: an accepted message stays until it is settled or
  dead-lettered, a dead letter has used up its attempts, one worker has it at a
  time, it ends eventually;
* engine, dashboard and follow-ups: a stop is recorded and final, nudges respect
  it and the cap, one nudge is scheduled at a time, and what a lead receives after
  a stop is bounded (replies to messages that overlap it or follow it go out);
* booking: two leads share a slot only if their turns overlapped, an appointment
  is on the calendar or its lead is with a human, but for those a malformed answer
  of the calendar crashed the tool over, an event too many costs a fault;
* limiter: no more than the limit per window, nobody blocked for ever;
* accounts: a revoked session never resolves again, and an old password's
  session stays only if its login overlapped the change;
* onboarding: the catalogue never holds part of a file, and beside a replacing
  import's file only what was committed after its DELETE began; every row of an
  upload is a listing or named, unless the upload ends with a 500;
* rules: an offered time can still be booked, a nudge leaves quiet hours at once,
  a lead who comes closer to buying never ranks lower.

## 2. Modules

### InboundQueue (with DurableInbox, MCInboundQueue)

`services/inbound_queue.py`, `workers/inbound_worker.py` and the outcomes of
`services/turn.py`. State: `stream` (every entry ever appended; its index is its
id), `delivered` (the group's last id), `trimmed`, `dead` (the messages ever
dead-lettered), `letters` (the dead-letter stream, which is trimmed as well),
`settled`, `replies`, and `worker`, one record per process with its program
counter, the entries in hand and its pass counter. One action per Redis call or commit: `Enqueue`,
`Sweep`/`SkipSweep`, `DiscardMalformed`, `GiveUp`, `Retry`, `Consume`,
`RateLimited`, `NotConfigured`, `SendReply`, `Commit`, `FailTurn`,
`TurnBreaks` (the database fails the turn, before its agent is read or after
its reply went out), `Bury`, `Release`; and the environment: `PassFailed` (an
exception ends the pass, at its first read or with the rest of a batch in hand),
`Crash`, `Restart`, `Tick`. Two configuration mistakes differ: a turn without a
model key or an agent's number ends NOT_CONFIGURED (`Misconfigured`), a worker
without `WHATSAPP_ACCESS_TOKEN` (`Tokenless`) fails every turn that gets so far,
because the constructor of the channel raises (`channels/whatsapp.py:82`).
Redis is modelled from how the code uses it: XADD may trim any number of the
oldest entries beyond the approximate ceiling, XREADGROUP starts an entry's idle
time, XAUTOCLAIM returns pending entries that were idle long enough and restarts
it, XACK ends it. A turn is reduced to its outcome and takes up to `TurnMax` ticks.
`Post` is the channel's retry loop: a POST whose answer is lost is sent again, so
WhatsApp may take copies of a reply, even of one whose turn then fails.

`DurableInbox` is what the webhook may rely on: an accepted message waits until
it is settled, kept as a dead letter, or was never parsable. `InboundQueue`
implements it with `accepted` and `waiting` computed from the stream.

### Ingestion (with WebhookPayload, MCIngestion)

`api/webhooks.py` and the claim and receipt half of `services/ingestion.py`.
What a delivery contains is the constant `Contents`; `WebhookPayload` is
`parse_webhook` (`channels/whatsapp_payload.py`), which turns the changes of a
payload into receipts and messages, leaving out what is malformed or unknown, and
`MCIngestion` computes `Contents` with it. A payload with a change it raises on
(`Parses` is false) is never taken, however often Meta repeats it. `Refuse` is
that, a bad signature or a bad body.
State: the committed tables (`recorded`, `leads`, `status`), one record per HTTP
request (position in its receipts and messages, what its session remembers and
changed, what its open transaction inserted, the claims it will hand over), the
stream and in-process tasks, and the deliveries Meta saw acknowledged. Actions
follow the queries: `ReadReceipt`, `Check`, `FindLead`, `AddLead`,
`RecordMessage`, `LoseRace`, `Commit`, `UseQueue`, `RunHere` and so on; Meta
delivers a batch again whenever it has no 200. A unique key that another open
transaction inserted makes an insert wait; a circle of waits is broken by
aborting one. A lost race rolls back the whole transaction, as the code does,
while the list of claims stays.

### LeadStore and LeadLifecycle (with OptOut, Attributes, MCLeadLifecycle)

`LeadStore` holds one lead's rows, the ORM session (a copy of the lead and of one
conversation, the columns it changed, the tasks it marked or added, the row locks
it holds, whether its turn answers) and the shared rules of `services/followups.py`: `check_eligibility`,
`cancel_pending`, `schedule_next`. A flush takes the locks of the changed rows in
the ORM's order (lead, conversation, tasks) and waits at the first one that is
held; a commit writes only the changed columns (`Override` of `Attributes`: rows and
tables are functions, of which an assignment replaces some values).

`LeadLifecycle` adds the actors. A turn: `BeginTurn` runs the hard rules of
`handle_inbound` in their order, then any sequence of the tools that change the
lead, `EndModel` (with the failure and calendar escalations), re-arming the
cadence, and `Commit` or `TurnFails`. Either may have sent the reply (`Sends`), and
one that goes out after a committed opt-out is counted with its message
(`Answered`): no part of a turn asks for consent. `RateLimited` and
`NotConfigured` are messages acknowledged before the engine sees them. The dashboard: `take_over`, `release`,
and `send_message` with `MessageSent` and `MessageRejected`, whose 502 rolls the
transaction back. The follow-up worker: `BeginPass` locks due tasks (FOR UPDATE SKIP LOCKED),
`ReadLead` reads the lead once for the whole batch, each task is skipped,
deferred, failed or sent, and the batch commits at its end or is rolled back.
A message is the number it has in the lead's order; `last_inbound` and a task's
`baseline` are such numbers, because the code only compares the times.

### RateLimit (with MCRateLimit)

One counter of `services/ratelimit.py`. State: the key in Redis (`count`, `ttl`),
the next call of each check in flight (`caller`), whether a check was refused
while the key lived, and what each of the last `window` ticks saw. `check` is
`Incr`, then `SetExpiry`, or `ReadTTL` and perhaps `Repair`; `Reset` is the login
that clears it. `CallFails` is a Redis error, with the command executed or not,
`Dies` a process that ends between two calls, `Tick` time and expiry.

### Booking (with MCBooking)

`book_appointment` (`agent/tools.py`) over `services/booking.py` and
`google_calendar.py`, with the callback of `api/oauth.py`. State: the committed
grant (`refresh`), the grants issued and withdrawn at Google, the access token
each process caches, the turns, the committed appointments and the events on the
calendars. A turn looks the appointments up, asks free/busy, chooses, fetches a
token, posts the event (again when no answer comes) and commits or fails and is
run again. The agent connects another account or withdraws a grant meanwhile.
A call fails as the client expects (`GoogleCalendarError`: the booking goes on, or
a human is to be told) or crashes on a malformed answer (`FreeBusyCrashes`,
`FetchCrashes`, `PostCrashes`), which `_run_tool` swallows while the appointment
stays in the transaction. `Heard` is what a human learns of it: nothing more, when
the turn had been escalated already.

### Accounts (with MCAccounts)

One agent's account under concurrent requests: `api/accounts.py`, `auth.py`,
`services/sessions.py`, `passwords.py`, `scripts/issue_token.py` and the writing
half of `api/onboarding.py`. A request is a transaction: `Authenticate`,
`LoadAgent`, its handler, a `WriteRow` for each row its flush locks, `Commit`.
The UPDATE that signs every session out and the DELETE of a replacing import keep
the rows of their start, as READ COMMITTED does: `scan` holds those still to come,
`RevokeRow` and `DeleteRow` lock one each, in any order, and look again at a row
they waited for. A session or a file committed meanwhile is never seen: two
replacing imports that overlap leave both catalogues.
Sessions are named by the request that opened them, passwords and files by the
request that brought them, and equality stands for hashing.

### Scheduling, Scoring, ListingImport, composed in Rules (MCRules)

`Scheduling`: working windows, the grid of slots, busy times and quiet hours in
quarters of an hour; the system is the clock, `check_availability` and the
bookings of others between an offer and its acceptance. `Scoring`: the score as
an operator over a profile that `update_lead_profile`, new messages and bookings
change. `ListingImport`: the reader of a file, one record a step, over the shapes of
cells its parsers tell apart; a record that `csv.reader` cannot split ends the
upload (`HeaderRaises`, `RowRaises`), as a garbled price does. They share no state; `Rules` runs one of them per
behaviour.

### OptOut

`agent/optout.py` over classes of words: `is_opt_out` decides which texts of
`LeadLifecycle` are stops. A phrase counts wherever its letters occur, inside a
longer word too, as in the code ("remove metal doors" contains "remove me"),
although the comment over the list says whole words.

### The proofs

`InboundQueueProofs`, `IngestionProofs`, `LeadLifecycleProofs`, `RateLimitProofs`,
`BookingProofs`, `AccountsProofs` and `RulesProofs` hold the theorems about the
module each is named after; `OrderLemmas` has what several of them need about
finite sets of numbers, sequences and assignments. An inductive invariant stands
at the end of the module it is about where a run of TLC can evaluate it
(`Ingestion`, `LeadLifecycle`, `Booking`, `Accounts`, `ListingImport`,
`Scheduling`), or at the head of the proofs. Section 4 has the arguments.

## 3. Runs

Bounds are named in each cfg. Names in parentheses are the cfg's properties.

| Run | Instance | What it shows |
|---|---|---|
| `queue_faults` | 2 messages, one unparsable; 2 workers, 2 attempts, ceiling 2, 2 faults | types; `NothingLost`: a message that is not settled has its dead letter, to be found unless that stream is at its ceiling, or an unacknowledged entry, readable unless the stream outgrew its ceiling; `DeadLetterEarned`; `ReleaseJustified`; `InboxSafety`, the safety half of the refinement |
| `queue_healthy` | 2 messages, one of an agent without WhatsApp; 2 workers, one without an access token; ages up to 3, batch 2, one fault; fair | `AttemptBudget` and `AtMostOneReply`: a fault (a lost answer is one) costs at most one more round or copy; `TerminalNotRetried`: what ends NOT_CONFIGURED is not queued again; `OneWorkerPerMessage` when the reclaim age exceeds a batch; `InboxSpec`: every message ends |
| `queue_race` (violated) | reclaim age above one turn, below a batch of two | `OneWorkerPerMessage`: the second entry of a batch goes stale while the first turn runs, and another healthy worker takes it |
| `ingestion` | 3 requests for 2 deliveries with crossed senders, 2 receipts, an unroutable message, 1 fault | `HandedOverOnce`, `AckedIsRecorded`, `DispatchedVisible`, `StrandedOnlyByFault`, `NeverUndelivered`, `ReceiptLostOnlyEarly` (a receipt without effect was read before the turn it is about had committed) |
| `ingestion_crash` (violated) | the same with one crash | `NoneStranded`: a crash between commit and append strands the message, the redelivery counts as a duplicate |
| `lead_lifecycle` | 2 turns, a dashboard request, a follow-up pass; 2 messages of four texts, two of them stops; cap 1; a deadlock or a failing pass | `OptOutIsFinal`, `StopRecorded`, `LateBounded` (after a stop only a pass whose batch read the lead before it, up to the cap, or a dashboard message under way still writes to the lead unasked, and a message is answered once per attempt), `CapOrUndone` (the cap is exceeded only by a pass rolled back after sending; with one follow-up worker) |
| `two_passes` (violated) | 3 messages, one turn, a release, 2 passes at a time, cap 1, no fault | `HardCap`: two nudges come to be scheduled side by side (the pass that re-arms a lead who replied does not hold the lead's row), two follow-up workers lock one each, judge the lead by the same count and both send |
| `stop_rate_limited` (violated) | 2 messages, the second a stop | `StopHonoured`: the limit is asked before the hard rules, and the stop is acknowledged unread |
| `rate_limit` | 3 checks in flight, limit 2, window 2 ticks, 3 events a tick, 2 faults, a reset a tick; fair | `RefusalEarned` (without faults the counter never stands above the events of the last window), `BurstBound` (two budgets at most in any window's length, plus one event per fault and a budget per reset), `Readmitted` (a refused subject is let in again) |
| `accounts` | 3 requests of ten kinds, files of 2 lines, 2 API tokens | `OldPasswordRaced` (an old password's session came from a login that overlapped the change), `OneSignup`, `CatalogueHolds` (files in whole; beside a replacing import's file only what was committed after its DELETE began), `RevokedStays` |
| `booking` | 2 turns in two processes, one slot, 2 POST attempts, 2 runs of a turn, 2 grants of different accounts, 2 faults; fair expiry of tokens | `DoubleBookingRaced`, `NothingUnseen` (an appointment is on a calendar, or its lead is with a human, or the tool crashed over it, which costs a fault each), `OrphansEarned`, `TokenDropped`, and `ReconnectConverges`; 2.0 million states |
| `rules` | zones 5:30 and 5:45, a week with two open days, a private hour, 4 quiet ranges, 4 hours of clock; files of up to 3 rows of 9 shapes, and of 3 rows with any records that cannot be split; every profile over 3 prices and 4 timelines | `TimesHold`, `NothingDropped`, `ScoreNeverFalls` |

The violated runs state what a comment, a docstring or the README says; the
quotation and the explanation of each are in `PROJECT.json` under `findings`.

Why the bounds are enough for what is asked. Every race here needs two actors
of the same kind, or one of each: two workers, two overlapping requests plus a
redelivery, two turns with a dashboard request and a pass. Two messages give
out-of-order turns and a message after a stop. Two attempts make first, last and
exhausted different. A stream ceiling of 2 lets a retry trim an entry that is
still pending; in `queue_healthy` the ceiling is out of reach, because a trimmed
entry is lost by design and ends nothing. In `lead_lifecycle` the turn has one
attempt (a retried turn is, for the lead's rows, a turn that runs later, which
two workers already give) and calls one tool; a cap of 1 keeps the second nudge
of a cadence out of TLC's instance, and the proof of `CapOrUndone` takes any cap.

Deadlock checking is off where the system may come to rest: all deliveries
acknowledged (`ingestion`), all messages handled (`lead_lifecycle` and its
siblings), requests and turns used up (`accounts`, `booking`), nothing left to
read, book or learn (`rules`). The limiter never rests.

In `rate_limit` three checks let one die between two calls of another; a window
of two ticks has an inside and a boundary. In `accounts` the first two requests
are the writers that compete (sign-up, login, password change, replacing import)
and the third what they might disturb. In `booking` one slot is enough for a
conflict, and two faults for a lost answer followed by a failed turn. In `rules`
one zone is off the half hours of UTC, which is where slots are aligned.

Fairness. Three runs have liveness. `queue_healthy` assumes weak
fairness of `Tick` (time passes) and of each worker's own step, `WorkerStep`: a
worker is an endless loop around awaited calls, each of which returns or raises
within its timeout. Nobody is assumed to restart a dead worker (no file of the
repository sets a restart policy): the instance has two workers and at most one
fault, so one of them stays up, and it is that one which must finish what the
other left. Nothing is assumed of faults, whose number `MaxFaults` bounds, nor of
the order in which workers run.

`rate_limit` assumes weak fairness of `Tick` and of the next call of a check that
started (an awaited call answers or raises); nobody is assumed to check again.
`booking` assumes that an access token expires, and nothing of turns or agents.

Each passing property is accompanied by a mutant of the code's model that breaks
it (a dropped guard, a swapped order, an off-by-one, a forgotten counter); they
are the definitions a comment describes as a slip, listed in `PROJECT.json`.

## 4. Proofs

Every theorem is about the module's `Spec`, hence holds for every value of the
constants that the module's assumption admits: any number of workers, requests,
turns, messages, faults and attempts (a theorem with a further hypothesis names
it). An invariant a run checks is seldom inductive; below, each module's inductive
invariant `IInv` and what it adds. The steps of `Next` are split by action, and what several of them do alike is a lemma.

### InboundQueueProofs (from `QueueAssumption`)

`TypeCorrect`, `NothingLostHolds`, `ReleasesJustified`, `DeadLettersEarned` and
`ImplementsInbox` (`Spec => InboxSafety`, the refinement without its liveness).

    IInv == TypeOK /\ HoldsEntries /\ TrimCeiling /\ Covered /\ ReleaseJustified

Nothing in `NothingLost` says why the entry a worker is about to acknowledge may
go. `Covered` is `NothingLost` without trimming (every entry's message is closed
or has an unacknowledged entry); `ReleaseJustified` says that a worker at
"release" has closed its message or appended a younger, unacknowledged entry for
it; `HoldsEntries` ties a worker's position to the entries in hand; `TrimCeiling`
bounds how far trimming can have reached. `ReleaseJustified` survives the other
workers because an acknowledgement of that younger entry, by its own
`ReleaseJustified`, leaves a still younger one or a closed message: the proof
takes the youngest unacknowledged entry of the message, which is why
`OrderLemmas` has the least and greatest element of a finite set of numbers.

Most actions fall under `KeepingStep` (entries untouched), `AppendingStep` or
`AcknowledgingStep`; `GotoStep` and `LoopStep` say what moving a program counter
does; the refinement reuses the three shapes as `KeepingMaps`, `AppendingMaps`,
`AcknowledgingMaps`.

`DeadLettersEarned` counts entries, which `IInv` does not. `Earned`, inductive
given `IInv`, says that an entry numbered n has companions of its message numbered
1 to n (`AttemptsCounted`), that only a `Misconfigured` message or a last attempt
leads to the dead-letter call (`BuryJustified`), and that a dead message has an
entry of the last number (`DeadJustified`). The entries of a dead message map onto
`1..MAX_ATTEMPTS`, which bounds their number from below.

`OneWorkerEach`, `OneReplyEach`, `BudgetKept` and `TerminalOnce` (`OneWorkerPerMessage`,
`AtMostOneReply`, `AttemptBudget`, `TerminalNotRetried`) have a hypothesis on the
timings:

    ReclaimOutlastsBatch == DEFAULT_BATCH_SIZE * EntryMax < MIN_IDLE

where `EntryMax` is the longest a worker takes over one entry: its turn and the two
calls that end the entry's life. The instance of `queue_healthy` satisfies it and
the one of `queue_race`, where TLC finds `OneWorkerPerMessage` violated, does not.
The code asks for less: `core/config.py:89` wants the reclaim age above one slow
turn, and with the defaults (120 s, batches of 10) entries that take 12 s each are
already outside the hypothesis. So the theorems say what a deployment has to
configure; outside it nothing is claimed of these four.

* `Held` is the invariant they share: no two workers hold one entry (`Apart`), and
  what a worker holds is pending and no older than the time it may have spent on
  the batch so far (`InTime`: `EntryMax` for every entry it is done with, plus what
  it used on the one it is at). A tick ages the entry and the worker alike; moving
  to the next entry trades the time used for a whole `EntryMax`; so an entry in
  hand is never stale (`NotStaleYet`) and no sweep gives it to a second worker.
  `Fresh` adds that an unread entry is not acknowledged.
* `Open(at, c)` are the unacknowledged entries of a message but for those whose
  worker is at a position of `at`, about to be done with them. Only a fault opens an
  entry again, and then one (`OpenNext`); `Retry` opens one for the one it closes.
* On this rest `OneOpen` (at most `1 + faults` open entries of a message, hence one
  worker), `RepliesLeft` (the replies sent, and the open entries that may still
  lead to one, are at most `1 + faults`) and `BudgetLeft` (the entries of a message
  and the attempts its open entries leave, at most `MAX_ATTEMPTS * (1 + faults)`).
* `FirstAttempts` says that, without a fault, a readable entry of a message that
  cannot be answered is in the hands of the worker that read it until it is
  acknowledged, so no sweep meets one and none is appended again.

### IngestionProofs (from `IngestionAssumption`)

`TypeCorrect` and `DeliveredStays` (`Spec => NeverUndelivered`) follow from
`Base == TypeOK /\ Shape`, where `Shape` says which fields a request may use at
which position and that a receipt it is about to write is beyond SENT.

`DispatchIsVisible`, `AckIsSafe`, `HandsOverOnce`, `NoStrandedWithoutFault` and
`ReceiptsCount` assume `WholeBatches`: two different batches share no routable
message, which is to say that Meta repeats a delivery as it was. TLC's
deliveries in `MCIngestion` are of this kind too. The assumption is needed: `LoseRace`
rolls the whole transaction back while the list of claims stays, so a delivery
that overlaps with another in one message only would hand over claims whose rows
are gone, and would be acknowledged all the same. TLC showed this when the
invariant was first tried on batches grouped anew; the theorems state where the
code is right and the hypothesis says where it would not be.

    IInv == Base /\ Claims /\ ReceiptsKept

`Claims` has, besides the properties themselves: the messages of a batch are
recorded together (`AllOrNone`), an open transaction's rows are of unrecorded
messages and of nobody else's (`RowsFresh`, from the unique key), an open request
has passed over nothing that nobody records (`NothingSkipped`), what is committed
is recorded (`Complete`), a claim is its request's own (`Owned`) and goes to the
queue or to a task (`Either`: both or neither only after a fault). `ReceiptsKept` says that a
receipt is still to be read, changed in the session, beyond SENT in the table, or
was read too early.

### LeadLifecycleProofs (from `LeadStoreAssumption`)

`TypeCorrect`, `StopsRecorded`, `OptOutStays` (`Spec => OptOutIsFinal`), `CapKept`
(`Spec => []CapOrUndone`) and `LateIsBounded` (`Spec => []LateBounded`). Every session works on a copy of the lead that may
be out of date, so `IInv` is mostly about copies (`Fits`): which changes go with
which position (`Placed`), that what a session means to change exists
(`RowsExist`), that consent is only ever written as an opt-out and only a pass
writes the follow-up count (`ChangesOK`), and that a turn running a stop holds an
opted-out copy and either still has to write it or runs for a lead who is opted
out already (`HonoursStop`). Then a commit, which writes the changed columns
only, can bring an opt-out and never take one back. `OneTurnEach`
keeps two turns from the same message. `Counted` is for the cap: with one pass at
a time, the nudges are the committed count, those rolled back and those the pass
in flight has sent, and its copy of the count is the committed one plus what it
has sent, which is at most `max_attempts`. `OneWorker` is a hypothesis of the
property itself; without it the cap is exceeded (run `two_passes`).

`LateInv` counts what an opt-out cannot stop any more. `Left` is the set of pairs
of a pass whose copy of the lead has no opt-out and a nudge which that copy's count
still leaves it; `Sending` is the set of dashboard requests between their check and
their send. Once an opt-out is committed, `late` plus the sizes of both is at most
`Cardinality(Passes) * max_attempts + deskUsed`: a nudge takes a pair out of `Left`,
a sent message takes its request out of `Sending`, and nothing is added to either,
since whoever reads the lead from then on reads the opt-out. It needs `Desks` and
`Passes` finite. The bound has the cap in it because of a counterexample: with a
cap of 2, two passes running at once can leave two scheduled nudges, and a later
pass that read the lead before the stop sends both. For the replies, `RepliesInv`
says that a message has had no more of them than attempts that were rolled back
(`tries`), and one more once it is done.

### BookingProofs (from `BookingAssumption`, `NoneAssumption`)

`TypeCorrect`, `DoubleBookings`, `BookingsSeen`, `OrphansCostFaults` and
`CallbackDropsToken`, the four invariants of the run.

    IInv == Base /\ BusyKnown /\ DoubleBookingRaced /\ SeenOrCrashed /\ CrashesEarned
              /\ OrphansEarned /\ DroppedMeanwhile /\ TokenDropped

`BusyKnown` says what a turn past its lookup knows of the appointments committed
before, `DroppedMeanwhile` what the callback's process may hold while a turn
fetches a token. `OrphansEarned` compares a cardinality with the fault counter: a
step adds at most one event nobody knows, and then a fault is counted
(`OrphansStep`). `NothingUnseen` is `SeenOrCrashed` and a bound on how many
appointments nobody hears of. Its inductive form `CrashesEarned` counts the turns
whose tool crashed over a booking together with those appointments: a crash adds
one and costs a fault, a commit turns one into the other, a rollback or an
escalation takes one away (`CrashesStep`).

### AccountsProofs (from `AccountsAssumption`)

`TypeCorrect`, `OldPasswordsRaced`, `SignsUpOnce`, `CatalogueWhole`, and the
action property `RevokedForGood` (`Spec => RevokedStays`).

    IInv == TypeOK /\ (\A r \in Requests : Fits(r, request[r]))
              /\ OneAccount /\ FilesDone /\ OldPasswordRaced

`Fits` says, of a request at each stage, which rows it has locked and written,
which sessions it knows (`SessionsOf`), what it is about to change (`ChangeOf`)
and which listings it leaves (`CatalogueOf`): a statement that waits has still to
come to what it saw when it started, so whatever else is there when it ends was
committed since, which is what `raced` and `passed` record. `FlushIInv` and `WriteRowIInv` are
shared by all kinds of request; `Commit` is proved per kind (`CommitSessions`,
`CommitWhole`, `CommitFits`). TLC evaluated `IInv` on the instance of `accounts`
before it was proved.

### RateLimitProofs (from `RateLimitAssumption`)

* `TypeCorrect`: includes that a key without events has no expiry; inductive as
  it stands, with `Windows` and `NextCalls` for the arithmetic of expiry and the
  calls of a check;
* `RefusedKeyExpires`: `Spec => []RefusedEnds`, the safety half of `Readmitted`: a
  key a check was refused against has an expiry. `TypeOK /\ RefusedEnds` is
  inductive: a refusal reads a positive TTL or sets one, nothing takes an expiry
  from a key, and expiry or a reset ends both;
* `RefusalsEarned`: `Spec => []RefusalEarned`. `KeyYoung` compares the counter with
  the events noted since the key was created: a key with an expiry is no older
  than the expiry tells (`Aged`), one without has a check that still owes it the
  `EXPIRE` (`Owed`), and that check sent its calls within the current tick
  (`Young`). Without it `RefusalEarned` is not inductive: a tick drops the oldest
  events of the sum, and nothing would say that the key did not count them;
* `BurstBounded`: `Spec => []BurstBound`. `Budgets(k, n)` says that what the last
  n + 1 ticks admitted is covered by the budget spent on the present key, k budgets
  of keys before it, and what faults and resets made up for. `Burst` has it with
  one key before for every n (`TwoLives`), with none for the ticks within the key's
  own life (`OneLife`), and counts for each check that owes an `EXPIRE` the event
  it is about to admit. When a key expires, `OneLife` for its last tick gives
  `TwoLives` for the next key. TLC evaluated both invariants on the instance of
  `rate_limit` and on one with `window` 4.

The sums count a set with one element per event (`Events`), so that an event
added (`SumAdds`) and a tick passed (`SumsShift`, a bijection) follow from the
theorems about finite sets, without an induction over the window.

### RulesProofs (from the assumptions of `Scheduling`, `Scoring`, `ListingImport`)

* `ScoreKept`: `Spec => ScoreNeverFalls`, for any listings, prices and timelines:
  each reason of the score is monotonous in what is known of the lead, and so is
  their capped sum.
* `NoRowDropped`: `Spec => []NothingDropped`, for files of any length and any
  limit. `ImportInv` says which rows were read (`RowsRead`), what each stage of the
  reader has done with them (`Stage`) and that it met no record that ends the
  upload (`Unbroken`); the number of listings is counted by a
  bijection with the rows that parsed.
* `TimesGiven`: `Spec => []TimesHold` under `FewTimes`: a week has at most the 200
  starts that `book_appointment` looks through (`agent/tools.py`). Seven days of nine hours
  have 126 in steps of half an hour. With more than 200, a time that was offered while
  others before it were taken may fall behind the 200th when those become free,
  and is then refused though nobody took it. `TimesInv` says that offers lie in the
  week they were read from; `FoundAmongFew` that a free start with few others
  before it is found; `SendTime` is about quiet hours, over midnight or not.

### Only model-checked

* Liveness: `InboxSpec` beyond its safety half, `Readmitted`, `ReconnectConverges`.
  The prover has no rule for fairness (ENABLED).
* What `parse_webhook` returns for every payload, which needs an induction over
  data; `MCIngestion` evaluates it on its payloads.

## 5. What the models leave out

* Text: the content of messages, prompts, templates, logs. Whether a message is
  a stop is a property of the message; what the model says is a choice of tools.
* How a signature is computed, how a password is hashed, how an OAuth state is
  signed: each is right or wrong.
* In `Ingestion`, the row locks of the lead and conversation updates a claim
  makes beside its inserts.
* In `LeadLifecycle`, a session reads the lead and the latest conversation in one
  step; quiet hours, due times and the limiter are a choice; conversation
  timestamps and the conversation row's lock are left out, since each session
  that writes them holds the lead's row first. A rollback count bounds the passes
  that fail.
* In `LeadLifecycle`, the service window of `send_message`: a refusal changes
  nothing. Messages are no rows there, so that a rejected message is answered
  with "saved to the transcript" (`api/dashboard.py:385`) while the exception
  rolls its row back (`core/db.py:45`) is `MessageRejected`, not a property.
* Copies of a WhatsApp message after a lost answer are modelled for the queue's
  replies and left out of `LeadLifecycle`: `LateBounded` and `CapOrUndone`
  count a send once, however often the channel repeated it.
* In `Scheduling`, daylight saving, and the times of one day that the search
  drops beyond six offers a week or 200 slots a month.
* In `Booking`, the columns of an appointment besides its event;
  `cancel_calendar_event` and `cancel_event` have no caller. In `Accounts`,
  `purge_expired` and `needs_rehash` have none either.
* The order of two times in `SettingsUpdate` is that of strings
  (`api/onboarding.py:99`): "9:30" to "18:00" is refused, "10:00" to "9:30" is
  accepted and then closes the day. The dashboard sends two digits.
* `settings.inbound_max_attempts` (`core/config.py`) is read by nobody: the queue
  uses its own `MAX_ATTEMPTS`, and so does the model.
* In `Booking`, a turn books once: after a crash of the tool the language model is
  told that it is unavailable, and a second call in the same turn is left out.
* In `Ingestion`, a message without an `id` (`claim_inbound` looks only ids up, so
  Meta's repetition of one is claimed again): Meta gives every message one.
* In `InboundQueue`, an entry whose `attempts` is no number (`_decode` converts it
  outside its `try`): `_encode` writes every entry.

Known behaviour the passing properties are stated around, where the code does not
keep what a comment or a document says, or what one might expect:

* a missing `WHATSAPP_ACCESS_TOKEN` is reported FAILED and retried MAX_ATTEMPTS
  times (`services/turn.py:107`, `:121`), although `services/turn.py:9-14` names a
  missing key as terminal: `TerminalNotRetried` is about the turns that do end
  NOT_CONFIGURED;
* the dead-letter stream is trimmed like the other (`services/inbound_queue.py:254`),
  so `NothingLost` promises a letter only below its ceiling;
* `parse_webhook` raises on a change with `"text": null`, a contact or message that
  is no object, or a timestamp out of range: the delivery gets a 500, and Meta
  repeats all of it to no avail, against its own docstring
  (`channels/whatsapp_payload.py:130-131`);
* a lead who opted out is answered: by a turn that overlaps the stop and by every
  later one (`agent/engine.py:165` asks only the text at hand), although
  `agent/optout.py:84` says "I won't message you again" ("just reply here" is
  its own exception for later messages): the second half of `LateBounded`;
* overlapping deliveries of READ and DELIVERED receipts may leave DELIVERED
  (`services/ingestion.py:322`: ranks are compared on what the request read), which
  is why `NeverUndelivered` only says that a message never looks merely sent again;
* a pass aborted after its nudge went out sends it again
  (`workers/followup_worker.py:150`): `CapOrUndone` counts the nudges rolled back;
* a malformed answer of Google (no token, no id, no JSON) is no
  `GoogleCalendarError`: it passes `sync_to_calendar` (`services/booking.py:134`),
  `_run_tool` swallows it (`agent/engine.py:286`), and the appointment is committed
  without an event and with nobody told; and a turn that was escalated before adds
  no word about the calendar (`agent/engine.py:517`). `docs/decisions.md:302-303`
  says "a human always learns when the calendar is out of step". `NothingUnseen`
  says how often the first can happen and that the second has its lead with a human;
* the UPDATE of `revoke_all` and the DELETE of a replacing import keep the rows of
  their start (`services/sessions.py:86`, `api/onboarding.py:246`): a login with the
  old password, or the file of another replacing import, that is committed while
  they wait stays; `OldPasswordRaced` and `CatalogueHolds` say it is nothing else;
* a lone carriage return in an unquoted field, an unclosed quote of more than
  131072 characters, or a garbled price ("abc crore") ends an upload with a 500 that
  names no row, against `services/listing_import.py:6-7`: `Ends` in `NothingDropped`.

Parts without a module (the language-model client, HTTP calls and texts of the
channels, health, scripts, migrations, the frontend) are listed in `PROJECT.json`
with the reason: none of them changes state the other parts read, except through
calls whose outcomes are choices in the models.

## 6. Plan

Every component that changes shared state has a module, every module but
`OptOut` and `WebhookPayload` (operators) has theorems, and every invariant and
action property of a passing run is the statement of one. What is left: abstract
specifications of what an upload and an offered time promise, implemented by
`ListingImport` and `Scheduling`.
