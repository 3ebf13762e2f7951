---------------------------- MODULE InboundQueue ----------------------------
(***************************************************************************)
(* The durable inbound queue and the workers that drain it:                *)
(* services/inbound_queue.py, workers/inbound_worker.py and the outcome    *)
(* part of services/turn.py.                                               *)
(*                                                                         *)
(* The webhook appends one entry per claimed message to a Redis stream.    *)
(* Workers of one consumer group read new entries in batches, run the      *)
(* model turn of each entry in order, and acknowledge what they handled.   *)
(* An entry nobody acknowledged within MIN_IDLE is taken back by whichever *)
(* worker sweeps next: it is appended again with its attempt count bumped, *)
(* or moved to the dead-letter stream when the attempts are used up.       *)
(*                                                                         *)
(* Appending and acknowledging are separate Redis calls, sending a reply   *)
(* and committing the turn are separate steps, and a worker can die, or    *)
(* lose the rest of its batch to an exception, between any two of them.    *)
(***************************************************************************)
EXTENDS Integers, Sequences, FiniteSets

CONSTANTS
  Claims,               \* the inbound messages the webhook claimed
  Undecodable,          \* those whose entry this release cannot parse
  Misconfigured,        \* those whose turn ends NOT_CONFIGURED: their agent has
                        \* no WhatsApp number, or the deployment no model key
  Workers,              \* the inbound worker processes
  Tokenless,            \* those started without WHATSAPP_ACCESS_TOKEN
  MAX_ATTEMPTS,         \* attempts before an entry is dead-lettered
  MAX_STREAM_LENGTH,    \* either stream's approximate length ceiling
  DEFAULT_BATCH_SIZE,   \* entries one XREADGROUP or XAUTOCLAIM returns
  MIN_IDLE,             \* ticks before an unacknowledged entry is stale
  RECLAIM_EVERY_PASSES, \* a worker sweeps on one pass out of this many
  TurnMax,              \* most ticks one turn takes
  CallMax,              \* most ticks one Redis call takes
  MaxFaults             \* bound on crashes, exceptions, late failures and lost answers

ASSUME QueueAssumption ==
  /\ Undecodable \subseteq Claims
  /\ Misconfigured \subseteq Claims
  /\ Tokenless \subseteq Workers
  /\ MAX_ATTEMPTS \in Nat \ {0}
  /\ MAX_STREAM_LENGTH \in Nat \ {0}
  /\ DEFAULT_BATCH_SIZE \in Nat \ {0}
  /\ MIN_IDLE \in Nat \ {0}
  /\ RECLAIM_EVERY_PASSES \in Nat \ {0}
  /\ TurnMax \in Nat
  /\ CallMax \in Nat
  /\ MaxFaults \in Nat

VARIABLES
  stream,     \* every entry ever appended; the index is the entry id
  delivered,  \* the group's last-delivered id
  trimmed,    \* entries up to this id were trimmed away
  dead,       \* claims that were ever put on the dead-letter stream
  letters,    \* the dead-letter stream as it is now, oldest letter first
  settled,    \* claims whose turn was committed, or refused as rate limited
  replies,    \* how many replies were sent for each claim
  worker,     \* what each worker process is doing
  faults      \* how many faults happened so far

vars == <<stream, delivered, trimmed, dead, letters, settled, replies, worker, faults>>

-----------------------------------------------------------------------------
(* An entry carries its claim and attempt number. It is pending when it    *)
(* was delivered and not acknowledged; idle is its age since it was last   *)
(* delivered, saturated at MIN_IDLE.                                       *)
Entry == [claim : Claims, attempts : 1..MAX_ATTEMPTS,
          acked : BOOLEAN, idle : 0..MIN_IDLE]

(* A worker's program counter. "poll" is the top of a pass, "sweep" the    *)
(* loop over reclaimed entries, "fetch" the read of new ones, "turn" and   *)
(* "sent" the turn of one of them before and after its reply went out,     *)
(* "bury" and "release" the two calls that end an entry's life. mode is    *)
(* the loop those two return to.                                           *)
PC == {"poll", "fetch", "sweep", "turn", "sent", "bury", "release", "down"}

Worker == [pc : PC, mode : {"sweep", "turn"}, todo : SUBSET Nat,
           pass : 0..(RECLAIM_EVERY_PASSES - 1), spent : Nat]

Ids == 1..Len(stream)
Pending == {i \in Ids : i <= delivered /\ ~stream[i].acked}
Unread == {i \in Ids : i > delivered /\ i > trimmed}
Stale == {i \in Pending : i > trimmed /\ stream[i].idle = MIN_IDLE}

(* The n smallest members of S: Redis returns entries in id order.         *)
FirstOf(n, S) == {i \in S : Cardinality({j \in S : j <= i}) <= n}

(* The entry a worker's loop is at.                                        *)
Current(w) == CHOOSE i \in worker[w].todo : \A j \in worker[w].todo : i <= j
CurrentEntry(w) == stream[Current(w)]

(* Deliberately wrong variants of the operators of this module are named   *)
(* Wrong...: each stands for a plausible slip in the code and makes one of *)
(* the properties below fail.                                              *)
WrongLastAttemptLate(entry) == entry.attempts > MAX_ATTEMPTS
WrongLastAttemptEarly(entry) == entry.attempts >= MAX_ATTEMPTS - 1
is_last_attempt(entry) == entry.attempts >= MAX_ATTEMPTS

WrongFreshEntry(c, n) == [claim |-> c, attempts |-> 1, acked |-> FALSE, idle |-> 0]
FreshEntry(c, n) == [claim |-> c, attempts |-> n, acked |-> FALSE, idle |-> 0]

-----------------------------------------------------------------------------
(* XADD with approximate trimming: Redis may drop any number of the oldest *)
(* entries beyond the ceiling, or none.                                    *)
XADD(entry) ==
  /\ stream' = Append(stream, entry)
  /\ \E k \in trimmed..Len(stream) :
       /\ k > trimmed => Len(stream) + 1 - k >= MAX_STREAM_LENGTH
       /\ trimmed' = k

XACK(i) == stream' = [stream EXCEPT ![i].acked = TRUE]

(* Entries delivered or claimed now start a new idle period.               *)
Deliver(S) == stream' = [i \in Ids |-> IF i \in S THEN [stream[i] EXCEPT !.idle = 0]
                                                 ELSE stream[i]]

Goto(w, pc) == worker' = [worker EXCEPT ![w].pc = pc, ![w].spent = 0]

(* The pass counter of run_forever, kept modulo RECLAIM_EVERY_PASSES.      *)
WrongNextPass(w) == IF worker[w].pass = 0 THEN 1 ELSE worker[w].pass
NextPass(w) == (worker[w].pass + 1) % RECLAIM_EVERY_PASSES

(* Enter or go on with the loop mode over the entries todo; an exhausted   *)
(* sweep is followed by the read of new entries, an exhausted batch ends   *)
(* the pass.                                                               *)
Loop(w, mode, todo) ==
  worker' = [worker EXCEPT
    ![w].mode = mode, ![w].todo = todo, ![w].spent = 0,
    ![w].pc = CASE todo # {} -> mode
                [] todo = {} /\ mode = "sweep" -> "fetch"
                [] todo = {} /\ mode = "turn" -> "poll",
    ![w].pass = IF todo = {} /\ mode = "turn" THEN NextPass(w) ELSE @]

(* The loop moves on to the next entry.                                    *)
Advance(w) == Loop(w, worker[w].mode, worker[w].todo \ {Current(w)})

Idle == [pc |-> "poll", mode |-> "turn", todo |-> {}, pass |-> 0, spent |-> 0]
Down == [Idle EXCEPT !.pc = "down"]

-----------------------------------------------------------------------------
Init ==
  /\ stream = <<>>
  /\ delivered = 0
  /\ trimmed = 0
  /\ dead = {}
  /\ letters = <<>>
  /\ settled = {}
  /\ replies = [c \in Claims |-> 0]
  /\ worker = [w \in Workers |-> Idle]
  /\ faults = 0

(* The webhook appends a claimed message, once: its claim is unique.       *)
Enqueue(c) ==
  /\ \A i \in Ids : stream[i].claim # c
  /\ XADD(FreshEntry(c, 1))
  /\ UNCHANGED <<delivered, dead, letters, settled, replies, worker, faults>>

(* run_once begins: sweep first on every RECLAIM_EVERY_PASSES-th pass.     *)
(* XAUTOCLAIM hands the oldest stale entries to this worker.               *)
WrongSweep(w) ==
  /\ worker[w].pc = "poll"
  /\ worker[w].pass = 0
  /\ LET S == FirstOf(DEFAULT_BATCH_SIZE, {i \in Pending : i > trimmed})
     IN  Deliver(S) /\ Loop(w, "sweep", S)
  /\ UNCHANGED <<delivered, trimmed, dead, letters, settled, replies, faults>>

Sweep(w) ==
  /\ worker[w].pc = "poll"
  /\ worker[w].pass = 0
  /\ LET S == FirstOf(DEFAULT_BATCH_SIZE, Stale)
     IN  Deliver(S) /\ Loop(w, "sweep", S)
  /\ UNCHANGED <<delivered, trimmed, dead, letters, settled, replies, faults>>

SkipSweep(w) ==
  /\ worker[w].pc = "poll"
  /\ worker[w].pass # 0
  /\ Goto(w, "fetch")
  /\ UNCHANGED <<stream, delivered, trimmed, dead, letters, settled, replies, faults>>

(* The swept entry cannot be parsed: it is acknowledged and forgotten. Its *)
(* attempts field is converted outside _decode's try and could end the     *)
(* pass instead (PassFailed); every entry is written by _encode, which     *)
(* puts a number there.                                                    *)
DiscardMalformed(w) ==
  /\ worker[w].pc = "sweep"
  /\ CurrentEntry(w).claim \in Undecodable
  /\ XACK(Current(w))
  /\ Advance(w)
  /\ UNCHANGED <<delivered, trimmed, dead, letters, settled, replies, faults>>

(* The swept entry used its last attempt.                                  *)
WrongGiveUp(w) ==
  /\ worker[w].pc = "sweep"
  /\ is_last_attempt(CurrentEntry(w))
  /\ Goto(w, "release")
  /\ UNCHANGED <<stream, delivered, trimmed, dead, letters, settled, replies, faults>>

GiveUp(w) ==
  /\ worker[w].pc = "sweep"
  /\ CurrentEntry(w).claim \notin Undecodable
  /\ is_last_attempt(CurrentEntry(w))
  /\ Goto(w, "bury")
  /\ UNCHANGED <<stream, delivered, trimmed, dead, letters, settled, replies, faults>>

(* The swept entry is appended again with its attempt bumped; the original *)
(* is released by the next call.                                           *)
WrongRetry(w) ==
  /\ worker[w].pc = "sweep"
  /\ ~is_last_attempt(CurrentEntry(w))
  /\ Goto(w, "release")
  /\ UNCHANGED <<stream, delivered, trimmed, dead, letters, settled, replies, faults>>

Retry(w) ==
  /\ worker[w].pc = "sweep"
  /\ CurrentEntry(w).claim \notin Undecodable
  /\ ~is_last_attempt(CurrentEntry(w))
  /\ XADD(FreshEntry(CurrentEntry(w).claim, CurrentEntry(w).attempts + 1))
  /\ Goto(w, "release")
  /\ UNCHANGED <<delivered, dead, letters, settled, replies, faults>>

(* consume: XREADGROUP delivers the next entries of the group to this      *)
(* worker; _flatten drops those it cannot parse and leaves them pending.   *)
Consume(w) ==
  /\ worker[w].pc = "fetch"
  /\ LET S == FirstOf(DEFAULT_BATCH_SIZE, Unread)
     IN  /\ delivered' = IF S = {} THEN delivered
                         ELSE CHOOSE i \in S : \A j \in S : j <= i
         /\ Deliver(S)
         /\ Loop(w, "turn", {i \in S : stream[i].claim \notin Undecodable})
  /\ UNCHANGED <<trimmed, dead, letters, settled, replies, faults>>

-----------------------------------------------------------------------------
(* handle: run_claim on the current entry. The rate limit is checked       *)
(* first, and a claim over the limit is acknowledged unprocessed.          *)
RateLimited(w) ==
  /\ worker[w].pc = "turn"
  /\ settled' = settled \cup {CurrentEntry(w).claim}
  /\ Goto(w, "release")
  /\ UNCHANGED <<stream, delivered, trimmed, dead, letters, replies, faults>>

WrongNotConfigured(w) ==
  /\ worker[w].pc = "turn"
  /\ CurrentEntry(w).claim \in Misconfigured
  /\ Advance(w)
  /\ UNCHANGED <<stream, delivered, trimmed, dead, letters, settled, replies, faults>>

NotConfigured(w) ==
  /\ worker[w].pc = "turn"
  /\ CurrentEntry(w).claim \in Misconfigured
  /\ Goto(w, "bury")
  /\ UNCHANGED <<stream, delivered, trimmed, dead, letters, settled, replies, faults>>

(* WhatsApp takes answered copies of the reply, and lost ones whose answer *)
(* did not come, after each of which the channel sends it again.           *)
Post(w, answered, lost) ==
  /\ faults + lost <= MaxFaults
  /\ faults' = faults + lost
  /\ replies' = [replies EXCEPT ![CurrentEntry(w).claim] = @ + answered + lost]

(* WhatsApp accepted the reply; the turn is not committed yet.             *)
SendReply(w) ==
  /\ worker[w].pc = "turn"
  /\ CurrentEntry(w).claim \notin Misconfigured
  /\ w \notin Tokenless
  /\ \E lost \in 0..MaxFaults : Post(w, 1, lost)
  /\ worker' = [worker EXCEPT ![w].pc = "sent"]
  /\ UNCHANGED <<stream, delivered, trimmed, dead, letters, settled>>

(* COMPLETED: the session is committed, with or without a reply.           *)
WrongCommit(w) ==
  /\ worker[w].pc \in {"turn", "sent"}
  /\ CurrentEntry(w).claim \notin Misconfigured
  /\ w \notin Tokenless
  /\ settled' = settled \cup {CurrentEntry(w).claim}
  /\ Advance(w)
  /\ UNCHANGED <<stream, delivered, trimmed, dead, letters, replies, faults>>

Commit(w) ==
  /\ worker[w].pc \in {"turn", "sent"}
  /\ CurrentEntry(w).claim \notin Misconfigured
  /\ w \notin Tokenless
  /\ settled' = settled \cup {CurrentEntry(w).claim}
  /\ Goto(w, "release")
  /\ UNCHANGED <<stream, delivered, trimmed, dead, letters, replies, faults>>

(* FAILED: the turn is rolled back. The last attempt goes to the           *)
(* dead-letter stream, any other entry stays pending and the loop goes on. *)
(* Without an access token the channel's constructor raises, which _run    *)
(* reports the same way: a worker without one can do nothing else with the *)
(* turns that get that far.                                                *)
WrongAfterFailure(w) == Goto(w, "release")
AfterFailure(w) ==
  IF is_last_attempt(CurrentEntry(w)) THEN Goto(w, "bury") ELSE Advance(w)

FailTurn(w) ==
  /\ worker[w].pc = "turn"
  /\ CurrentEntry(w).claim \notin Misconfigured
  /\ AfterFailure(w)
  /\ \E lost \in 0..MaxFaults : Post(w, 0, lost) /\ (w \in Tokenless => lost = 0)
  /\ UNCHANGED <<stream, delivered, trimmed, dead, letters, settled>>

(* The database fails the turn: before its agent is read, so that even a   *)
(* misconfigured one's is reported FAILED, or after the reply went out.    *)
TurnBreaks(w) ==
  /\ worker[w].pc \in {"turn", "sent"}
  /\ faults < MaxFaults
  /\ faults' = faults + 1
  /\ AfterFailure(w)
  /\ UNCHANGED <<stream, delivered, trimmed, dead, letters, settled, replies>>

(* The dead-letter stream is trimmed as it grows, like the other.          *)
AddLetter(c) ==
  /\ dead' = dead \cup {c}
  /\ \E k \in 0..Len(letters) :
       /\ k > 0 => Len(letters) + 1 - k >= MAX_STREAM_LENGTH
       /\ letters' = SubSeq(Append(letters, c), k + 1, Len(letters) + 1)

(* dead_letter, first call: append to the dead-letter stream.              *)
Bury(w) ==
  /\ worker[w].pc = "bury"
  /\ AddLetter(CurrentEntry(w).claim)
  /\ Goto(w, "release")
  /\ UNCHANGED <<stream, delivered, trimmed, settled, replies, faults>>

(* ack, and the second call of dead_letter and of a retry: XACK the entry. *)
Release(w) ==
  /\ worker[w].pc = "release"
  /\ XACK(Current(w))
  /\ Advance(w)
  /\ UNCHANGED <<delivered, trimmed, dead, letters, settled, replies, faults>>

-----------------------------------------------------------------------------
(* An exception ends the pass, at its first Redis call (ensure_group, the  *)
(* XAUTOCLAIM) or later: whatever was in flight stays pending.             *)
PassFailed(w) ==
  /\ worker[w].pc # "down"
  /\ faults < MaxFaults
  /\ faults' = faults + 1
  /\ worker' = [worker EXCEPT ![w] = [Idle EXCEPT !.pass = NextPass(w)]]
  /\ UNCHANGED <<stream, delivered, trimmed, dead, letters, settled, replies>>

Crash(w) ==
  /\ worker[w].pc # "down"
  /\ faults < MaxFaults
  /\ faults' = faults + 1
  /\ worker' = [worker EXCEPT ![w] = Down]
  /\ UNCHANGED <<stream, delivered, trimmed, dead, letters, settled, replies>>

Restart(w) ==
  /\ worker[w].pc = "down"
  /\ worker' = [worker EXCEPT ![w] = Idle]
  /\ UNCHANGED <<stream, delivered, trimmed, dead, letters, settled, replies, faults>>

-----------------------------------------------------------------------------
(* Time. A tick ages the pending entries and every worker that is in the   *)
(* middle of something; no step may take longer than its bound. A worker   *)
(* between passes, or blocked on an empty stream, lets time pass freely.   *)
Busy(w) ==
  /\ worker[w].pc \notin {"poll", "down"}
  /\ worker[w].pc = "fetch" => Unread # {}
StepMax(w) == IF worker[w].pc \in {"turn", "sent"} THEN TurnMax ELSE CallMax

Tick ==
  /\ \A w \in Workers : Busy(w) => worker[w].spent < StepMax(w)
  /\ \/ \E i \in Pending : stream[i].idle < MIN_IDLE
     \/ \E w \in Workers : Busy(w)
  /\ stream' = [i \in Ids |->
       IF i \in Pending /\ stream[i].idle < MIN_IDLE
         THEN [stream[i] EXCEPT !.idle = @ + 1] ELSE stream[i]]
  /\ worker' = [w \in Workers |->
       IF Busy(w) THEN [worker[w] EXCEPT !.spent = @ + 1] ELSE worker[w]]
  /\ UNCHANGED <<delivered, trimmed, dead, letters, settled, replies, faults>>

WorkerStep(w) ==
  \/ Sweep(w) \/ SkipSweep(w) \/ DiscardMalformed(w) \/ GiveUp(w) \/ Retry(w)
  \/ Consume(w) \/ RateLimited(w) \/ NotConfigured(w) \/ SendReply(w) \/ Commit(w)
  \/ FailTurn(w) \/ Bury(w) \/ Release(w)

Fault(w) == TurnBreaks(w) \/ PassFailed(w) \/ Crash(w)

Next ==
  \/ \E c \in Claims : Enqueue(c)
  \/ \E w \in Workers : WorkerStep(w) \/ Fault(w) \/ Restart(w)
  \/ Tick

Spec == Init /\ [][Next]_vars

(* A worker process that is up keeps going, and time passes. Nothing       *)
(* forces a message to arrive or a dead worker to be restarted.            *)
Fairness == WF_vars(Tick) /\ \A w \in Workers : WF_vars(WorkerStep(w))

FairSpec == Spec /\ Fairness

-----------------------------------------------------------------------------
TypeOK ==
  /\ stream \in Seq(Entry)
  /\ delivered \in 0..Len(stream)
  /\ trimmed \in 0..Len(stream)
  /\ dead \subseteq Claims
  /\ letters \in Seq(Claims)
  /\ settled \subseteq Claims
  /\ replies \in [Claims -> Nat]
  /\ worker \in [Workers -> Worker]
  /\ faults \in 0..MaxFaults

EntriesOf(c) == {i \in Ids : stream[i].claim = c}

(* The dead letter of a message is there to be found, unless the           *)
(* dead-letter stream is at its ceiling and trimmed it.                    *)
LetterKept(c) ==
  \/ \E i \in 1..Len(letters) : letters[i] = c
  \/ Len(letters) >= MAX_STREAM_LENGTH

(* A message the webhook queued is never silently dropped: until its turn  *)
(* is settled or it is on the dead-letter stream, some entry of it is      *)
(* unacknowledged. That entry is still readable unless the stream outgrew  *)
(* its ceiling after it, and the dead letter unless its stream is at the   *)
(* ceiling (inbound_queue.py: an entry is released only after its          *)
(* successor or its dead letter was written; both streams have a maxlen).  *)
NothingLost ==
  \A c \in Claims : EntriesOf(c) # {} =>
    \/ c \in settled \cup Undecodable
    \/ c \in dead /\ LetterKept(c)
    \/ \E i \in EntriesOf(c) :
         /\ ~stream[i].acked
         /\ i <= trimmed => Len(stream) - i >= MAX_STREAM_LENGTH

(* Dead letters are earned: a message whose turns do not end               *)
(* NOT_CONFIGURED reaches the dead-letter stream only after MAX_ATTEMPTS   *)
(* entries of it were queued, however the attempts were spread over        *)
(* workers that died mid-turn. Workers without an access token are no      *)
(* exception: what only they run costs all its attempts.                   *)
DeadLetterEarned ==
  \A c \in dead \ Misconfigured : Cardinality(EntriesOf(c)) >= MAX_ATTEMPTS

(* The retry budget survives faults: each crash or exception can make one  *)
(* entry be re-queued a second time, and nothing else can.                 *)
AttemptBudget ==
  \A c \in Claims : Cardinality(EntriesOf(c)) <= MAX_ATTEMPTS * (1 + faults)

(* NOT_CONFIGURED is terminal: without faults a message whose turn ends so *)
(* is dead-lettered on its first attempt and never queued again, whoever   *)
(* reads or sweeps it. turn.py:9-14 wants this of every configuration      *)
(* mistake; it holds of an agent without a number and of a missing model   *)
(* key. A missing access token is reported FAILED, and a message that      *)
(* reaches a Tokenless worker is queued again until its attempts are used  *)
(* up: the property does not cover it, and would be false of it.           *)
TerminalNotRetried ==
  faults = 0 => \A i \in Ids : stream[i].claim \in Misconfigured => stream[i].attempts = 1

InTurn(w) == worker[w].pc \in {"turn", "sent"}

(* Two workers never run the turn of one message at the same time, as long *)
(* as no process failed.                                                   *)
OneWorkerPerMessage ==
  faults = 0 => \A v, w \in Workers :
    v # w /\ InTurn(v) /\ InTurn(w) => CurrentEntry(v).claim # CurrentEntry(w).claim

(* A lead gets at most one reply to a message, plus one for each fault.    *)
AtMostOneReply == \A c \in Claims : replies[c] <= 1 + faults

-----------------------------------------------------------------------------
(* Why NothingLost holds: an entry about to be acknowledged is either of a *)
(* message that is closed, or has a younger unacknowledged entry to take   *)
(* over. IInv is NothingLost made inductive.                               *)
Closed(c) == c \in settled \cup dead \cup Undecodable

HoldsEntries ==
  \A w \in Workers :
    /\ worker[w].todo \subseteq Ids
    /\ worker[w].pc \notin {"poll", "fetch", "down"} => worker[w].todo # {}

TrimCeiling == trimmed > 0 => Len(stream) - trimmed >= MAX_STREAM_LENGTH

Covered ==
  \A i \in Ids : Closed(stream[i].claim) \/
    \E j \in Ids : stream[j].claim = stream[i].claim /\ ~stream[j].acked

ReleaseJustified ==
  \A w \in Workers : worker[w].pc = "release" =>
    \/ Closed(CurrentEntry(w).claim)
    \/ \E j \in Ids : /\ j > Current(w)
                      /\ stream[j].claim = CurrentEntry(w).claim
                      /\ ~stream[j].acked

IInv == TypeOK /\ HoldsEntries /\ TrimCeiling /\ Covered /\ ReleaseJustified

(* Why DeadLetterEarned holds: an entry numbered n was preceded by entries *)
(* of its message numbered 1 to n - 1, and only a misconfigured agent or a *)
(* last attempt leads a worker to the dead-letter call. Earned is          *)
(* DeadLetterEarned made inductive, given IInv.                            *)
AttemptsCounted ==
  \A i \in Ids : \A k \in 1..stream[i].attempts :
    \E j \in Ids : stream[j].claim = stream[i].claim /\ stream[j].attempts = k

BuryJustified ==
  \A w \in Workers : worker[w].pc = "bury" =>
    CurrentEntry(w).claim \in Misconfigured \/ is_last_attempt(CurrentEntry(w))

DeadJustified ==
  \A c \in dead \ Misconfigured :
    \E i \in Ids : stream[i].claim = c /\ is_last_attempt(stream[i])

Earned == AttemptsCounted /\ BuryJustified /\ DeadJustified

-----------------------------------------------------------------------------
(* The queue implements its promise: a claim waits while any entry of it   *)
(* is unacknowledged.                                                      *)
Accepted == {stream[i].claim : i \in Ids}
Waiting == {stream[i].claim : i \in {j \in Ids : ~stream[j].acked}}

Inbox == INSTANCE DurableInbox WITH
  Messages <- Claims, Expendable <- Undecodable,
  accepted <- Accepted, waiting <- Waiting

(* An accepted message stops waiting only when it is settled, dead or      *)
(* unparsable, whatever the workers and the faults do.                     *)
InboxSafety == Inbox!InboxSafety

(* ... and every accepted message does stop waiting.                       *)
InboxSpec == Inbox!InboxSpec
=============================================================================
