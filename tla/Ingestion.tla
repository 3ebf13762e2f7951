------------------------------ MODULE Ingestion ------------------------------
(***************************************************************************)
(* The webhook: api/webhooks.py over the claim phase and the delivery      *)
(* receipts of services/ingestion.py.                                      *)
(*                                                                         *)
(* Meta sends a delivery, a batch of receipts and messages, until it sees  *)
(* a 200. A request handles it in one database transaction: it applies the *)
(* receipts, claims the messages one after the other, commits, and only    *)
(* then hands the claims to the queue (or, without Redis, to tasks of its  *)
(* own process) and answers. Several requests run at once, on the same or  *)
(* on different batches. Postgres runs them READ COMMITTED: a query sees   *)
(* what is committed, a unique key another open transaction inserted makes *)
(* an insert wait, and an update overwrites what was committed meanwhile.  *)
(***************************************************************************)
EXTENDS Integers, Sequences, FiniteSets, Functions

CONSTANTS
  Requests,      \* the HTTP requests that may ever be made
  Batches,       \* the deliveries Meta has to make and parse_webhook can read
  Messages,      \* the inbound messages in them
  Senders,       \* the phones they come from
  Sent,          \* our outbound messages, which receipts are about
  Contents,      \* the receipts and messages parse_webhook finds in each batch
  SenderOf,      \* who sent each message
  Unroutable,    \* messages to a number no active agent has
  QueueEnabled,  \* settings.inbound_queue_enabled
  None,          \* no request
  MaxFaults      \* bound on crashes, Redis errors and lost replies

Status == {"SENT", "DELIVERED", "READ", "FAILED"}
Receipt == [to : Sent, status : Status]

(* Meta names a message at most once in a batch.                           *)
ASSUME IngestionAssumption ==
  /\ SenderOf \in [Messages -> Senders]
  /\ Contents \in [Batches -> [receipts : Seq(Receipt), messages : Seq(Messages)]]
  /\ \A b \in Batches : \A i, j \in DOMAIN Contents[b].messages :
       Contents[b].messages[i] = Contents[b].messages[j] => i = j
  /\ Unroutable \subseteq Messages
  /\ QueueEnabled \in BOOLEAN
  /\ None \notin Requests
  /\ MaxFaults \in Nat

VARIABLES
  recorded,  \* committed message rows: the request whose claim each one is
  leads,     \* committed leads, by phone
  status,    \* committed status of our messages, "absent" before their turn commits
  request,   \* what each request is doing
  queued,    \* claims on the inbound stream
  ran,       \* claims a task of the API process ran
  acked,     \* batches Meta saw acknowledged
  faults     \* how many faults happened so far

vars == <<recorded, leads, status, request, queued, ran, acked, faults>>

-----------------------------------------------------------------------------
StatusOrder == [absent |-> 0, SENT |-> 1, DELIVERED |-> 2, READ |-> 3, FAILED |-> 4]

(* A request walks through its receipts and messages at "open"; "lead",    *)
(* "newlead" and "insert" are the queries of one claim. view is what its   *)
(* session remembers of our messages' status, dirty those it changed,      *)
(* newleads and rows what its open transaction inserted, claims what it    *)
(* will hand over and tasks the claims it runs itself after answering.     *)
(* missed are the messages it had a receipt for and found no row of.       *)
PC == {"idle", "open", "lead", "newlead", "insert", "dispatch", "group",
       "enqueue", "respond", "tasks", "done", "failed"}

Request == [pc : PC, batch : Batches \cup {None},
            receipts : Seq(Receipt), messages : Seq(Messages),
            view : [Sent -> Status \cup {"unread"}], dirty : SUBSET Sent,
            newleads : SUBSET Senders, rows : SUBSET Messages,
            claims : Seq(Messages), tasks : Seq(Messages), missed : SUBSET Sent]

Unread == [o \in Sent |-> "unread"]
NoRequest == [pc |-> "idle", batch |-> None, receipts |-> <<>>, messages |-> <<>>,
              view |-> Unread, dirty |-> {}, newleads |-> {}, rows |-> {},
              claims |-> <<>>, tasks |-> <<>>, missed |-> {}]

At(r, pc) == request[r].pc = pc
Claiming(r) == Head(request[r].messages)
Claim(r) == <<Claiming(r), r>>
Sender(r) == SenderOf[Claiming(r)]
Set(r, value) == request' = [request EXCEPT ![r] = value]
Goto(r, pc) == request' = [request EXCEPT ![r].pc = pc]

(* The claim of the current message is over; the loop goes on.             *)
NextMessage(req) == [req EXCEPT !.pc = "open", !.messages = Tail(@)]

(* session.rollback: the transaction's rows and everything the session     *)
(* remembered are gone, but not the claims the handler collected.          *)
RolledBack(req) ==
  [req EXCEPT !.view = Unread, !.dirty = {}, !.newleads = {}, !.rows = {}]

(* The request dies or raises: no 200, no tasks, nothing uncommitted.      *)
Abort(r) == Set(r, [NoRequest EXCEPT !.pc = "failed", !.batch = request[r].batch,
                                     !.missed = request[r].missed])

Init ==
  /\ recorded = [m \in Messages |-> None]
  /\ leads = {}
  /\ status = [o \in Sent |-> "absent"]
  /\ request = [r \in Requests |-> NoRequest]
  /\ queued = {}
  /\ ran = {}
  /\ acked = {}
  /\ faults = 0

-----------------------------------------------------------------------------
(* Meta delivers a batch, again and again until it sees a 200, possibly    *)
(* while an earlier delivery of it is still being handled.                 *)
Deliver(r, b) ==
  /\ At(r, "idle")
  /\ b \notin acked
  /\ Set(r, [NoRequest EXCEPT !.pc = "open", !.batch = b,
               !.receipts = Contents[b].receipts, !.messages = Contents[b].messages])
  /\ UNCHANGED <<recorded, leads, status, queued, ran, acked, faults>>

(* _authenticated_payload: no app secret, a signature that does not match  *)
(* the body, a body that is not JSON, or one that parse_webhook raises at  *)
(* (WebhookPayload). Meta sees no 200, and makes the last kind again and   *)
(* again to no avail, with what is well-formed in it.                      *)
Refuse(r) ==
  /\ At(r, "idle")
  /\ Goto(r, "failed")
  /\ UNCHANGED <<recorded, leads, status, queued, ran, acked, faults>>

(* The turn that sent an outbound message commits, in a worker.            *)
OutboundCommitted(o) ==
  /\ status[o] = "absent"
  /\ status' = [status EXCEPT ![o] = "SENT"]
  /\ UNCHANGED <<recorded, leads, request, queued, ran, acked, faults>>

(* apply_status_updates, one update: a status only ever moves up in rank,  *)
(* judged by what this session remembers or, the first time, reads.        *)
Known(r, o) == IF request[r].view[o] = "unread" THEN status[o] ELSE request[r].view[o]

WrongSupersedes(new, old) == new # old
SupersedesStepwise(new, old) == StatusOrder[new] = StatusOrder[old] + 1
Supersedes(new, old) == StatusOrder[new] > StatusOrder[old]

ReadReceipt(r) ==
  /\ At(r, "open")
  /\ request[r].receipts # <<>>
  /\ LET u == Head(request[r].receipts)
         known == Known(r, u.to)
         rest == [request[r] EXCEPT !.receipts = Tail(@)]
     IN  Set(r, CASE known = "absent" -> [rest EXCEPT !.missed = @ \cup {u.to}]
                  [] known # "absent" /\ Supersedes(u.status, known) ->
                       [rest EXCEPT !.view[u.to] = u.status, !.dirty = @ \cup {u.to}]
                  [] OTHER -> [rest EXCEPT !.view[u.to] = known])
  /\ UNCHANGED <<recorded, leads, status, queued, ran, acked, faults>>

-----------------------------------------------------------------------------
(* claim_inbound: skip a message without an agent, or one already          *)
(* recorded.                                                               *)
Check(r) ==
  /\ At(r, "open")
  /\ request[r].receipts = <<>>
  /\ request[r].messages # <<>>
  /\ IF Claiming(r) \in Unroutable \/ recorded[Claiming(r)] # None
       THEN Set(r, NextMessage(request[r]))
       ELSE Goto(r, "lead")
  /\ UNCHANGED <<recorded, leads, status, queued, ran, acked, faults>>

(* get_or_create_lead looks the phone up ...                               *)
FindLead(r) ==
  /\ At(r, "lead")
  /\ Goto(r, IF Sender(r) \in leads \cup request[r].newleads THEN "insert" ELSE "newlead")
  /\ UNCHANGED <<recorded, leads, status, queued, ran, acked, faults>>

(* An insert waits for the open transaction that holds the same key.       *)
WaitsFor(r, q) ==
  /\ q # r
  /\ \/ At(r, "newlead") /\ Sender(r) \in request[q].newleads
     \/ At(r, "insert") /\ Claiming(r) \in request[q].rows

Waiting(r) == \E q \in Requests : WaitsFor(r, q)

(* ... and adds it if it is new; a race for it is lost with a 500.         *)
WrongAddLead(r) ==
  /\ At(r, "newlead")
  /\ ~Waiting(r)
  /\ Set(r, IF Sender(r) \in leads
              THEN NextMessage(RolledBack(request[r]))
              ELSE [request[r] EXCEPT !.pc = "insert", !.newleads = @ \cup {Sender(r)}])
  /\ UNCHANGED <<recorded, leads, status, queued, ran, acked, faults>>

AddLead(r) ==
  /\ At(r, "newlead")
  /\ ~Waiting(r)
  /\ IF Sender(r) \in leads
       THEN Abort(r)
       ELSE Set(r, [request[r] EXCEPT !.pc = "insert", !.newleads = @ \cup {Sender(r)}])
  /\ UNCHANGED <<recorded, leads, status, queued, ran, acked, faults>>

(* The message row is flushed and the claim returned.                      *)
RecordMessage(r) ==
  /\ At(r, "insert")
  /\ ~Waiting(r)
  /\ recorded[Claiming(r)] = None
  /\ Set(r, [NextMessage(request[r]) EXCEPT !.rows = @ \cup {Claiming(r)},
                                            !.claims = Append(@, Claiming(r))])
  /\ UNCHANGED <<recorded, leads, status, queued, ran, acked, faults>>

(* IntegrityError: another delivery of the same message was first.         *)
WrongLoseRace(r) ==
  /\ At(r, "insert")
  /\ ~Waiting(r)
  /\ recorded[Claiming(r)] # None
  /\ Set(r, [NextMessage(RolledBack(request[r])) EXCEPT
               !.claims = Append(@, Claiming(r))])
  /\ UNCHANGED <<recorded, leads, status, queued, ran, acked, faults>>

WrongLoseRaceHalf(r) ==
  /\ At(r, "insert")
  /\ ~Waiting(r)
  /\ recorded[Claiming(r)] # None
  /\ Set(r, [NextMessage(request[r]) EXCEPT !.view = Unread, !.newleads = {}, !.rows = {}])
  /\ UNCHANGED <<recorded, leads, status, queued, ran, acked, faults>>

LoseRace(r) ==
  /\ At(r, "insert")
  /\ ~Waiting(r)
  /\ recorded[Claiming(r)] # None
  /\ Set(r, NextMessage(RolledBack(request[r])))
  /\ UNCHANGED <<recorded, leads, status, queued, ran, acked, faults>>

(* Requests that wait for each other in a circle: Postgres aborts one.     *)
Deadlocked(r) ==
  \E S \in SUBSET Requests :
    /\ r \in S
    /\ \A p \in S : \E q \in S : WaitsFor(p, q)
    /\ \A q \in S : \E p \in S : WaitsFor(p, q)

DeadlockVictim(r) ==
  /\ Deadlocked(r)
  /\ Abort(r)
  /\ UNCHANGED <<recorded, leads, status, queued, ran, acked, faults>>

-----------------------------------------------------------------------------
(* session.commit, before anything is dispatched.                          *)
WrongCommit(r) ==
  /\ At(r, "open")
  /\ request[r].receipts = <<>>
  /\ request[r].messages = <<>>
  /\ Goto(r, IF request[r].claims = <<>> THEN "respond" ELSE "dispatch")
  /\ UNCHANGED <<recorded, leads, status, queued, ran, acked, faults>>

Commit(r) ==
  /\ At(r, "open")
  /\ request[r].receipts = <<>>
  /\ request[r].messages = <<>>
  /\ recorded' = [m \in Messages |-> IF m \in request[r].rows THEN r ELSE recorded[m]]
  /\ leads' = leads \cup request[r].newleads
  /\ status' = [o \in Sent |-> IF o \in request[r].dirty THEN request[r].view[o] ELSE status[o]]
  /\ Set(r, [RolledBack(request[r]) EXCEPT
               !.pc = IF request[r].claims = <<>> THEN "respond" ELSE "dispatch"])
  /\ UNCHANGED <<queued, ran, acked, faults>>

(* _dispatch: Redis answers the ping, or every claim becomes a task.       *)
WrongUseQueue(r) ==
  /\ At(r, "dispatch")
  /\ QueueEnabled
  /\ Goto(r, "respond")
  /\ UNCHANGED <<recorded, leads, status, queued, ran, acked, faults>>

UseQueue(r) ==
  /\ At(r, "dispatch")
  /\ QueueEnabled
  /\ Goto(r, "group")
  /\ UNCHANGED <<recorded, leads, status, queued, ran, acked, faults>>

Fault ==
  /\ faults < MaxFaults
  /\ faults' = faults + 1

RunHere(r) ==
  /\ At(r, "dispatch")
  /\ IF QueueEnabled THEN Fault ELSE UNCHANGED faults
  /\ Set(r, [request[r] EXCEPT !.pc = "respond", !.tasks = request[r].claims, !.claims = <<>>])
  /\ UNCHANGED <<recorded, leads, status, queued, ran, acked>>

EnsureGroup(r) ==
  /\ At(r, "group")
  /\ Goto(r, "enqueue")
  /\ UNCHANGED <<recorded, leads, status, queued, ran, acked, faults>>

(* The claim at the head has been dealt with.                              *)
Dispatched(req) == [req EXCEPT !.claims = Tail(@),
                               !.pc = IF Len(req.claims) = 1 THEN "respond" ELSE "enqueue"]

Enqueue(r) ==
  /\ At(r, "enqueue")
  /\ queued' = queued \cup {<<Head(request[r].claims), r>>}
  /\ Set(r, Dispatched(request[r]))
  /\ UNCHANGED <<recorded, leads, status, ran, acked, faults>>

(* XADD raised, before or after Redis added the entry: run the claim here. *)
EnqueueFails(r) ==
  /\ At(r, "enqueue")
  /\ Fault
  /\ queued' \in {queued, queued \cup {<<Head(request[r].claims), r>>}}
  /\ Set(r, [Dispatched(request[r]) EXCEPT !.tasks = Append(@, Head(request[r].claims))])
  /\ UNCHANGED <<recorded, leads, status, ran, acked>>

(* The 200 goes out; Meta may have stopped waiting for it.                 *)
Respond(r) ==
  /\ At(r, "respond")
  /\ acked' \in {acked, acked \cup {request[r].batch}}
  /\ Goto(r, IF request[r].tasks = <<>> THEN "done" ELSE "tasks")
  /\ UNCHANGED <<recorded, leads, status, queued, ran, faults>>

(* _process_in_process, the background tasks in order. A failed turn is    *)
(* logged and not retried.                                                 *)
RunTask(r) ==
  /\ At(r, "tasks")
  /\ ran' = ran \cup {<<Head(request[r].tasks), r>>}
  /\ Set(r, [request[r] EXCEPT !.tasks = Tail(@),
                               !.pc = IF Len(request[r].tasks) = 1 THEN "done" ELSE "tasks"])
  /\ UNCHANGED <<recorded, leads, status, queued, acked, faults>>

(* The process dies, or a query or ensure_group raises.                    *)
Crash(r) ==
  /\ request[r].pc \notin {"idle", "done", "failed"}
  /\ Fault
  /\ Abort(r)
  /\ UNCHANGED <<recorded, leads, status, queued, ran, acked>>

Step(r) ==
  \/ ReadReceipt(r) \/ Check(r) \/ FindLead(r) \/ AddLead(r) \/ RecordMessage(r)
  \/ LoseRace(r) \/ DeadlockVictim(r) \/ Commit(r) \/ UseQueue(r) \/ RunHere(r)
  \/ EnsureGroup(r) \/ Enqueue(r) \/ EnqueueFails(r) \/ Respond(r) \/ RunTask(r)

Next ==
  \/ \E r \in Requests, b \in Batches : Deliver(r, b)
  \/ \E r \in Requests : Refuse(r) \/ Step(r) \/ Crash(r)
  \/ \E o \in Sent : OutboundCommitted(o)

Spec == Init /\ [][Next]_vars

-----------------------------------------------------------------------------
TypeOK ==
  /\ recorded \in [Messages -> Requests \cup {None}]
  /\ leads \subseteq Senders
  /\ status \in [Sent -> Status \cup {"absent"}]
  /\ request \in [Requests -> Request]
  /\ queued \subseteq Messages \X Requests
  /\ ran \subseteq Messages \X Requests
  /\ acked \subseteq Batches
  /\ faults \in 0..MaxFaults

MessagesOf(b) == Range(Contents[b].messages)
RunsHere(m, r) == <<m, r>> \in ran \/ m \in Range(request[r].tasks)

(* A message starts one turn, however often and however concurrently Meta  *)
(* delivers it, plus one for each XADD whose reply was lost                *)
(* (ingestion.claim_inbound is the deduplication point).                   *)
HandedOverOnce ==
  \A m \in Messages :
    Cardinality({r \in Requests : <<m, r>> \in queued})
      + Cardinality({r \in Requests : RunsHere(m, r)}) <= 1 + faults

(* Meta gets its 200 only for messages whose row is committed: a message   *)
(* of a batch it will not deliver again is never missing from the          *)
(* transcript (webhooks.py: "acknowledges as soon as the message is safely *)
(* recorded").                                                             *)
AckedIsRecorded ==
  \A b \in acked : \A m \in MessagesOf(b) \ Unroutable : recorded[m] # None

(* Whoever runs a turn finds the row of its claim (webhooks.py: "Commit    *)
(* before dispatching").                                                   *)
DispatchedVisible ==
  \A m \in Messages, r \in Requests :
    <<m, r>> \in queued \/ RunsHere(m, r) => recorded[m] = r

(* A recorded message nobody will ever answer: its request is over, it was *)
(* handed to nobody, and another delivery of it would be a duplicate.      *)
Stranded ==
  {m \in Messages :
    \E r \in Requests : /\ recorded[m] = r
                        /\ request[r].pc \in {"done", "failed"}
                        /\ <<m, r>> \notin queued \cup ran}

(* Without a fault no recorded message is left unanswered, through races,  *)
(* conflicts and deadlocks between deliveries.                             *)
StrandedOnlyByFault == faults = 0 => Stranded = {}

(* No message is dropped on a crash (README.md).                           *)
NoneStranded == Stranded = {}

(* A message reported delivered, read or failed never looks merely sent    *)
(* again, whatever deliveries of receipts overlap: a receipt that only     *)
(* says SENT changes nothing.                                              *)
NeverUndelivered ==
  [][\A o \in Sent : StatusOrder[status[o]] > StatusOrder.SENT
                        => StatusOrder[status'[o]] > StatusOrder.SENT]_vars

(* A receipt is lost only by being early: once a delivery with a receipt   *)
(* that says more than SENT is through, its message looks merely sent only *)
(* if a request read such a receipt before the turn that sent the message  *)
(* had committed (ingestion.py:311-320).                                   *)
Finished(r) == request[r].pc \in {"respond", "tasks", "done"}
ReceiptLostOnlyEarly ==
  \A r \in Requests : Finished(r) =>
    \A i \in DOMAIN Contents[request[r].batch].receipts :
      LET u == Contents[request[r].batch].receipts[i]
      IN u.status # "SENT" /\ status[u.to] = "SENT" =>
           \E q \in Requests : request[q].batch = request[r].batch /\ u.to \in request[q].missed

-----------------------------------------------------------------------------
(* Why these hold. TypeOK and NeverUndelivered need to know what each      *)
(* stage of a request may still hold, and that a session only writes a     *)
(* status it saw move up.                                                  *)
Opened == {"open", "lead", "newlead", "insert"}
Handing == {"dispatch", "group", "enqueue"}
Committed(r) == request[r].pc \in Handing \cup {"respond", "tasks", "done"}
BeyondSent == {"DELIVERED", "READ", "FAILED"}

ShapeOf(req) ==
  /\ req.pc = "idle" => req = NoRequest
  /\ req.pc \notin {"idle", "failed"} => req.batch \in Batches
  /\ req.pc \in Opened \ {"open"} => req.receipts = <<>> /\ req.messages # <<>>
  /\ req.pc \in Handing => req.claims # <<>>
  /\ req.pc \in {"respond", "tasks", "done", "failed"} => req.claims = <<>>
  /\ req.tasks # <<>> => req.pc \in {"enqueue", "respond", "tasks"}
  /\ req.pc = "tasks" => req.tasks # <<>>
  /\ req.pc \notin Opened => req.rows = {} /\ req.newleads = {} /\ req.dirty = {}
  /\ \A o \in req.dirty : req.view[o] \in BeyondSent

Shape == \A r \in Requests : ShapeOf(request[r])

Base == TypeOK /\ Shape

(* The others also need that Meta repeats a delivery as it was: then the   *)
(* messages of a batch are recorded together or not at all, and a request  *)
(* that loses the race for one of them has claimed none of the others. Of  *)
(* two batches that share a message, the loser's rollback would take the   *)
(* rows of claims that are handed over all the same.                       *)
WholeBatches ==
  \A b, c \in Batches : b # c => MessagesOf(b) \cap MessagesOf(c) \subseteq Unroutable

RoutableOf(b) == MessagesOf(b) \ Unroutable
ReceiptsOf(b) == Range(Contents[b].receipts)

AllOrNone ==
  \A b \in Batches : \/ \A m \in RoutableOf(b) : recorded[m] # None
                     \/ \A m \in RoutableOf(b) : recorded[m] = None

(* Uncommitted rows are of unrecorded messages and nobody else's.          *)
RowsFresh ==
  \A r \in Requests : \A m \in request[r].rows :
    /\ m \in RoutableOf(request[r].batch) /\ recorded[m] = None
    /\ \A q \in Requests : q # r => m \notin request[q].rows

(* An open request has passed over no message that nobody records, and its *)
(* claims are the rows its transaction holds.                              *)
NothingSkipped ==
  \A r \in Requests : request[r].pc \in Opened =>
    /\ Range(request[r].messages) \subseteq MessagesOf(request[r].batch)
    /\ request[r].pc # "open" => Claiming(r) \notin Unroutable
    /\ \A m \in RoutableOf(request[r].batch) :
         m \in Range(request[r].messages) \cup request[r].rows \/ recorded[m] # None
    /\ Range(request[r].claims) = request[r].rows

(* What is committed or acknowledged is recorded, and every claim, queued, *)
(* run or about to be, is its request's own.                               *)
Complete ==
  \A r \in Requests : Committed(r) => \A m \in RoutableOf(request[r].batch) : recorded[m] # None

Owned ==
  \A r \in Requests, m \in Messages :
    /\ request[r].pc \notin Opened /\ m \in Range(request[r].claims) => recorded[m] = r
    /\ recorded[m] = r => Committed(r) \/ request[r].pc = "failed"

(* A claim goes to the queue or to a task, and to both or to neither only  *)
(* after a fault.                                                          *)
Either ==
  \A r \in Requests, m \in Messages :
    /\ RunsHere(m, r) /\ QueueEnabled => faults > 0
    /\ ~QueueEnabled => <<m, r>> \notin queued /\ request[r].pc \notin {"group", "enqueue"}
    /\ recorded[m] = r /\ faults = 0 =>
         <<m, r>> \in queued \/ RunsHere(m, r) \/ m \in Range(request[r].claims)

Claims == /\ AllOrNone /\ RowsFresh /\ NothingSkipped /\ Complete /\ Owned /\ Either
          /\ AckedIsRecorded /\ DispatchedVisible

(* A receipt counts once its message is beyond SENT or the receipt was too *)
(* early; it is not lost between the request that read it and its commit.  *)
KeptBy(statuses, requests, u, b) ==
  \/ u.status = "SENT" \/ statuses[u.to] \in BeyondSent
  \/ \E q \in Requests : requests[q].batch = b /\ u.to \in requests[q].missed

Kept(u, b) == KeptBy(status, request, u, b)

ReceiptsKept ==
  /\ \A r \in Requests : request[r].pc \in Opened =>
       /\ Range(request[r].receipts) \subseteq ReceiptsOf(request[r].batch)
       /\ \A u \in ReceiptsOf(request[r].batch) :
            \/ u \in Range(request[r].receipts) \/ u.to \in request[r].dirty
            \/ Kept(u, request[r].batch)
  /\ \A r \in Requests : Committed(r) =>
       \A u \in ReceiptsOf(request[r].batch) : Kept(u, request[r].batch)
  /\ \A b \in Batches : \A m \in RoutableOf(b) :
       recorded[m] # None => \A u \in ReceiptsOf(b) : Kept(u, b)
  /\ \A r \in Requests, o \in Sent :
       request[r].view[o] \in BeyondSent => o \in request[r].dirty \/ status[o] \in BeyondSent

IInv == Base /\ Claims /\ ReceiptsKept
=============================================================================
