--------------------------- MODULE IngestionProofs ---------------------------
(***************************************************************************)
(* Proofs about Ingestion for any requests, batches and messages.          *)
(***************************************************************************)
EXTENDS Ingestion, OrderLemmas, FiniteSetTheorems

(* Records of a request that agree on what they still have to read, on     *)
(* what the open transaction holds, and on what is to be handed over.      *)
SameWork(v, w) == v.receipts = w.receipts /\ v.messages = w.messages
SameTransaction(v, w) ==
  v.view = w.view /\ v.dirty = w.dirty /\ v.rows = w.rows /\ v.newleads = w.newleads
SameClaims(v, w) == v.claims = w.claims /\ v.tasks = w.tasks
SameBatch(v, w) == v.batch = w.batch /\ v.missed = w.missed

-----------------------------------------------------------------------------
(* What the handlers do to their request's record.                         *)
LEMMA NoRequestType ==
  /\ NoRequest \in Request
  /\ NoRequest.pc = "idle" /\ NoRequest.batch = None /\ NoRequest.view = Unread
  /\ NoRequest.receipts = <<>> /\ NoRequest.messages = <<>>
  /\ NoRequest.claims = <<>> /\ NoRequest.tasks = <<>>
  /\ NoRequest.rows = {} /\ NoRequest.newleads = {} /\ NoRequest.dirty = {}
  /\ NoRequest.missed = {}
<1> DEFINE none == <<>>
<1>1. none \in Seq(Receipt) /\ none \in Seq(Messages)
  BY RangeEmpty
<1>2. Unread \in [Sent -> Status \cup {"unread"}]
  BY DEF Unread
<1> HIDE DEF none
<1>3. NoRequest = [pc |-> "idle", batch |-> None, receipts |-> none, messages |-> none,
              view |-> Unread, dirty |-> {}, newleads |-> {}, rows |-> {},
              claims |-> none, tasks |-> none, missed |-> {}]
  BY DEF none, NoRequest
<1>4. /\ NoRequest \in Request
      /\ NoRequest.pc = "idle" /\ NoRequest.batch = None /\ NoRequest.view = Unread
      /\ NoRequest.receipts = none /\ NoRequest.messages = none
      /\ NoRequest.claims = none /\ NoRequest.tasks = none
      /\ NoRequest.rows = {} /\ NoRequest.newleads = {} /\ NoRequest.dirty = {}
      /\ NoRequest.missed = {}
  BY <1>1, <1>2, <1>3 DEF Request, PC
<1> QED BY <1>4 DEF none

LEMMA DeliverDoes ==
  ASSUME NEW r \in Requests, NEW b \in Batches, Deliver(r, b)
  PROVE  \E v \in Request :
           /\ Set(r, v) /\ v.pc = "open" /\ v.batch = b
           /\ v.receipts = Contents[b].receipts /\ v.messages = Contents[b].messages
           /\ v.view = Unread /\ v.dirty = {} /\ v.rows = {} /\ v.newleads = {}
           /\ v.claims = <<>> /\ v.tasks = <<>> /\ v.missed = {}
<1> DEFINE rs == Contents[b].receipts
           ms == Contents[b].messages
           v == [NoRequest EXCEPT !.pc = "open", !.batch = b, !.receipts = rs, !.messages = ms]
<1>1. rs \in Seq(Receipt) /\ ms \in Seq(Messages)
  BY IngestionAssumption
<1>2. Set(r, v)
  BY DEF Deliver
<1> HIDE DEF rs, ms
<1>3. /\ v \in Request /\ v.pc = "open" /\ v.batch = b /\ v.receipts = rs /\ v.messages = ms
      /\ v.view = NoRequest.view /\ v.dirty = NoRequest.dirty /\ v.rows = NoRequest.rows
      /\ v.newleads = NoRequest.newleads /\ v.claims = NoRequest.claims
      /\ v.tasks = NoRequest.tasks /\ v.missed = NoRequest.missed
  BY <1>1, NoRequestType DEF Request, PC
<1> HIDE DEF v
<1>4. PICK new : new = v
  OBVIOUS
<1> QED BY <1>2, <1>3, <1>4, NoRequestType DEF rs, ms

(* A request that only moves on.                                           *)
LEMMA GotoDoes ==
  ASSUME TypeOK, NEW r \in Requests, NEW pc \in PC, Goto(r, pc)
  PROVE  \E v \in Request :
           /\ Set(r, v) /\ v.pc = pc /\ SameWork(v, request[r])
           /\ SameTransaction(v, request[r]) /\ SameClaims(v, request[r])
           /\ SameBatch(v, request[r])
<1> DEFINE v == [request[r] EXCEPT !.pc = pc]
<1>1. request[r] \in Request /\ request \in [Requests -> Request]
  BY DEF TypeOK
<1>2. /\ v \in Request /\ v.pc = pc /\ SameWork(v, request[r])
      /\ SameTransaction(v, request[r]) /\ SameClaims(v, request[r])
      /\ SameBatch(v, request[r])
  BY <1>1 DEF Request, SameWork, SameTransaction, SameClaims, SameBatch
<1>3. Set(r, v)
  BY DEF Goto, Set
<1> QED BY <1>2, <1>3

(* The record after a receipt was read.                                    *)
LEMMA ReadReceiptDoes ==
  ASSUME TypeOK, NEW r \in Requests, ReadReceipt(r)
  PROVE  \E u \in Receipt, v \in Request :
           /\ u = Head(request[r].receipts)
           /\ Set(r, v) /\ v.pc = "open" /\ v.receipts = Tail(request[r].receipts)
           /\ v.messages = request[r].messages
           /\ v.rows = request[r].rows /\ v.newleads = request[r].newleads
           /\ SameClaims(v, request[r]) /\ v.batch = request[r].batch
           /\ \/ /\ v.missed = request[r].missed \cup {u.to}
                 /\ v.view = request[r].view /\ v.dirty = request[r].dirty
              \/ /\ Supersedes(u.status, Known(r, u.to)) /\ v.missed = request[r].missed
                 /\ Known(r, u.to) # "absent"
                 /\ v.view = [request[r].view EXCEPT ![u.to] = u.status]
                 /\ v.dirty = request[r].dirty \cup {u.to}
              \/ /\ ~Supersedes(u.status, Known(r, u.to)) /\ v.missed = request[r].missed
                 /\ Known(r, u.to) # "absent"
                 /\ v.view = [request[r].view EXCEPT ![u.to] = Known(r, u.to)]
                 /\ v.dirty = request[r].dirty
<1> DEFINE w == request[r]
           u == Head(w.receipts)
           known == Known(r, u.to)
           t == Tail(w.receipts)
           rest == [w EXCEPT !.receipts = t]
<1>1. w \in Request /\ w.receipts # <<>> /\ w.pc = "open"
  BY DEF TypeOK, ReadReceipt, At
<1>2. u \in Receipt /\ t \in Seq(Receipt)
  <2>1. w.receipts \in Seq(Receipt)
    BY <1>1 DEF Request
  <2> QED BY <1>1, <2>1, RangeTail
<1>3. u.to \in Sent /\ u.status \in Status
  BY <1>2 DEF Receipt
<1>4. known \in Status \cup {"absent"}
  <2>1. w.view[u.to] \in Status \cup {"unread"} /\ status[u.to] \in Status \cup {"absent"}
    BY <1>1, <1>3 DEF Request, TypeOK
  <2> QED BY <2>1 DEF Known
<1>5. Set(r, CASE known = "absent" -> [rest EXCEPT !.missed = @ \cup {u.to}]
               [] known # "absent" /\ Supersedes(u.status, known) ->
                    [rest EXCEPT !.view[u.to] = u.status, !.dirty = @ \cup {u.to}]
               [] OTHER -> [rest EXCEPT !.view[u.to] = known])
  BY <1>1 DEF ReadReceipt
<1> HIDE DEF u, known, t, w
<1>6. /\ rest \in Request /\ rest.receipts = t /\ rest.pc = "open" /\ rest.messages = w.messages
      /\ SameTransaction(rest, w) /\ SameClaims(rest, w) /\ SameBatch(rest, w)
  BY <1>1, <1>2 DEF Request, SameTransaction, SameClaims, SameBatch
<1> HIDE DEF rest
<1>7. CASE known = "absent"
  <2> DEFINE v == [rest EXCEPT !.missed = @ \cup {u.to}]
  <2>1. Set(r, v)
    BY <1>5, <1>7
  <2>2. /\ v \in Request /\ v.pc = "open" /\ v.receipts = t /\ v.messages = w.messages
        /\ SameTransaction(v, w) /\ SameClaims(v, w) /\ v.batch = w.batch
        /\ v.missed = w.missed \cup {u.to}
    BY <1>3, <1>6 DEF Request, SameTransaction, SameClaims, SameBatch
  <2> HIDE DEF v
  <2>3. PICK new \in Request : new = v
    BY <2>2
  <2> QED BY <1>2, <2>1, <2>2, <2>3 DEF u, t, w, SameTransaction
<1>8. CASE known # "absent" /\ Supersedes(u.status, known)
  <2> DEFINE v == [rest EXCEPT !.view[u.to] = u.status, !.dirty = @ \cup {u.to}]
  <2>1. Set(r, v)
    BY <1>5, <1>8
  <2>2. /\ v \in Request /\ v.pc = "open" /\ v.receipts = t /\ v.messages = w.messages
        /\ v.view = [w.view EXCEPT ![u.to] = u.status] /\ v.dirty = w.dirty \cup {u.to}
        /\ v.rows = w.rows /\ v.newleads = w.newleads
        /\ SameClaims(v, w) /\ SameBatch(v, w)
    BY <1>3, <1>6 DEF Request, SameTransaction, SameClaims, SameBatch
  <2> HIDE DEF v
  <2>3. PICK new \in Request : new = v
    BY <2>2
  <2> QED BY <1>2, <1>8, <2>1, <2>2, <2>3 DEF u, t, w, known, SameBatch
<1>9. CASE known # "absent" /\ ~Supersedes(u.status, known)
  <2> DEFINE v == [rest EXCEPT !.view[u.to] = known]
  <2>1. Set(r, v)
    BY <1>5, <1>9
  <2>2. /\ v \in Request /\ v.pc = "open" /\ v.receipts = t /\ v.messages = w.messages
        /\ v.view = [w.view EXCEPT ![u.to] = known] /\ v.dirty = w.dirty
        /\ v.rows = w.rows /\ v.newleads = w.newleads
        /\ SameClaims(v, w) /\ SameBatch(v, w)
    BY <1>3, <1>4, <1>6, <1>9 DEF Request, SameTransaction, SameClaims, SameBatch
  <2> HIDE DEF v
  <2>3. PICK new \in Request : new = v
    BY <2>2
  <2> QED BY <1>2, <1>9, <2>1, <2>2, <2>3 DEF u, t, w, known, SameBatch
<1> QED BY <1>7, <1>8, <1>9

(* The loop over the messages moves on.                                    *)
LEMMA NextMessageDoes ==
  ASSUME NEW w \in Request, w.messages # <<>>
  PROVE  /\ NextMessage(w) \in Request /\ NextMessage(w).pc = "open"
         /\ NextMessage(w).receipts = w.receipts
         /\ NextMessage(w).messages = Tail(w.messages)
         /\ SameTransaction(NextMessage(w), w) /\ SameClaims(NextMessage(w), w)
         /\ SameBatch(NextMessage(w), w)
<1> DEFINE t == Tail(w.messages)
           v == [w EXCEPT !.pc = "open", !.messages = t]
<1>1. t \in Seq(Messages)
  <2>1. w.messages \in Seq(Messages)
    BY DEF Request
  <2> QED BY <2>1, RangeTail
<1> HIDE DEF t
<1>2. /\ v \in Request /\ v.pc = "open" /\ v.receipts = w.receipts /\ v.messages = t
      /\ SameTransaction(v, w) /\ SameClaims(v, w) /\ SameBatch(v, w)
  BY <1>1 DEF Request, PC, SameTransaction, SameClaims, SameBatch
<1>3. NextMessage(w) = v
  BY DEF NextMessage, t
<1> HIDE DEF v
<1> QED BY <1>2, <1>3 DEF t

(* session.rollback and the end of a transaction.                          *)
LEMMA RolledBackDoes ==
  ASSUME NEW w \in Request
  PROVE  /\ RolledBack(w) \in Request /\ RolledBack(w).pc = w.pc
         /\ SameWork(RolledBack(w), w) /\ SameClaims(RolledBack(w), w)
         /\ SameBatch(RolledBack(w), w)
         /\ RolledBack(w).view = Unread /\ RolledBack(w).dirty = {}
         /\ RolledBack(w).rows = {} /\ RolledBack(w).newleads = {}
<1>1. Unread \in [Sent -> Status \cup {"unread"}]
  BY DEF Unread
<1> QED BY <1>1 DEF RolledBack, Request, SameWork, SameClaims, SameBatch

(* A request that dies keeps only what a reader of its log would know.     *)
LEMMA AbortDoes ==
  ASSUME TypeOK, NEW r \in Requests, Abort(r)
  PROVE  \E v \in Request :
           /\ Set(r, v) /\ v.pc = "failed" /\ SameBatch(v, request[r])
           /\ v.receipts = <<>> /\ v.messages = <<>> /\ v.claims = <<>> /\ v.tasks = <<>>
           /\ v.view = Unread /\ v.dirty = {} /\ v.rows = {} /\ v.newleads = {}
<1> DEFINE w == request[r]
           v == [NoRequest EXCEPT !.pc = "failed", !.batch = w.batch, !.missed = w.missed]
<1>1. w \in Request
  BY DEF TypeOK
<1>2. Set(r, v)
  BY DEF Abort
<1> HIDE DEF w
<1>3. /\ v \in Request /\ v.pc = "failed" /\ SameBatch(v, w)
      /\ v.receipts = NoRequest.receipts /\ v.messages = NoRequest.messages
      /\ v.claims = NoRequest.claims /\ v.tasks = NoRequest.tasks
      /\ v.view = NoRequest.view /\ v.dirty = NoRequest.dirty
      /\ v.rows = NoRequest.rows /\ v.newleads = NoRequest.newleads
  BY <1>1, NoRequestType DEF Request, PC, SameBatch
<1> HIDE DEF v
<1>4. PICK new : new = v
  OBVIOUS
<1> QED BY <1>2, <1>3, <1>4, NoRequestType DEF w

(* The insert of a new lead.                                               *)
LEMMA AddLeadDoes ==
  ASSUME TypeOK, Shape, NEW r \in Requests, AddLead(r), Sender(r) \notin leads
  PROVE  \E v \in Request :
           /\ Set(r, v) /\ v.pc = "insert" /\ SameWork(v, request[r])
           /\ SameClaims(v, request[r]) /\ SameBatch(v, request[r])
           /\ v.view = request[r].view /\ v.dirty = request[r].dirty
           /\ v.rows = request[r].rows
<1> DEFINE w == request[r]
           n == Sender(r)
           v == [w EXCEPT !.pc = "insert", !.newleads = @ \cup {n}]
<1>1. w \in Request /\ w.messages # <<>>
  BY DEF TypeOK, AddLead, At, Shape, ShapeOf, Opened
<1>2. n \in Senders
  <2>1. w.messages \in Seq(Messages)
    BY <1>1 DEF Request
  <2>2. Head(w.messages) \in Messages
    BY <1>1, <2>1, RangeTail
  <2> QED BY <2>2, IngestionAssumption DEF Sender, Claiming
<1>3. Set(r, v)
  BY DEF AddLead
<1> HIDE DEF w, n
<1>4. /\ v \in Request /\ v.pc = "insert" /\ SameWork(v, w) /\ SameClaims(v, w)
      /\ SameBatch(v, w) /\ v.view = w.view /\ v.dirty = w.dirty /\ v.rows = w.rows
  BY <1>1, <1>2 DEF Request, PC, SameWork, SameClaims, SameBatch
<1> HIDE DEF v
<1>5. PICK new : new = v
  OBVIOUS
<1> QED BY <1>3, <1>4, <1>5 DEF w

(* The flushed row and its claim.                                          *)
LEMMA RecordMessageDoes ==
  ASSUME TypeOK, Shape, NEW r \in Requests, RecordMessage(r)
  PROVE  \E v \in Request :
           /\ Set(r, v) /\ v.pc = "open" /\ v.receipts = request[r].receipts
           /\ v.messages = Tail(request[r].messages)
           /\ v.rows = request[r].rows \cup {Claiming(r)}
           /\ v.claims = Append(request[r].claims, Claiming(r))
           /\ v.tasks = request[r].tasks /\ SameBatch(v, request[r])
           /\ v.view = request[r].view /\ v.dirty = request[r].dirty
<1> DEFINE w == request[r]
           m == Claiming(r)
           next == NextMessage(w)
           cs == Append(w.claims, m)
           v == [next EXCEPT !.rows = @ \cup {m}, !.claims = cs]
<1>1. w \in Request /\ w.messages # <<>>
  BY DEF TypeOK, RecordMessage, At, Shape, ShapeOf, Opened
<1>2. m \in Messages
  <2>1. w.messages \in Seq(Messages)
    BY <1>1 DEF Request
  <2> QED BY <1>1, <2>1, RangeTail DEF Claiming
<1>3. next \in Request /\ next.pc = "open"
      /\ next.receipts = w.receipts /\ next.messages = Tail(w.messages)
      /\ SameTransaction(next, w) /\ SameClaims(next, w) /\ SameBatch(next, w)
  BY <1>1, NextMessageDoes
<1>4. cs \in Seq(Messages)
  <2>1. w.claims \in Seq(Messages)
    BY <1>1 DEF Request
  <2> QED BY <1>2, <2>1, RangeAppend
<1>5. Set(r, v)
  BY <1>3 DEF RecordMessage, SameClaims
<1> HIDE DEF w, m, next, cs
<1>6. /\ v \in Request /\ v.pc = "open" /\ v.receipts = w.receipts
      /\ v.messages = Tail(w.messages) /\ v.rows = w.rows \cup {m} /\ v.claims = cs
      /\ v.tasks = w.tasks /\ SameBatch(v, w) /\ v.view = w.view /\ v.dirty = w.dirty
  BY <1>2, <1>3, <1>4 DEF Request, SameTransaction, SameClaims, SameBatch
<1> HIDE DEF v
<1>7. PICK new : new = v
  OBVIOUS
<1> QED BY <1>5, <1>6, <1>7 DEF w, m, cs

(* The loser of the race for a message rolls back and goes on.             *)
LEMMA LoseRaceDoes ==
  ASSUME TypeOK, Shape, NEW r \in Requests, LoseRace(r)
  PROVE  \E v \in Request :
           /\ Set(r, v) /\ v.pc = "open" /\ v.receipts = request[r].receipts
           /\ v.messages = Tail(request[r].messages)
           /\ SameClaims(v, request[r]) /\ SameBatch(v, request[r])
           /\ v.view = Unread /\ v.dirty = {} /\ v.rows = {} /\ v.newleads = {}
<1> DEFINE w == request[r]
           b == RolledBack(w)
           v == NextMessage(b)
<1>1. w \in Request /\ w.messages # <<>>
  BY DEF TypeOK, LoseRace, At, Shape, ShapeOf, Opened
<1>2. /\ b \in Request /\ SameWork(b, w) /\ SameClaims(b, w) /\ SameBatch(b, w)
      /\ b.view = Unread /\ b.dirty = {} /\ b.rows = {} /\ b.newleads = {}
  BY <1>1, RolledBackDoes
<1>3. Set(r, v)
  BY DEF LoseRace
<1> HIDE DEF w, b
<1>4. b.messages # <<>>
  BY <1>1, <1>2 DEF SameWork
<1>5. /\ v \in Request /\ v.pc = "open" /\ v.receipts = b.receipts
      /\ v.messages = Tail(b.messages)
      /\ SameTransaction(v, b) /\ SameClaims(v, b) /\ SameBatch(v, b)
  BY <1>2, <1>4, NextMessageDoes
<1> HIDE DEF v
<1>6. PICK new : new = v
  OBVIOUS
<1> QED BY <1>2, <1>3, <1>5, <1>6 DEF w, SameWork, SameTransaction, SameClaims, SameBatch

(* The commit closes the transaction and leaves the claims to hand over.   *)
LEMMA CommitDoes ==
  ASSUME TypeOK, NEW r \in Requests, Commit(r)
  PROVE  \E v \in Request :
           /\ Set(r, v) /\ v.pc = IF request[r].claims = <<>> THEN "respond" ELSE "dispatch"
           /\ SameClaims(v, request[r]) /\ SameBatch(v, request[r])
           /\ v.view = Unread /\ v.dirty = {} /\ v.rows = {} /\ v.newleads = {}
<1> DEFINE w == request[r]
           b == RolledBack(w)
           p == IF w.claims = <<>> THEN "respond" ELSE "dispatch"
           v == [b EXCEPT !.pc = p]
<1>1. w \in Request
  BY DEF TypeOK
<1>2. /\ b \in Request /\ SameClaims(b, w) /\ SameBatch(b, w)
      /\ b.view = Unread /\ b.dirty = {} /\ b.rows = {} /\ b.newleads = {}
  BY <1>1, RolledBackDoes
<1>3. Set(r, v)
  BY DEF Commit
<1>4. p \in PC
  BY DEF PC
<1> HIDE DEF w, b, p
<1>5. /\ v \in Request /\ v.pc = p /\ SameClaims(v, b) /\ SameBatch(v, b)
      /\ SameTransaction(v, b)
  BY <1>2, <1>4 DEF Request, SameTransaction, SameClaims, SameBatch
<1> HIDE DEF v
<1>6. PICK new : new = v
  OBVIOUS
<1> QED BY <1>2, <1>3, <1>5, <1>6 DEF w, p, SameTransaction, SameClaims, SameBatch

(* Without Redis every claim becomes a task.                               *)
LEMMA RunHereDoes ==
  ASSUME TypeOK, NEW r \in Requests, RunHere(r)
  PROVE  \E v \in Request :
           /\ Set(r, v) /\ v.pc = "respond" /\ SameBatch(v, request[r])
           /\ SameTransaction(v, request[r])
           /\ v.tasks = request[r].claims /\ v.claims = <<>>
<1> DEFINE w == request[r]
           none == <<>>
           v == [w EXCEPT !.pc = "respond", !.tasks = w.claims, !.claims = none]
<1>1. w \in Request
  BY DEF TypeOK
<1>2. none \in Seq(Messages)
  BY RangeEmpty
<1>3. Set(r, v)
  BY DEF RunHere
<1> HIDE DEF w, none
<1>4. /\ v \in Request /\ v.pc = "respond" /\ SameBatch(v, w) /\ SameTransaction(v, w)
      /\ v.tasks = w.claims /\ v.claims = none
  BY <1>1, <1>2 DEF Request, PC, SameTransaction, SameBatch
<1> HIDE DEF v
<1>5. PICK new : new = v
  OBVIOUS
<1> QED BY <1>3, <1>4, <1>5 DEF w, none

(* The claim at the head was queued, or failed to be and is a task too.    *)
LEMMA EnqueueDoes ==
  ASSUME TypeOK, Shape, NEW r \in Requests, Enqueue(r) \/ EnqueueFails(r)
  PROVE  /\ Head(request[r].claims) \in Messages
         /\ Range(request[r].claims) =
              {Head(request[r].claims)} \cup Range(Tail(request[r].claims))
         /\ \E v \in Request :
              /\ Set(r, v) /\ v.pc \in {"respond", "enqueue"} /\ SameBatch(v, request[r])
              /\ SameTransaction(v, request[r])
              /\ v.claims = Tail(request[r].claims)
              /\ v.pc = "respond" <=> v.claims = <<>>
              /\ \/ Enqueue(r) /\ v.tasks = request[r].tasks
                 \/ /\ EnqueueFails(r)
                    /\ v.tasks = Append(request[r].tasks, Head(request[r].claims))
<1> DEFINE w == request[r]
           t == Tail(w.claims)
           h == Head(w.claims)
           p == IF Len(w.claims) = 1 THEN "respond" ELSE "enqueue"
           ts == Append(w.tasks, h)
           d == [w EXCEPT !.claims = t, !.pc = p]
           f == [d EXCEPT !.tasks = Append(@, h)]
<1>1. w \in Request /\ w.claims # <<>>
  BY DEF TypeOK, Enqueue, EnqueueFails, At, Shape, ShapeOf, Handing
<1>2. w.claims \in Seq(Messages) /\ w.tasks \in Seq(Messages)
  BY <1>1 DEF Request
<1>3. /\ t \in Seq(Messages) /\ (t = <<>> <=> Len(w.claims) = 1) /\ h \in Messages
      /\ Range(w.claims) = {h} \cup Range(t)
  BY <1>1, <1>2, RangeTail
<1>4. p \in {"respond", "enqueue"} /\ (p = "respond" <=> t = <<>>)
  BY <1>3
<1>5. ts \in Seq(Messages)
  BY <1>2, <1>3, RangeAppend
<1>6. (Set(r, d) /\ Enqueue(r)) \/ (Set(r, f) /\ EnqueueFails(r))
  <2>1. d = Dispatched(w)
    BY DEF Dispatched
  <2> HIDE DEF d
  <2>2. Enqueue(r) => Set(r, d)
    BY <2>1 DEF Enqueue
  <2>3. f = [Dispatched(request[r]) EXCEPT !.tasks = Append(@, Head(request[r].claims))]
    BY <2>1
  <2> HIDE DEF f
  <2>4. EnqueueFails(r) => Set(r, f)
    BY <2>3 DEF EnqueueFails
  <2> QED BY <2>2, <2>4
<1> HIDE DEF t, h, p, w
<1>7. /\ d \in Request /\ d.pc = p /\ SameBatch(d, w) /\ SameTransaction(d, w)
      /\ d.claims = t /\ d.tasks = w.tasks
  BY <1>1, <1>3, <1>4 DEF Request, PC, SameTransaction, SameBatch
<1> HIDE DEF d
<1>8. f = [d EXCEPT !.tasks = ts]
  BY <1>7 DEF Request
<1> HIDE DEF ts
<1>9. /\ f \in Request /\ f.pc = p /\ SameBatch(f, w) /\ SameTransaction(f, w)
      /\ f.claims = t /\ f.tasks = ts
  BY <1>5, <1>7, <1>8 DEF Request, SameTransaction, SameBatch
<1> HIDE DEF f
<1>10. PICK new : new = d
  OBVIOUS
<1>11. PICK nef : nef = f
  OBVIOUS
<1>12. CASE Set(r, d) /\ Enqueue(r)
  BY <1>3, <1>4, <1>7, <1>10, <1>12 DEF w, t, h
<1>13. CASE Set(r, f) /\ EnqueueFails(r)
  BY <1>3, <1>4, <1>9, <1>11, <1>13 DEF w, t, h, ts
<1> QED BY <1>6, <1>12, <1>13

(* A task of the API process ran.                                          *)
LEMMA RunTaskDoes ==
  ASSUME TypeOK, Shape, NEW r \in Requests, RunTask(r)
  PROVE  \E v \in Request :
           /\ Set(r, v) /\ v.pc \in {"done", "tasks"} /\ SameBatch(v, request[r])
           /\ SameTransaction(v, request[r])
           /\ v.claims = request[r].claims /\ v.tasks = Tail(request[r].tasks)
           /\ v.pc = "done" <=> v.tasks = <<>>
<1> DEFINE w == request[r]
           t == Tail(w.tasks)
           p == IF Len(w.tasks) = 1 THEN "done" ELSE "tasks"
           v == [w EXCEPT !.tasks = t, !.pc = p]
<1>1. w \in Request /\ w.tasks # <<>>
  BY DEF TypeOK, RunTask, At, Shape, ShapeOf
<1>2. t \in Seq(Messages) /\ (t = <<>> <=> Len(w.tasks) = 1)
  <2>1. w.tasks \in Seq(Messages)
    BY <1>1 DEF Request
  <2> QED BY <1>1, <2>1, RangeTail
<1>3. p \in {"done", "tasks"} /\ (p = "done" <=> t = <<>>)
  BY <1>2
<1>4. Set(r, v)
  BY DEF RunTask
<1> HIDE DEF w, t, p
<1>5. /\ v \in Request /\ v.pc = p /\ SameBatch(v, w) /\ SameTransaction(v, w)
      /\ v.claims = w.claims /\ v.tasks = t
  BY <1>1, <1>2, <1>3 DEF Request, PC, SameTransaction, SameBatch
<1> HIDE DEF v
<1>6. PICK new : new = v
  OBVIOUS
<1> QED BY <1>3, <1>4, <1>5, <1>6 DEF w, t

-----------------------------------------------------------------------------
(* A step of one request that leaves its record in shape.                  *)
LEMMA BaseStep ==
  ASSUME Base, NEW r \in Requests, NEW v \in Request, Set(r, v), ShapeOf(v),
         recorded' \in [Messages -> Requests \cup {None}], leads' \subseteq Senders,
         status' \in [Sent -> Status \cup {"absent"}],
         queued' \subseteq Messages \X Requests, ran' \subseteq Messages \X Requests,
         acked' \subseteq Batches, faults' \in 0..MaxFaults
  PROVE  Base'
<1>1. /\ request' = [request EXCEPT ![r] = v]
      /\ request \in [Requests -> Request]
  BY DEF Set, Base, TypeOK
<1>2. TypeOK'
  BY <1>1 DEF TypeOK
<1>3. Shape'
  <2>1. ASSUME NEW q \in Requests PROVE ShapeOf(request'[q])
    BY <1>1 DEF Base, Shape
  <2> QED BY <2>1 DEF Shape, ShapeOf
<1> QED BY <1>2, <1>3 DEF Base

LEMMA InitBase == Init => Base
<1> SUFFICES ASSUME Init PROVE Base
  OBVIOUS
<1>1. NoRequest \in Request /\ ShapeOf(NoRequest)
  BY NoRequestType DEF ShapeOf, Opened, Handing
<1>2. \A r \in Requests : request[r] = NoRequest
  BY DEF Init
<1>3. TypeOK
  BY <1>1, IngestionAssumption DEF Init, TypeOK
<1>4. Shape
  BY <1>1, <1>2 DEF Shape
<1> QED BY <1>3, <1>4 DEF Base

(* Where the receipt order puts the statuses.                              *)
LEMMA RankOfStatus ==
  /\ \A s \in Status : StatusOrder[s] \in Nat
  /\ \A s \in Status : s \in BeyondSent <=> StatusOrder[s] > StatusOrder.SENT
  /\ \A s \in Status \cup {"absent"} : s \in BeyondSent <=> StatusOrder[s] > StatusOrder.SENT
  /\ \A s, t \in Status : Supersedes(s, t) => s \in BeyondSent
  /\ \A s, t \in Status : ~Supersedes(s, t) /\ s \in BeyondSent => t \in BeyondSent
BY DEF StatusOrder, Status, BeyondSent, Supersedes

(* Every step keeps the types and the shape of every request.              *)
LEMMA NextBase == Base /\ [Next]_vars => Base'
<1> SUFFICES ASSUME Base, [Next]_vars PROVE Base'
  OBVIOUS
<1>t. /\ TypeOK /\ Shape
      /\ recorded \in [Messages -> Requests \cup {None}] /\ leads \subseteq Senders
      /\ status \in [Sent -> Status \cup {"absent"}]
      /\ queued \subseteq Messages \X Requests /\ ran \subseteq Messages \X Requests
      /\ acked \subseteq Batches /\ faults \in 0..MaxFaults
      /\ \A r \in Requests : request[r] \in Request /\ ShapeOf(request[r])
  BY DEF Base, TypeOK, Shape
<1>1. ASSUME NEW r \in Requests, NEW b \in Batches, Deliver(r, b) PROVE Base'
  <2>1. PICK v \in Request :
           /\ Set(r, v) /\ v.pc = "open" /\ v.batch = b /\ v.dirty = {} /\ v.tasks = <<>>
    BY <1>1, DeliverDoes
  <2>2. ShapeOf(v)
    BY <2>1 DEF ShapeOf, Opened, Handing
  <2> QED BY <1>1, <1>t, <2>1, <2>2, BaseStep DEF Deliver
<1>2. ASSUME NEW r \in Requests, NEW pc \in PC, Goto(r, pc),
             UNCHANGED <<recorded, leads, status, queued, ran, faults>>,
             acked' \subseteq Batches,
             \A v \in Request :
               (/\ v.pc = pc /\ SameWork(v, request[r]) /\ SameTransaction(v, request[r])
                /\ SameClaims(v, request[r]) /\ SameBatch(v, request[r])) => ShapeOf(v)
      PROVE  Base'
  <2>1. PICK v \in Request :
           /\ Set(r, v) /\ v.pc = pc /\ SameWork(v, request[r])
           /\ SameTransaction(v, request[r]) /\ SameClaims(v, request[r])
           /\ SameBatch(v, request[r])
    BY <1>2, <1>t, GotoDoes
  <2> QED BY <1>2, <1>t, <2>1, BaseStep
<1>3. ASSUME NEW r \in Requests, Refuse(r) PROVE Base'
  BY <1>2, <1>3, <1>t, NoRequestType
     DEF Refuse, At, PC, ShapeOf, Opened, Handing, SameWork, SameTransaction, SameClaims, SameBatch
<1>4. ASSUME NEW r \in Requests, FindLead(r) \/ UseQueue(r) \/ EnsureGroup(r) PROVE Base'
  BY <1>2, <1>4, <1>t
     DEF FindLead, UseQueue, EnsureGroup, At, PC, ShapeOf, Opened, Handing,
         SameWork, SameTransaction, SameClaims, SameBatch
<1>5. ASSUME NEW r \in Requests, Respond(r) PROVE Base'
  <2>1. acked' \subseteq Batches
    BY <1>5, <1>t DEF Respond, At, ShapeOf
  <2> QED BY <1>2, <1>5, <1>t, <2>1
     DEF Respond, At, PC, ShapeOf, Opened, Handing, SameWork, SameTransaction, SameClaims, SameBatch
<1>6. ASSUME NEW r \in Requests, ReadReceipt(r) PROVE Base'
  <2>1. PICK u \in Receipt, v \in Request :
           /\ u = Head(request[r].receipts)
           /\ Set(r, v) /\ v.pc = "open" /\ v.receipts = Tail(request[r].receipts)
           /\ v.messages = request[r].messages
           /\ v.rows = request[r].rows /\ v.newleads = request[r].newleads
           /\ SameClaims(v, request[r]) /\ v.batch = request[r].batch
           /\ \/ /\ v.missed = request[r].missed \cup {u.to}
                 /\ v.view = request[r].view /\ v.dirty = request[r].dirty
              \/ /\ Supersedes(u.status, Known(r, u.to)) /\ v.missed = request[r].missed
                 /\ Known(r, u.to) # "absent"
                 /\ v.view = [request[r].view EXCEPT ![u.to] = u.status]
                 /\ v.dirty = request[r].dirty \cup {u.to}
              \/ /\ ~Supersedes(u.status, Known(r, u.to)) /\ v.missed = request[r].missed
                 /\ Known(r, u.to) # "absent"
                 /\ v.view = [request[r].view EXCEPT ![u.to] = Known(r, u.to)]
                 /\ v.dirty = request[r].dirty
    BY <1>6, <1>t, ReadReceiptDoes
  <2>2. u.to \in Sent /\ u.status \in Status
    BY DEF Receipt
  <2>3. request[r].view \in [Sent -> Status \cup {"unread"}] /\ request[r].pc = "open"
        /\ request[r].dirty \in SUBSET Sent
    BY <1>6, <1>t DEF Request, ReadReceipt, At
  <2>4. \A o \in request[r].dirty : request[r].view[o] \in BeyondSent
    BY <1>t DEF ShapeOf
  <2>5. Known(r, u.to) \in Status \cup {"absent"}
    BY <1>t, <2>2, <2>3 DEF Known
  <2>6. u.to \in request[r].dirty => Known(r, u.to) = request[r].view[u.to]
    BY <2>4 DEF Known, BeyondSent
  <2>7. \A o \in v.dirty : v.view[o] \in BeyondSent
    BY <2>1, <2>2, <2>3, <2>4, <2>5, <2>6, RankOfStatus
  <2>8. ShapeOf(v)
    BY <1>t, <2>1, <2>3, <2>7 DEF ShapeOf, Opened, Handing, SameClaims
  <2> QED BY <1>6, <1>t, <2>1, <2>8, BaseStep DEF ReadReceipt
<1>7. ASSUME NEW r \in Requests, Check(r) PROVE Base'
  <2>1. CASE Goto(r, "lead")
    BY <1>2, <1>7, <1>t, <2>1
       DEF Check, At, PC, ShapeOf, Opened, Handing, SameWork, SameTransaction, SameClaims, SameBatch
  <2>2. CASE Set(r, NextMessage(request[r]))
    <3> DEFINE v == NextMessage(request[r])
    <3>1. request[r].messages # <<>> /\ request[r].pc = "open" /\ request[r] \in Request
      BY <1>7, <1>t DEF Check, At
    <3>2. /\ v \in Request /\ v.pc = "open" /\ SameTransaction(v, request[r])
          /\ SameClaims(v, request[r]) /\ SameBatch(v, request[r])
      BY <3>1, NextMessageDoes
    <3> HIDE DEF v
    <3>3. ShapeOf(v)
      BY <1>t, <3>1, <3>2 DEF ShapeOf, Opened, Handing, SameTransaction, SameClaims, SameBatch
    <3>4. Set(r, v)
      BY <2>2 DEF v
    <3> QED BY <1>7, <1>t, <3>2, <3>3, <3>4, BaseStep DEF Check
  <2> QED BY <1>7, <2>1, <2>2 DEF Check
<1>8. ASSUME NEW r \in Requests, Abort(r), request[r].pc # "idle",
             UNCHANGED <<recorded, leads, status, queued, ran, acked>>,
             faults' \in 0..MaxFaults
      PROVE  Base'
  <2>1. PICK v \in Request :
           /\ Set(r, v) /\ v.pc = "failed" /\ v.claims = <<>> /\ v.tasks = <<>>
           /\ v.dirty = {} /\ v.rows = {} /\ v.newleads = {}
    BY <1>8, <1>t, AbortDoes
  <2>2. ShapeOf(v)
    BY <2>1 DEF ShapeOf, Opened, Handing
  <2> QED BY <1>8, <1>t, <2>1, <2>2, BaseStep
<1>9. ASSUME NEW r \in Requests, AddLead(r) PROVE Base'
  <2>1. CASE Sender(r) \in leads
    BY <1>8, <1>9, <1>t, <2>1 DEF AddLead, At
  <2>2. CASE Sender(r) \notin leads
    <3>1. PICK v \in Request :
           /\ Set(r, v) /\ v.pc = "insert" /\ SameWork(v, request[r])
           /\ SameClaims(v, request[r]) /\ SameBatch(v, request[r])
           /\ v.view = request[r].view /\ v.dirty = request[r].dirty
      BY <1>9, <1>t, <2>2, AddLeadDoes
    <3>2. ShapeOf(v)
      BY <1>9, <1>t, <3>1 DEF AddLead, At, ShapeOf, Opened, Handing, SameWork, SameClaims, SameBatch
    <3> QED BY <1>9, <1>t, <3>1, <3>2, BaseStep DEF AddLead
  <2> QED BY <2>1, <2>2
<1>10. ASSUME NEW r \in Requests, RecordMessage(r) \/ LoseRace(r) PROVE Base'
  <2>1. PICK v \in Request :
           /\ Set(r, v) /\ v.pc = "open" /\ v.tasks = request[r].tasks
           /\ SameBatch(v, request[r])
           /\ \/ v.view = request[r].view /\ v.dirty = request[r].dirty
              \/ v.dirty = {}
    BY <1>10, <1>t, RecordMessageDoes, LoseRaceDoes DEF SameClaims
  <2>2. ShapeOf(v)
    BY <1>10, <1>t, <2>1 DEF RecordMessage, LoseRace, At, ShapeOf, Opened, Handing, SameBatch
  <2> QED BY <1>10, <1>t, <2>1, <2>2, BaseStep DEF RecordMessage, LoseRace
<1>11. ASSUME NEW r \in Requests, DeadlockVictim(r) PROVE Base'
  <2>1. request[r].pc # "idle"
    BY <1>11 DEF DeadlockVictim, Deadlocked, WaitsFor, At
  <2> QED BY <1>8, <1>11, <1>t, <2>1 DEF DeadlockVictim
<1>12. ASSUME NEW r \in Requests, Commit(r) PROVE Base'
  <2>1. PICK v \in Request :
           /\ Set(r, v) /\ v.pc = IF request[r].claims = <<>> THEN "respond" ELSE "dispatch"
           /\ SameClaims(v, request[r]) /\ SameBatch(v, request[r])
           /\ v.view = Unread /\ v.dirty = {} /\ v.rows = {} /\ v.newleads = {}
    BY <1>12, <1>t, CommitDoes
  <2>2. ShapeOf(v)
    BY <1>12, <1>t, <2>1 DEF Commit, At, ShapeOf, Opened, Handing, SameClaims, SameBatch
  <2>3. request[r] \in Request /\ request[r].newleads \subseteq Senders
        /\ request[r].view \in [Sent -> Status \cup {"unread"}]
        /\ \A o \in request[r].dirty : request[r].view[o] \in Status
    BY <1>t DEF Request, ShapeOf, BeyondSent, Status
  <2>4. /\ recorded' \in [Messages -> Requests \cup {None}] /\ leads' \subseteq Senders
        /\ status' \in [Sent -> Status \cup {"absent"}]
    BY <1>12, <1>t, <2>3 DEF Commit
  <2>5. UNCHANGED <<queued, ran, acked, faults>>
    BY <1>12 DEF Commit
  <2> QED BY <1>t, <2>1, <2>2, <2>4, <2>5, BaseStep
<1>f. Fault => faults' \in 0..MaxFaults
  BY <1>t, IngestionAssumption DEF Fault
<1>13. ASSUME NEW r \in Requests, RunHere(r) PROVE Base'
  <2>1. PICK v \in Request :
           /\ Set(r, v) /\ v.pc = "respond" /\ SameBatch(v, request[r])
           /\ SameTransaction(v, request[r])
           /\ v.tasks = request[r].claims /\ v.claims = <<>>
    BY <1>13, <1>t, RunHereDoes
  <2>2. ShapeOf(v)
    BY <1>13, <1>t, <2>1 DEF RunHere, At, ShapeOf, Opened, Handing, SameTransaction, SameBatch
  <2>3. faults' \in 0..MaxFaults
    BY <1>13, <1>f, <1>t DEF RunHere
  <2> QED BY <1>13, <1>t, <2>1, <2>2, <2>3, BaseStep DEF RunHere
<1>14. ASSUME NEW r \in Requests, Enqueue(r) \/ EnqueueFails(r) PROVE Base'
  <2>1. Head(request[r].claims) \in Messages
    BY <1>14, <1>t, EnqueueDoes
  <2>2. PICK v \in Request :
           /\ Set(r, v) /\ v.pc \in {"respond", "enqueue"} /\ SameBatch(v, request[r])
           /\ SameTransaction(v, request[r])
           /\ v.pc = "respond" <=> v.claims = <<>>
    BY <1>14, <1>t, EnqueueDoes
  <2>3. ShapeOf(v)
    BY <1>14, <1>t, <2>2
       DEF Enqueue, EnqueueFails, At, ShapeOf, Opened, Handing, SameTransaction, SameBatch
  <2>4. queued' \subseteq Messages \X Requests /\ faults' \in 0..MaxFaults
    BY <1>14, <1>f, <1>t, <2>1 DEF Enqueue, EnqueueFails
  <2>5. UNCHANGED <<recorded, leads, status, ran, acked>>
    BY <1>14 DEF Enqueue, EnqueueFails
  <2> QED BY <1>t, <2>2, <2>3, <2>4, <2>5, BaseStep
<1>15. ASSUME NEW r \in Requests, RunTask(r) PROVE Base'
  <2>1. PICK v \in Request :
           /\ Set(r, v) /\ v.pc \in {"done", "tasks"} /\ SameBatch(v, request[r])
           /\ SameTransaction(v, request[r])
           /\ v.claims = request[r].claims
           /\ v.pc = "done" <=> v.tasks = <<>>
    BY <1>15, <1>t, RunTaskDoes
  <2>2. ShapeOf(v)
    BY <1>15, <1>t, <2>1 DEF RunTask, At, ShapeOf, Opened, Handing, SameTransaction, SameBatch
  <2>3. Head(request[r].tasks) \in Messages
    <3>1. request[r].tasks # <<>> /\ request[r].tasks \in Seq(Messages)
      BY <1>15, <1>t DEF RunTask, At, ShapeOf, Request
    <3> QED BY <3>1, RangeTail
  <2>4. ran' \subseteq Messages \X Requests
    BY <1>15, <1>t, <2>3 DEF RunTask
  <2> QED BY <1>15, <1>t, <2>1, <2>2, <2>4, BaseStep DEF RunTask
<1>16. ASSUME NEW r \in Requests, Crash(r) PROVE Base'
  BY <1>8, <1>16, <1>f, <1>t DEF Crash
<1>17. ASSUME NEW o \in Sent, OutboundCommitted(o) PROVE Base'
  <2>1. status' \in [Sent -> Status \cup {"absent"}]
    BY <1>17, <1>t DEF OutboundCommitted, Status
  <2>2. UNCHANGED <<recorded, leads, request, queued, ran, acked, faults>>
    BY <1>17 DEF OutboundCommitted
  <2> QED BY <1>t, <2>1, <2>2 DEF Base, TypeOK, Shape
<1>18. CASE UNCHANGED vars
  BY <1>18, <1>t DEF vars, Base, TypeOK, Shape
<1> QED
  BY <1>1, <1>3, <1>4, <1>5, <1>6, <1>7, <1>9, <1>10, <1>11, <1>12, <1>13, <1>14, <1>15,
     <1>16, <1>17, <1>18 DEF Next, Step

(* The webhook's variables always have their types.                        *)
THEOREM TypeCorrect == Spec => []TypeOK
<1>1. Base => TypeOK
  BY DEF Base
<1> QED BY <1>1, InitBase, NextBase, PTL DEF Spec

(* A message known to be delivered, read or failed never looks merely sent *)
(* again: a session writes only statuses it saw move up, and those are     *)
(* beyond SENT.                                                            *)
THEOREM DeliveredStays == Spec => NeverUndelivered
<1>1. ASSUME Base, [Next]_vars
      PROVE  \A o \in Sent : StatusOrder[status[o]] > StatusOrder.SENT
                              => StatusOrder[status'[o]] > StatusOrder.SENT
  <2>1. /\ status \in [Sent -> Status \cup {"absent"}]
        /\ status' \in [Sent -> Status \cup {"absent"}]
    BY <1>1, NextBase DEF Base, TypeOK
  <2>2. ASSUME NEW o \in Sent, status[o] \in BeyondSent PROVE status'[o] \in BeyondSent
    <3>1. ASSUME NEW r \in Requests, Commit(r) PROVE status'[o] \in BeyondSent
      <4>1. o \in request[r].dirty => request[r].view[o] \in BeyondSent
        BY <1>1 DEF Base, Shape, ShapeOf
      <4> QED BY <2>2, <3>1, <4>1 DEF Commit
    <3>2. ASSUME NEW p \in Sent, OutboundCommitted(p) PROVE status'[o] \in BeyondSent
      BY <2>1, <2>2, <3>2 DEF OutboundCommitted, BeyondSent
    <3>3. status' = status => status'[o] \in BeyondSent
      BY <2>2
    <3>4. \/ \E r \in Requests : Commit(r)
          \/ \E p \in Sent : OutboundCommitted(p)
          \/ status' = status
      BY <1>1 DEF Next, Step, vars, Deliver, Refuse, ReadReceipt, Check, FindLead, AddLead,
                  RecordMessage, LoseRace, DeadlockVictim, UseQueue, RunHere, EnsureGroup,
                  Enqueue, EnqueueFails, Respond, RunTask, Crash
    <3> QED BY <3>1, <3>2, <3>3, <3>4
  <2> QED BY <2>1, <2>2, RankOfStatus
<1> QED BY <1>1, InitBase, NextBase, PTL DEF Spec, NeverUndelivered

-----------------------------------------------------------------------------
(* What a batch holds.                                                     *)
LEMMA BatchTypes ==
  ASSUME NEW b \in Batches
  PROVE  /\ MessagesOf(b) \subseteq Messages /\ RoutableOf(b) \subseteq Messages
         /\ \A u \in ReceiptsOf(b) : u \in Receipt /\ u.to \in Sent /\ u.status \in Status
<1>1. Contents[b].messages \in Seq(Messages) /\ Contents[b].receipts \in Seq(Receipt)
  BY IngestionAssumption
<1>2. MessagesOf(b) \subseteq Messages
  BY <1>1 DEF MessagesOf, Range
<1>3. ReceiptsOf(b) \subseteq Receipt
  BY <1>1 DEF ReceiptsOf, Range
<1> QED BY <1>2, <1>3 DEF RoutableOf, Receipt

(* A receipt that counts goes on counting: statuses beyond SENT stay there *)
(* and nobody forgets a receipt that came too early.                       *)
LEMMA KeptStays ==
  ASSUME NEW b, NEW u, u.to \in Sent,
         \A o \in Sent : status[o] \in BeyondSent => status'[o] \in BeyondSent,
         \A q \in Requests : \/ request[q].missed = {}
                             \/ /\ request'[q].batch = request[q].batch
                                /\ request[q].missed \subseteq request'[q].missed,
         Kept(u, b)
  PROVE  KeptBy(status', request', u, b)
BY DEF Kept, KeptBy

(* The conditions on one request's new record v under which its step keeps *)
(* the invariant, when it commits nothing.                                 *)
KeepsReceipts(r, v) ==
  /\ request[r].missed = {} \/ (v.batch = request[r].batch /\ request[r].missed \subseteq v.missed)
  /\ v.pc \in Opened =>
       /\ Range(v.receipts) \subseteq ReceiptsOf(v.batch)
       /\ \A u \in ReceiptsOf(v.batch) :
            \/ u \in Range(v.receipts) \/ u.to \in v.dirty \/ u.to \in v.missed
            \/ Kept(u, v.batch)
  /\ \A o \in Sent : v.view[o] \in BeyondSent => o \in v.dirty \/ status[o] \in BeyondSent

KeepsMessages(r, v) ==
  /\ \A m \in v.rows : /\ m \in RoutableOf(v.batch) /\ recorded[m] = None
                       /\ \A q \in Requests : q # r => m \notin request[q].rows
  /\ v.pc \in Opened =>
       /\ Range(v.messages) \subseteq MessagesOf(v.batch)
       /\ v.pc # "open" => Head(v.messages) \notin Unroutable
       /\ \A m \in RoutableOf(v.batch) :
            m \in Range(v.messages) \cup v.rows \/ recorded[m] # None
       /\ Range(v.claims) = v.rows
  /\ v.pc \in Handing \cup {"respond", "tasks", "done"} =>
       Committed(r) /\ v.batch = request[r].batch

HandsOver(r, v) ==
  /\ \A q \in Requests, m \in Messages : q # r =>
       /\ <<m, q>> \in queued' <=> <<m, q>> \in queued
       /\ <<m, q>> \in ran' <=> <<m, q>> \in ran
  /\ faults' \in {faults, faults + 1}
  /\ \A b \in acked' : b \in acked \/ \A m \in RoutableOf(b) : recorded[m] # None
  /\ \A m \in Messages :
       /\ v.pc \notin Opened /\ m \in Range(v.claims) => recorded[m] = r
       /\ recorded[m] = r => v.pc \in Handing \cup {"respond", "tasks", "done", "failed"}
       /\ <<m, r>> \in queued' \/ <<m, r>> \in ran' \/ m \in Range(v.tasks) => recorded[m] = r
       /\ QueueEnabled /\ (<<m, r>> \in ran' \/ m \in Range(v.tasks)) => faults' > 0
       /\ ~QueueEnabled => <<m, r>> \notin queued' /\ v.pc \notin {"group", "enqueue"}
       /\ recorded[m] = r /\ faults' = 0 =>
            \/ <<m, r>> \in queued' \/ <<m, r>> \in ran'
            \/ m \in Range(v.tasks) \/ m \in Range(v.claims)

(* A step of one request that commits nothing preserves the invariant.     *)
LEMMA RequestStep ==
  ASSUME IInv, Base', NEW r \in Requests, NEW v \in Request, Set(r, v),
         UNCHANGED <<recorded, status>>,
         KeepsReceipts(r, v), KeepsMessages(r, v), HandsOver(r, v)
  PROVE  IInv'
<1>1. /\ request' = [request EXCEPT ![r] = v] /\ request \in [Requests -> Request]
      /\ request'[r] = v /\ \A q \in Requests : q # r => request'[q] = request[q]
      /\ faults \in Nat
  BY IngestionAssumption DEF Set, IInv, Base, TypeOK
<1>2. AllOrNone'
  BY DEF IInv, Claims, AllOrNone
<1>3. RowsFresh'
  BY <1>1 DEF IInv, Claims, RowsFresh, KeepsMessages
<1>4. NothingSkipped'
  BY <1>1 DEF IInv, Claims, NothingSkipped, KeepsMessages, Claiming
<1>5. Complete'
  BY <1>1 DEF IInv, Claims, Complete, Committed, KeepsMessages
<1>6. Owned'
  BY <1>1 DEF IInv, Claims, Owned, Committed, HandsOver
<1>7. Either'
  <2> SUFFICES ASSUME NEW q \in Requests, NEW m \in Messages
               PROVE  /\ RunsHere(m, q)' /\ QueueEnabled => faults' > 0
                      /\ ~QueueEnabled => /\ <<m, q>> \notin queued'
                                          /\ request'[q].pc \notin {"group", "enqueue"}
                      /\ recorded'[m] = q /\ faults' = 0 =>
                           \/ <<m, q>> \in queued' \/ RunsHere(m, q)'
                           \/ m \in Range(request'[q].claims)
    BY DEF Either
  <2>1. CASE q = r
    BY <1>1, <2>1 DEF HandsOver, RunsHere
  <2>2. CASE q # r
    <3>1. /\ RunsHere(m, q) /\ QueueEnabled => faults > 0
          /\ ~QueueEnabled => <<m, q>> \notin queued /\ request[q].pc \notin {"group", "enqueue"}
          /\ recorded[m] = q /\ faults = 0 =>
               <<m, q>> \in queued \/ RunsHere(m, q) \/ m \in Range(request[q].claims)
      BY DEF IInv, Claims, Either
    <3>2. /\ RunsHere(m, q)' <=> RunsHere(m, q)
          /\ <<m, q>> \in queued' <=> <<m, q>> \in queued
      BY <1>1, <2>2 DEF HandsOver, RunsHere
    <3>3. faults' = faults \/ faults' = faults + 1
      BY DEF HandsOver
    <3> QED BY <1>1, <2>2, <3>1, <3>2, <3>3
  <2> QED BY <2>1, <2>2
<1>8. AckedIsRecorded'
  BY DEF IInv, Claims, AckedIsRecorded, HandsOver, RoutableOf
<1>9. DispatchedVisible'
  <2> SUFFICES ASSUME NEW m \in Messages, NEW q \in Requests,
                      <<m, q>> \in queued' \/ RunsHere(m, q)'
               PROVE  recorded[m] = q
    BY DEF DispatchedVisible
  <2>1. CASE q = r
    BY <1>1, <2>1 DEF HandsOver, RunsHere
  <2>2. CASE q # r
    <3>1. <<m, q>> \in queued \/ RunsHere(m, q)
      BY <1>1, <2>2 DEF HandsOver, RunsHere
    <3> QED BY <3>1 DEF IInv, Claims, DispatchedVisible
  <2> QED BY <2>1, <2>2
<1>10. Claims'
  BY <1>2, <1>3, <1>4, <1>5, <1>6, <1>7, <1>8, <1>9 DEF Claims
<1>11. ReceiptsKept'
  <2>1. ASSUME NEW b, NEW u, u.to \in Sent, Kept(u, b) PROVE KeptBy(status', request', u, b)
    BY <1>1, <2>1, KeptStays DEF KeepsReceipts
  <2>2. ASSUME NEW q \in Requests, request'[q].pc \in Opened
        PROVE  /\ Range(request'[q].receipts) \subseteq ReceiptsOf(request'[q].batch)
               /\ \A u \in ReceiptsOf(request'[q].batch) :
                    \/ u \in Range(request'[q].receipts) \/ u.to \in request'[q].dirty
                    \/ KeptBy(status', request', u, request'[q].batch)
    <3>1. request'[q].batch \in Batches
      BY <2>2 DEF Base, Shape, ShapeOf, Opened
    <3>2. \A u \in ReceiptsOf(request'[q].batch) : u.to \in Sent
      BY <3>1, BatchTypes
    <3>3. CASE q = r
      <4>1. \A u \in ReceiptsOf(v.batch) : u.to \in v.missed => KeptBy(status', request', u, v.batch)
        BY <1>1 DEF KeptBy
      <4>2. \A u \in ReceiptsOf(v.batch) : Kept(u, v.batch) => KeptBy(status', request', u, v.batch)
        BY <1>1, <2>1, <3>2, <3>3
      <4> QED BY <1>1, <2>2, <3>3, <4>1, <4>2 DEF KeepsReceipts
    <3>4. CASE q # r
      <4>1. request'[q] = request[q]
        BY <1>1, <3>4
      <4> QED BY <2>1, <2>2, <3>2, <4>1 DEF IInv, ReceiptsKept
    <3> QED BY <3>3, <3>4
  <2>3. ASSUME NEW q \in Requests, Committed(q)', NEW u \in ReceiptsOf(request'[q].batch)
        PROVE  KeptBy(status', request', u, request'[q].batch)
    <3>1. Committed(q) /\ request'[q].batch = request[q].batch
      BY <1>1, <2>3 DEF Committed, KeepsMessages
    <3>2. request[q].batch \in Batches
      BY <3>1 DEF IInv, Base, Shape, ShapeOf, Committed, Handing
    <3>3. u.to \in Sent
      BY <2>3, <3>1, <3>2, BatchTypes
    <3> QED BY <2>1, <2>3, <3>1, <3>3 DEF IInv, ReceiptsKept
  <2>4. ASSUME NEW b \in Batches, NEW m \in RoutableOf(b), recorded'[m] # None,
               NEW u \in ReceiptsOf(b)
        PROVE  KeptBy(status', request', u, b)
    <3>1. u.to \in Sent
      BY BatchTypes
    <3>2. Kept(u, b)
      BY <2>4 DEF IInv, ReceiptsKept
    <3> QED BY <2>1, <3>1, <3>2
  <2>5. ASSUME NEW q \in Requests, NEW o \in Sent, request'[q].view[o] \in BeyondSent
        PROVE  o \in request'[q].dirty \/ status'[o] \in BeyondSent
    BY <1>1, <2>5 DEF IInv, ReceiptsKept, KeepsReceipts
  <2>6. \A q \in Requests : Committed(q)' =>
          \A u \in ReceiptsOf(request'[q].batch) : KeptBy(status', request', u, request'[q].batch)
    BY <2>3
  <2>7. \A b \in Batches : \A m \in RoutableOf(b) :
          recorded'[m] # None => \A u \in ReceiptsOf(b) : KeptBy(status', request', u, b)
    BY <2>4
  <2> QED BY <2>2, <2>6, <2>7, <2>5 DEF ReceiptsKept, Kept
<1> QED BY <1>10, <1>11 DEF IInv

LEMMA InitIInv == Init => IInv
<1> SUFFICES ASSUME Init PROVE IInv
  OBVIOUS
<1>1. /\ \A r \in Requests : request[r] = NoRequest
      /\ \A m \in Messages : recorded[m] = None
      /\ \A o \in Sent : status[o] = "absent"
      /\ queued = {} /\ ran = {} /\ acked = {} /\ None \notin Requests
  BY IngestionAssumption DEF Init
<1>2. /\ NoRequest.pc = "idle" /\ NoRequest.tasks = <<>> /\ NoRequest.claims = <<>>
      /\ NoRequest.rows = {} /\ \A o \in Sent : NoRequest.view[o] = "unread"
      /\ Range(<<>>) = {}
  BY NoRequestType, RangeEmpty DEF Unread
<1>3. \A m \in Messages, r \in Requests : ~RunsHere(m, r) /\ recorded[m] # r
  BY <1>1, <1>2 DEF RunsHere
<1>4. AllOrNone
  BY <1>1, BatchTypes DEF AllOrNone
<1>5. RowsFresh /\ NothingSkipped /\ Complete /\ Owned /\ Either
  BY <1>1, <1>2, <1>3
     DEF RowsFresh, NothingSkipped, Complete, Owned, Either, Committed, Opened, Handing
<1>6. AckedIsRecorded /\ DispatchedVisible
  BY <1>1, <1>3 DEF AckedIsRecorded, DispatchedVisible
<1>7. \A b \in Batches : \A m \in RoutableOf(b) : recorded[m] = None
  BY <1>1, BatchTypes
<1>8. ReceiptsKept
  BY <1>1, <1>2, <1>7 DEF ReceiptsKept, Committed, Opened, Handing, BeyondSent
<1> QED BY <1>4, <1>5, <1>6, <1>8, InitBase DEF IInv, Claims

(* What the invariant says of the request that moves.                      *)
LEMMA RequestFacts ==
  ASSUME Base, NEW r \in Requests, NEW v, Set(r, v), Base'
  PROVE  /\ request'[r] = v /\ ShapeOf(v)
         /\ request[r] \in Request /\ ShapeOf(request[r])
BY DEF Base, TypeOK, Shape, Set

(* Before its commit a request owns no recorded message, so it has handed  *)
(* nothing over.                                                           *)
LEMMA OpenHands ==
  ASSUME IInv, Base', NEW r \in Requests, NEW v, Set(r, v),
         request[r].pc \in Opened \cup {"idle"}, v.pc \in Opened \cup {"failed"},
         UNCHANGED <<recorded, queued, ran, acked>>, faults' \in {faults, faults + 1}
  PROVE  HandsOver(r, v)
<1>1. ShapeOf(v)
  BY RequestFacts DEF IInv
<1>2. v.tasks = <<>> /\ (v.pc \notin Opened => v.claims = <<>>)
  BY <1>1 DEF ShapeOf, Opened
<1>3. \A m \in Messages : recorded[m] # r
  BY DEF IInv, Claims, Owned, Committed, Opened, Handing
<1>4. \A m \in Messages : <<m, r>> \notin queued /\ <<m, r>> \notin ran
  BY <1>3 DEF IInv, Claims, DispatchedVisible, RunsHere
<1>5. \A m \in Messages : m \notin Range(v.tasks) /\ (v.pc \notin Opened => m \notin Range(v.claims))
  BY <1>2, RangeEmpty
<1>6. v.pc \notin {"group", "enqueue"}
  BY DEF Opened
<1> QED BY <1>3, <1>4, <1>5, <1>6 DEF HandsOver

(* A request that dies after its commit leaves what it did not hand over   *)
(* behind; that took a fault.                                              *)
LEMMA FaultHands ==
  ASSUME IInv, Base', NEW r \in Requests, NEW v, Set(r, v), v.pc = "failed",
         UNCHANGED <<recorded, queued, ran, acked>>, faults' = faults + 1
  PROVE  HandsOver(r, v)
<1>0. Base
  BY DEF IInv
<1>1. ShapeOf(v) /\ faults \in Nat
  <2>1. ShapeOf(v)
    BY <1>0, RequestFacts
  <2>2. faults \in 0..MaxFaults /\ MaxFaults \in Nat
    BY <1>0, IngestionAssumption DEF Base, TypeOK
  <2> QED BY <2>1, <2>2
<1>2. v.tasks = <<>> /\ v.claims = <<>> /\ faults' > 0
  BY <1>1 DEF ShapeOf
<1>3. \A m \in Messages : m \notin Range(v.tasks) /\ m \notin Range(v.claims)
  BY <1>2, RangeEmpty
<1>4. \A m \in Messages : <<m, r>> \in queued \/ <<m, r>> \in ran => recorded[m] = r
  BY DEF IInv, Claims, DispatchedVisible, RunsHere
<1>5. \A m \in Messages : ~QueueEnabled => <<m, r>> \notin queued
  BY DEF IInv, Claims, Either
<1> QED BY <1>1, <1>2, <1>3, <1>4, <1>5 DEF HandsOver

LEMMA FailedKeeps ==
  ASSUME NEW r \in Requests, NEW v, v.pc = "failed", SameBatch(v, request[r]),
         v.view = Unread, v.rows = {}
  PROVE  KeepsReceipts(r, v) /\ KeepsMessages(r, v)
BY DEF KeepsReceipts, KeepsMessages, SameBatch, Unread, BeyondSent, Opened, Handing

(* A request that reads no receipt.                                        *)
LEMMA ReceiptsUntouched ==
  ASSUME IInv, NEW r \in Requests, NEW v, SameBatch(v, request[r]),
         v.view = request[r].view, v.dirty = request[r].dirty,
         v.pc \in Opened => request[r].pc \in Opened /\ v.receipts = request[r].receipts
  PROVE  KeepsReceipts(r, v)
BY DEF IInv, ReceiptsKept, KeepsReceipts, SameBatch

LEMMA AbortIInv ==
  ASSUME IInv, Base', NEW r \in Requests, Abort(r),
         UNCHANGED <<recorded, status, queued, ran, acked>>,
         \/ faults' = faults /\ request[r].pc \in Opened
         \/ faults' = faults + 1
  PROVE  IInv'
<1>1. PICK v \in Request :
        /\ Set(r, v) /\ v.pc = "failed" /\ SameBatch(v, request[r])
        /\ v.view = Unread /\ v.rows = {}
  BY AbortDoes DEF IInv, Base
<1>2. HandsOver(r, v)
  BY <1>1, OpenHands, FaultHands
<1>3. KeepsReceipts(r, v) /\ KeepsMessages(r, v)
  BY <1>1, FailedKeeps
<1> QED BY <1>1, <1>2, <1>3, RequestStep

LEMMA DeliverIInv ==
  ASSUME IInv, Base', NEW r \in Requests, NEW b \in Batches, Deliver(r, b)
  PROVE  IInv'
<1>1. PICK v \in Request :
           /\ Set(r, v) /\ v.pc = "open" /\ v.batch = b
           /\ v.receipts = Contents[b].receipts /\ v.messages = Contents[b].messages
           /\ v.view = Unread /\ v.rows = {} /\ v.claims = <<>>
  BY DeliverDoes
<1>2. request[r].pc = "idle" /\ UNCHANGED <<recorded, status, queued, ran, acked, faults>>
  BY DEF Deliver, At
<1>3. request[r].missed = {}
  BY <1>2, NoRequestType DEF IInv, Base, Shape, ShapeOf
<1>4. HandsOver(r, v)
  BY <1>1, <1>2, OpenHands DEF Opened
<1>5. KeepsReceipts(r, v)
  BY <1>1, <1>3 DEF KeepsReceipts, ReceiptsOf, Unread, BeyondSent
<1>6. KeepsMessages(r, v)
  BY <1>1, RangeEmpty DEF KeepsMessages, MessagesOf, RoutableOf, Handing
<1> QED BY <1>1, <1>2, <1>4, <1>5, <1>6, RequestStep

LEMMA RefuseIInv ==
  ASSUME IInv, Base', NEW r \in Requests, Refuse(r)
  PROVE  IInv'
<1>1. request[r].pc = "idle" /\ UNCHANGED <<recorded, status, queued, ran, acked, faults>>
  BY DEF Refuse, At
<1>2. PICK v \in Request :
           /\ Set(r, v) /\ v.pc = "failed" /\ SameWork(v, request[r])
           /\ SameTransaction(v, request[r]) /\ SameClaims(v, request[r])
           /\ SameBatch(v, request[r])
  BY GotoDoes DEF Refuse, PC, IInv, Base
<1>3. v.view = Unread /\ v.rows = {}
  BY <1>1, <1>2, NoRequestType DEF IInv, Base, Shape, ShapeOf, SameTransaction
<1>4. HandsOver(r, v)
  BY <1>1, <1>2, OpenHands
<1> QED BY <1>1, <1>2, <1>3, <1>4, FailedKeeps, RequestStep

(* A request on its way through its messages: what it still has to claim,  *)
(* and what it holds.                                                      *)
LEMMA OpenFacts ==
  ASSUME IInv, NEW r \in Requests, request[r].pc \in Opened
  PROVE  /\ request[r] \in Request /\ request[r].batch \in Batches
         /\ Range(request[r].messages) \subseteq MessagesOf(request[r].batch)
         /\ request[r].pc # "open" => Claiming(r) \notin Unroutable
         /\ \A m \in RoutableOf(request[r].batch) :
              m \in Range(request[r].messages) \cup request[r].rows \/ recorded[m] # None
         /\ Range(request[r].claims) = request[r].rows
         /\ \A m \in request[r].rows :
              /\ m \in RoutableOf(request[r].batch) /\ recorded[m] = None
              /\ \A q \in Requests : q # r => m \notin request[q].rows
         /\ request[r].messages # <<>> =>
              /\ Claiming(r) \in Messages /\ Claiming(r) \in MessagesOf(request[r].batch)
              /\ Range(request[r].messages) = {Claiming(r)} \cup Range(Tail(request[r].messages))
<1>1. request[r] \in Request /\ request[r].batch \in Batches
  BY DEF IInv, Base, TypeOK, Shape, ShapeOf, Opened
<1>2. /\ Range(request[r].messages) \subseteq MessagesOf(request[r].batch)
      /\ request[r].pc # "open" => Claiming(r) \notin Unroutable
      /\ \A m \in RoutableOf(request[r].batch) :
           m \in Range(request[r].messages) \cup request[r].rows \/ recorded[m] # None
      /\ Range(request[r].claims) = request[r].rows
  BY DEF IInv, Claims, NothingSkipped
<1>3. \A m \in request[r].rows :
        /\ m \in RoutableOf(request[r].batch) /\ recorded[m] = None
        /\ \A q \in Requests : q # r => m \notin request[q].rows
  BY DEF IInv, Claims, RowsFresh
<1>4. request[r].messages \in Seq(Messages)
  BY <1>1 DEF Request
<1>5. request[r].messages # <<>> =>
        /\ Claiming(r) \in Messages /\ Claiming(r) \in MessagesOf(request[r].batch)
        /\ Range(request[r].messages) = {Claiming(r)} \cup Range(Tail(request[r].messages))
  BY <1>2, <1>4, RangeTail DEF Claiming
<1> QED BY <1>1, <1>2, <1>3, <1>5

LEMMA CheckIInv ==
  ASSUME IInv, Base', NEW r \in Requests, Check(r)
  PROVE  IInv'
<1>1. /\ request[r].pc = "open" /\ request[r].messages # <<>> /\ request[r].receipts = <<>>
      /\ UNCHANGED <<recorded, status, queued, ran, acked, faults>>
  BY DEF Check, At
<1>2. request[r] \in Request /\ TypeOK
  BY DEF IInv, Base, TypeOK
<1>3. CASE Goto(r, "lead") /\ Claiming(r) \notin Unroutable
  <2>1. PICK v \in Request :
           /\ Set(r, v) /\ v.pc = "lead" /\ SameWork(v, request[r])
           /\ SameTransaction(v, request[r]) /\ SameClaims(v, request[r])
           /\ SameBatch(v, request[r])
    BY <1>2, <1>3, GotoDoes DEF PC
  <2>2. HandsOver(r, v)
    BY <1>1, <2>1, OpenHands DEF Opened
  <2>3. KeepsReceipts(r, v)
    BY <1>1, <2>1, ReceiptsUntouched DEF SameWork, SameTransaction, Opened
  <2>4. KeepsMessages(r, v)
    BY <1>1, <1>3, <2>1, OpenFacts
       DEF KeepsMessages, SameWork, SameTransaction, SameClaims, SameBatch, Opened, Handing, Claiming
  <2> QED BY <1>1, <2>1, <2>2, <2>3, <2>4, RequestStep
<1>4. CASE /\ Set(r, NextMessage(request[r]))
           /\ Claiming(r) \in Unroutable \/ recorded[Claiming(r)] # None
  <2> DEFINE v == NextMessage(request[r])
  <2>1. /\ v \in Request /\ v.pc = "open" /\ v.receipts = request[r].receipts
        /\ v.messages = Tail(request[r].messages)
        /\ SameTransaction(v, request[r]) /\ SameClaims(v, request[r])
        /\ SameBatch(v, request[r])
    BY <1>1, <1>2, NextMessageDoes
  <2> HIDE DEF v
  <2>2. Set(r, v)
    BY <1>4 DEF v
  <2>3. HandsOver(r, v)
    BY <1>1, <2>1, <2>2, OpenHands DEF Opened
  <2>4. KeepsReceipts(r, v)
    BY <1>1, <2>1, ReceiptsUntouched DEF SameTransaction, Opened
  <2>5. KeepsMessages(r, v)
    BY <1>1, <1>4, <2>1, OpenFacts
       DEF KeepsMessages, SameTransaction, SameClaims, SameBatch, Opened, Handing, RoutableOf
  <2> QED BY <1>1, <2>1, <2>2, <2>3, <2>4, <2>5, RequestStep
<1> QED BY <1>3, <1>4 DEF Check

LEMMA FindLeadIInv ==
  ASSUME IInv, Base', NEW r \in Requests, FindLead(r)
  PROVE  IInv'
<1>1. /\ request[r].pc = "lead"
      /\ UNCHANGED <<recorded, status, queued, ran, acked, faults>>
      /\ Goto(r, "insert") \/ Goto(r, "newlead")
  BY DEF FindLead, At
<1>2. PICK v \in Request :
         /\ Set(r, v) /\ v.pc \in {"insert", "newlead"} /\ SameWork(v, request[r])
         /\ SameTransaction(v, request[r]) /\ SameClaims(v, request[r])
         /\ SameBatch(v, request[r])
  BY <1>1, GotoDoes DEF PC, IInv, Base
<1>3. HandsOver(r, v)
  BY <1>1, <1>2, OpenHands DEF Opened
<1>4. KeepsReceipts(r, v)
  BY <1>1, <1>2, ReceiptsUntouched DEF SameWork, SameTransaction, Opened
<1>5. KeepsMessages(r, v)
  BY <1>1, <1>2, OpenFacts
     DEF KeepsMessages, SameWork, SameTransaction, SameClaims, SameBatch, Opened, Handing, Claiming
<1> QED BY <1>1, <1>2, <1>3, <1>4, <1>5, RequestStep

LEMMA AddLeadIInv ==
  ASSUME IInv, Base', NEW r \in Requests, AddLead(r)
  PROVE  IInv'
<1>1. request[r].pc = "newlead" /\ UNCHANGED <<recorded, status, queued, ran, acked, faults>>
  BY DEF AddLead, At
<1>2. CASE Sender(r) \in leads
  BY <1>1, <1>2, AbortIInv DEF AddLead, Opened
<1>3. CASE Sender(r) \notin leads
  <2>1. PICK v \in Request :
           /\ Set(r, v) /\ v.pc = "insert" /\ SameWork(v, request[r])
           /\ SameClaims(v, request[r]) /\ SameBatch(v, request[r])
           /\ v.view = request[r].view /\ v.dirty = request[r].dirty
           /\ v.rows = request[r].rows
    BY <1>3, AddLeadDoes DEF IInv, Base
  <2>2. HandsOver(r, v)
    BY <1>1, <2>1, OpenHands DEF Opened
  <2>3. KeepsReceipts(r, v)
    BY <1>1, <2>1, ReceiptsUntouched DEF SameWork, Opened
  <2>4. KeepsMessages(r, v)
    BY <1>1, <2>1, OpenFacts
       DEF KeepsMessages, SameWork, SameClaims, SameBatch, Opened, Handing, Claiming
  <2> QED BY <1>1, <2>1, <2>2, <2>3, <2>4, RequestStep
<1> QED BY <1>2, <1>3

LEMMA RecordMessageIInv ==
  ASSUME IInv, Base', NEW r \in Requests, RecordMessage(r)
  PROVE  IInv'
<1>1. /\ request[r].pc = "insert" /\ recorded[Claiming(r)] = None
      /\ UNCHANGED <<recorded, status, queued, ran, acked, faults>>
      /\ \A q \in Requests : q # r => Claiming(r) \notin request[q].rows
  BY DEF RecordMessage, At, Waiting, WaitsFor
<1>2. /\ TypeOK /\ Shape /\ request[r] \in Request /\ request[r].messages # <<>>
      /\ request[r].receipts = <<>>
  BY <1>1 DEF IInv, Base, TypeOK, Shape, ShapeOf, Opened
<1>3. PICK v \in Request :
         /\ Set(r, v) /\ v.pc = "open" /\ v.receipts = request[r].receipts
         /\ v.messages = Tail(request[r].messages)
         /\ v.rows = request[r].rows \cup {Claiming(r)}
         /\ v.claims = Append(request[r].claims, Claiming(r))
         /\ SameBatch(v, request[r])
         /\ v.view = request[r].view /\ v.dirty = request[r].dirty
  BY <1>2, RecordMessageDoes
<1>4. HandsOver(r, v)
  BY <1>1, <1>3, OpenHands DEF Opened
<1>5. KeepsReceipts(r, v)
  BY <1>1, <1>3, ReceiptsUntouched DEF Opened
<1>6. Range(v.claims) = Range(request[r].claims) \cup {Claiming(r)}
  <2>1. request[r].claims \in Seq(Messages)
    BY <1>2 DEF Request
  <2>2. Claiming(r) \in Messages
    BY <1>1, <1>2, OpenFacts DEF Opened
  <2> QED BY <1>3, <2>1, <2>2, RangeAppend
<1>7. Claiming(r) \in RoutableOf(request[r].batch)
  BY <1>1, <1>2, OpenFacts DEF Opened, RoutableOf
<1>8. KeepsMessages(r, v)
  <2>1. /\ Range(request[r].messages) \subseteq MessagesOf(request[r].batch)
        /\ \A m \in RoutableOf(request[r].batch) :
             m \in Range(request[r].messages) \cup request[r].rows \/ recorded[m] # None
        /\ Range(request[r].claims) = request[r].rows
        /\ Range(request[r].messages) = {Claiming(r)} \cup Range(Tail(request[r].messages))
    BY <1>1, <1>2, OpenFacts DEF Opened
  <2>2. \A m \in request[r].rows :
          /\ m \in RoutableOf(request[r].batch) /\ recorded[m] = None
          /\ \A q \in Requests : q # r => m \notin request[q].rows
    BY <1>1, OpenFacts DEF Opened
  <2>3. v.batch = request[r].batch
    BY <1>3 DEF SameBatch
  <2>4. \A m \in v.rows : /\ m \in RoutableOf(v.batch) /\ recorded[m] = None
                          /\ \A q \in Requests : q # r => m \notin request[q].rows
    BY <1>1, <1>3, <1>7, <2>2, <2>3
  <2>5. /\ Range(v.messages) \subseteq MessagesOf(v.batch)
        /\ \A m \in RoutableOf(v.batch) :
             m \in Range(v.messages) \cup v.rows \/ recorded[m] # None
        /\ Range(v.claims) = v.rows
    BY <1>3, <1>6, <2>1, <2>3
  <2> QED BY <1>3, <2>4, <2>5 DEF KeepsMessages, Handing
<1> QED BY <1>1, <1>3, <1>4, <1>5, <1>8, RequestStep

(* The loser of the race for one message of a batch finds all of them      *)
(* recorded, and its rollback takes back no claim: it made none.           *)
LEMMA LoseRaceIInv ==
  ASSUME IInv, Base', NEW r \in Requests, LoseRace(r)
  PROVE  IInv'
<1>1. /\ request[r].pc = "insert" /\ recorded[Claiming(r)] # None
      /\ UNCHANGED <<recorded, status, queued, ran, acked, faults>>
  BY DEF LoseRace, At
<1>2. /\ TypeOK /\ Shape /\ request[r] \in Request /\ request[r].messages # <<>>
      /\ request[r].batch \in Batches
  BY <1>1 DEF IInv, Base, TypeOK, Shape, ShapeOf, Opened
<1>3. PICK v \in Request :
         /\ Set(r, v) /\ v.pc = "open" /\ v.receipts = request[r].receipts
         /\ v.messages = Tail(request[r].messages)
         /\ SameClaims(v, request[r]) /\ SameBatch(v, request[r])
         /\ v.view = Unread /\ v.dirty = {} /\ v.rows = {} /\ v.newleads = {}
  BY <1>2, LoseRaceDoes
<1>4. Claiming(r) \in RoutableOf(request[r].batch)
  BY <1>1, <1>2, OpenFacts DEF Opened, RoutableOf
<1>5. \A m \in RoutableOf(request[r].batch) : recorded[m] # None
  BY <1>1, <1>2, <1>4 DEF IInv, Claims, AllOrNone
<1>6. request[r].rows = {} /\ Range(request[r].claims) = {}
  BY <1>1, <1>5, OpenFacts DEF Opened
<1>7. HandsOver(r, v)
  BY <1>1, <1>3, OpenHands DEF Opened
<1>8. KeepsReceipts(r, v)
  <2>1. \A u \in ReceiptsOf(request[r].batch) : Kept(u, request[r].batch)
    BY <1>1, <1>2, <1>4 DEF IInv, ReceiptsKept
  <2>2. Range(request[r].receipts) \subseteq ReceiptsOf(request[r].batch)
    BY <1>1 DEF IInv, ReceiptsKept, Opened
  <2> QED BY <1>3, <2>1, <2>2 DEF KeepsReceipts, SameBatch, Unread, BeyondSent
<1>9. KeepsMessages(r, v)
  BY <1>1, <1>2, <1>3, <1>5, <1>6, OpenFacts
     DEF KeepsMessages, SameClaims, SameBatch, Opened, Handing
<1> QED BY <1>1, <1>3, <1>7, <1>8, <1>9, RequestStep

LEMMA ReadReceiptIInv ==
  ASSUME IInv, Base', NEW r \in Requests, ReadReceipt(r)
  PROVE  IInv'
<1> DEFINE w == request[r]
<1>1. /\ w.pc = "open" /\ w.receipts # <<>>
      /\ UNCHANGED <<recorded, status, queued, ran, acked, faults>>
  BY DEF ReadReceipt, At
<1>2. TypeOK /\ Shape /\ w \in Request /\ w.batch \in Batches
  BY <1>1 DEF IInv, Base, TypeOK, Shape, ShapeOf
<1>3. PICK u \in Receipt, v \in Request :
           /\ u = Head(request[r].receipts)
           /\ Set(r, v) /\ v.pc = "open" /\ v.receipts = Tail(request[r].receipts)
           /\ v.messages = request[r].messages
           /\ v.rows = request[r].rows /\ v.newleads = request[r].newleads
           /\ SameClaims(v, request[r]) /\ v.batch = request[r].batch
           /\ \/ /\ v.missed = request[r].missed \cup {u.to}
                 /\ v.view = request[r].view /\ v.dirty = request[r].dirty
              \/ /\ Supersedes(u.status, Known(r, u.to)) /\ v.missed = request[r].missed
                 /\ Known(r, u.to) # "absent"
                 /\ v.view = [request[r].view EXCEPT ![u.to] = u.status]
                 /\ v.dirty = request[r].dirty \cup {u.to}
              \/ /\ ~Supersedes(u.status, Known(r, u.to)) /\ v.missed = request[r].missed
                 /\ Known(r, u.to) # "absent"
                 /\ v.view = [request[r].view EXCEPT ![u.to] = Known(r, u.to)]
                 /\ v.dirty = request[r].dirty
  BY <1>2, ReadReceiptDoes
<1>4. /\ u.to \in Sent /\ u.status \in Status
      /\ w.view \in [Sent -> Status \cup {"unread"}] /\ w.receipts \in Seq(Receipt)
  BY <1>2 DEF Receipt, Request
<1>5. Known(r, u.to) \in Status \cup {"absent"}
  BY <1>2, <1>4 DEF Known, TypeOK
<1>6. Range(w.receipts) = {u} \cup Range(v.receipts)
  BY <1>1, <1>3, <1>4, RangeTail
<1>7. /\ Range(w.receipts) \subseteq ReceiptsOf(w.batch)
      /\ \A x \in ReceiptsOf(w.batch) :
           x \in Range(w.receipts) \/ x.to \in w.dirty \/ Kept(x, w.batch)
      /\ \A o \in Sent : w.view[o] \in BeyondSent => o \in w.dirty \/ status[o] \in BeyondSent
  BY <1>1 DEF IInv, ReceiptsKept, Opened
<1>8. w.dirty \subseteq v.dirty /\ w.missed \subseteq v.missed
  BY <1>3
<1>9. Known(r, u.to) \in BeyondSent => u.to \in w.dirty \/ status[u.to] \in BeyondSent
  BY <1>4, <1>7 DEF Known
<1>10. u.to \in v.dirty \/ u.to \in v.missed \/ Kept(u, w.batch)
  <2>1. CASE ~Supersedes(u.status, Known(r, u.to)) /\ Known(r, u.to) # "absent"
    <3>1. u.status = "SENT" \/ Known(r, u.to) \in BeyondSent
      BY <1>4, <1>5, <2>1, RankOfStatus DEF Status, BeyondSent
    <3>2. u.status = "SENT" \/ status[u.to] \in BeyondSent => Kept(u, w.batch)
      BY DEF Kept, KeptBy
    <3> QED BY <1>8, <1>9, <3>1, <3>2
  <2> QED BY <1>3, <2>1
<1>11. \A o \in Sent : v.view[o] \in BeyondSent => o \in v.dirty \/ status[o] \in BeyondSent
  <2> SUFFICES ASSUME NEW o \in Sent, v.view[o] \in BeyondSent
               PROVE  o \in v.dirty \/ status[o] \in BeyondSent
    OBVIOUS
  <2>1. CASE o = u.to
    BY <1>3, <1>4, <1>7, <1>8, <1>9, <2>1
  <2>2. CASE o # u.to
    BY <1>3, <1>4, <1>7, <1>8, <2>2
  <2> QED BY <2>1, <2>2
<1>12. KeepsReceipts(r, v)
  <2>1. \A x \in ReceiptsOf(w.batch) :
          x \in Range(v.receipts) \/ x.to \in v.dirty \/ x.to \in v.missed \/ Kept(x, w.batch)
    BY <1>6, <1>7, <1>8, <1>10
  <2> QED BY <1>3, <1>6, <1>7, <1>8, <1>11, <2>1 DEF KeepsReceipts
<1>13. KeepsMessages(r, v)
  BY <1>1, <1>3, OpenFacts DEF KeepsMessages, SameClaims, Opened, Handing
<1>14. HandsOver(r, v)
  BY <1>1, <1>3, OpenHands DEF Opened
<1> QED BY <1>1, <1>3, <1>12, <1>13, <1>14, RequestStep

LEMMA DeadlockVictimIInv ==
  ASSUME IInv, Base', NEW r \in Requests, DeadlockVictim(r)
  PROVE  IInv'
<1>1. request[r].pc \in Opened
  BY DEF DeadlockVictim, Deadlocked, WaitsFor, At, Opened
<1> QED BY <1>1, AbortIInv DEF DeadlockVictim

LEMMA CrashIInv ==
  ASSUME IInv, Base', NEW r \in Requests, Crash(r)
  PROVE  IInv'
BY AbortIInv DEF Crash, Fault

(* A request past its commit only hands its claims over.                   *)
LEMMA AfterCommit ==
  ASSUME IInv, Base', NEW r \in Requests, NEW v \in Request, Set(r, v),
         UNCHANGED <<recorded, status>>, Committed(r),
         v.pc \in Handing \cup {"respond", "tasks", "done"},
         SameBatch(v, request[r]), SameTransaction(v, request[r]), HandsOver(r, v)
  PROVE  IInv'
<1>1. ShapeOf(v) /\ v.pc \notin Opened
  BY RequestFacts DEF IInv, Handing, Opened
<1>2. v.rows = {}
  BY <1>1 DEF ShapeOf
<1>3. KeepsReceipts(r, v)
  BY <1>1, ReceiptsUntouched DEF SameTransaction
<1>4. KeepsMessages(r, v)
  BY <1>1, <1>2 DEF KeepsMessages, SameBatch
<1> QED BY <1>3, <1>4, RequestStep

(* What the invariant says of a committed request's claims.                *)
LEMMA CommittedFacts ==
  ASSUME IInv, NEW r \in Requests, Committed(r)
  PROVE  /\ request[r] \in Request /\ faults \in Nat
         /\ \A m \in Messages :
              /\ m \in Range(request[r].claims) => recorded[m] = r
              /\ <<m, r>> \in queued \/ <<m, r>> \in ran \/ m \in Range(request[r].tasks)
                   => recorded[m] = r
              /\ QueueEnabled /\ (<<m, r>> \in ran \/ m \in Range(request[r].tasks)) => faults > 0
              /\ ~QueueEnabled => <<m, r>> \notin queued /\ request[r].pc \notin {"group", "enqueue"}
              /\ recorded[m] = r /\ faults = 0 =>
                   \/ <<m, r>> \in queued \/ <<m, r>> \in ran
                   \/ m \in Range(request[r].tasks) \/ m \in Range(request[r].claims)
<1>1. request[r].pc \notin Opened
  BY DEF Committed, Handing, Opened
<1>2. request[r] \in Request /\ faults \in Nat
  BY IngestionAssumption DEF IInv, Base, TypeOK
<1>3. \A m \in Messages : m \in Range(request[r].claims) => recorded[m] = r
  BY <1>1 DEF IInv, Claims, Owned
<1>4. \A m \in Messages :
        <<m, r>> \in queued \/ <<m, r>> \in ran \/ m \in Range(request[r].tasks)
          => recorded[m] = r
  BY DEF IInv, Claims, DispatchedVisible, RunsHere
<1>5. \A m \in Messages :
        /\ QueueEnabled /\ (<<m, r>> \in ran \/ m \in Range(request[r].tasks)) => faults > 0
        /\ ~QueueEnabled => <<m, r>> \notin queued /\ request[r].pc \notin {"group", "enqueue"}
        /\ recorded[m] = r /\ faults = 0 =>
             \/ <<m, r>> \in queued \/ <<m, r>> \in ran
             \/ m \in Range(request[r].tasks) \/ m \in Range(request[r].claims)
  BY DEF IInv, Claims, Either, RunsHere
<1> QED BY <1>2, <1>3, <1>4, <1>5

LEMMA HandOnIInv ==
  ASSUME IInv, Base', NEW r \in Requests, UseQueue(r) \/ EnsureGroup(r) \/ Respond(r)
  PROVE  IInv'
<1>1. /\ Committed(r) /\ UNCHANGED <<recorded, status, queued, ran, faults>>
      /\ (request[r].pc = "dispatch" /\ QueueEnabled) \/ request[r].pc \in {"group", "respond"}
  BY DEF UseQueue, EnsureGroup, Respond, At, Committed, Handing
<1>2. PICK v \in Request :
         /\ Set(r, v) /\ v.pc \in {"group", "enqueue", "done", "tasks"}
         /\ v.pc \in {"group", "enqueue"} => request[r].pc \in {"dispatch", "group"}
         /\ SameTransaction(v, request[r]) /\ SameClaims(v, request[r])
         /\ SameBatch(v, request[r])
  BY GotoDoes DEF UseQueue, EnsureGroup, Respond, At, PC, IInv, Base
<1>3. \A b \in acked' : b \in acked \/ \A m \in RoutableOf(b) : recorded[m] # None
  BY <1>1 DEF UseQueue, EnsureGroup, Respond, IInv, Claims, Complete
<1>4. v.pc \notin Opened /\ v.pc \in Handing \cup {"respond", "tasks", "done", "failed"}
  BY <1>2 DEF Opened, Handing
<1>5. HandsOver(r, v)
  BY <1>1, <1>2, <1>3, <1>4, CommittedFacts DEF HandsOver, SameClaims
<1> QED BY <1>1, <1>2, <1>4, <1>5, AfterCommit DEF Handing

LEMMA RunHereIInv ==
  ASSUME IInv, Base', NEW r \in Requests, RunHere(r)
  PROVE  IInv'
<1>1. /\ request[r].pc = "dispatch" /\ Committed(r)
      /\ UNCHANGED <<recorded, status, queued, ran, acked>>
  BY DEF RunHere, At, Committed, Handing
<1>2. faults' \in {faults, faults + 1} /\ faults \in Nat /\ (QueueEnabled => faults' > 0)
  BY <1>1, CommittedFacts DEF RunHere, Fault
<1>3. PICK v \in Request :
           /\ Set(r, v) /\ v.pc = "respond" /\ SameBatch(v, request[r])
           /\ SameTransaction(v, request[r])
           /\ v.tasks = request[r].claims /\ v.claims = <<>>
  BY RunHereDoes DEF IInv, Base
<1>4. ShapeOf(request[r])
  BY <1>3, RequestFacts DEF IInv
<1>5. \A m \in Messages : m \notin Range(request[r].tasks) /\ m \notin Range(v.claims)
  BY <1>1, <1>3, <1>4, RangeEmpty DEF ShapeOf
<1>6. HandsOver(r, v)
  BY <1>1, <1>2, <1>3, <1>5, CommittedFacts DEF HandsOver, Opened
<1> QED BY <1>1, <1>3, <1>6, AfterCommit

LEMMA EnqueueIInv ==
  ASSUME IInv, Base', NEW r \in Requests, Enqueue(r) \/ EnqueueFails(r)
  PROVE  IInv'
<1> DEFINE w == request[r]
           h == Head(w.claims)
<1>1. w.pc = "enqueue" /\ Committed(r) /\ UNCHANGED <<recorded, status, ran, acked>>
  BY DEF Enqueue, EnqueueFails, At, Committed, Handing
<1>2. h \in Messages /\ Range(w.claims) = {h} \cup Range(Tail(w.claims))
  BY EnqueueDoes DEF IInv, Base
<1>3. PICK v \in Request :
        /\ Set(r, v) /\ v.pc \in {"respond", "enqueue"} /\ SameBatch(v, request[r])
        /\ SameTransaction(v, request[r])
        /\ v.claims = Tail(request[r].claims)
        /\ \/ Enqueue(r) /\ v.tasks = request[r].tasks
           \/ /\ EnqueueFails(r)
              /\ v.tasks = Append(request[r].tasks, Head(request[r].claims))
  BY EnqueueDoes DEF IInv, Base
<1>4. w.tasks \in Seq(Messages) /\ faults \in Nat
  <2>1. w \in Request /\ faults \in Nat
    BY <1>1, CommittedFacts
  <2> QED BY <2>1 DEF Request
<1>5. QueueEnabled /\ recorded[h] = r
  <2>1. h \in Range(w.claims)
    BY <1>2
  <2> QED BY <1>1, <1>2, <2>1, CommittedFacts
<1>6. /\ v.pc \notin Opened /\ v.pc \in Handing \cup {"respond", "tasks", "done", "failed"}
      /\ \A m \in Messages : m \in Range(w.claims) <=> m = h \/ m \in Range(v.claims)
  BY <1>2, <1>3 DEF Opened, Handing
<1>7. CASE Enqueue(r) /\ v.tasks = w.tasks
  <2>1. queued' = queued \cup {<<h, r>>} /\ faults' = faults
    BY <1>7 DEF Enqueue
  <2> HIDE DEF h
  <2>2. HandsOver(r, v)
    BY <1>1, <1>2, <1>4, <1>5, <1>6, <1>7, <2>1, CommittedFacts DEF HandsOver
  <2> QED BY <1>1, <1>3, <1>6, <2>2, AfterCommit DEF Handing
<1>8. CASE EnqueueFails(r) /\ v.tasks = Append(w.tasks, h)
  <2>1. /\ queued' = queued \/ queued' = queued \cup {<<h, r>>}
        /\ faults' = faults + 1
    BY <1>8 DEF EnqueueFails, Fault
  <2>2. Range(v.tasks) = Range(w.tasks) \cup {h}
    BY <1>2, <1>4, <1>8, RangeAppend
  <2> HIDE DEF h
  <2>3. HandsOver(r, v)
    BY <1>1, <1>2, <1>4, <1>5, <1>6, <2>1, <2>2, CommittedFacts DEF HandsOver
  <2> QED BY <1>1, <1>3, <1>6, <2>3, AfterCommit DEF Handing
<1> QED BY <1>3, <1>7, <1>8

LEMMA RunTaskIInv ==
  ASSUME IInv, Base', NEW r \in Requests, RunTask(r)
  PROVE  IInv'
<1> DEFINE w == request[r]
           h == Head(w.tasks)
<1>1. /\ w.pc = "tasks" /\ Committed(r) /\ ran' = ran \cup {<<h, r>>}
      /\ UNCHANGED <<recorded, status, queued, acked, faults>>
  BY DEF RunTask, At, Committed
<1>2. PICK v \in Request :
           /\ Set(r, v) /\ v.pc \in {"done", "tasks"} /\ SameBatch(v, request[r])
           /\ SameTransaction(v, request[r])
           /\ v.claims = request[r].claims /\ v.tasks = Tail(request[r].tasks)
  BY RunTaskDoes DEF IInv, Base
<1>3. w \in Request /\ ShapeOf(w)
  BY <1>2, RequestFacts DEF IInv
<1>4. h \in Messages /\ Range(w.tasks) = {h} \cup Range(v.tasks)
  <2>1. w.tasks \in Seq(Messages) /\ w.tasks # <<>>
    BY <1>1, <1>3 DEF Request, ShapeOf
  <2> QED BY <1>2, <2>1, RangeTail
<1>5. v.pc \notin Opened /\ v.pc \in Handing \cup {"respond", "tasks", "done", "failed"}
      /\ v.pc \notin {"group", "enqueue"}
  BY <1>2 DEF Opened, Handing
<1> HIDE DEF h
<1>6. HandsOver(r, v)
  BY <1>1, <1>2, <1>4, <1>5, CommittedFacts DEF HandsOver
<1> QED BY <1>1, <1>2, <1>5, <1>6, AfterCommit DEF Handing

(* The turn that sends a message commits its status: nothing moves back.   *)
LEMMA OutboundIInv ==
  ASSUME IInv, Base', NEW p \in Sent, OutboundCommitted(p)
  PROVE  IInv'
<1>1. UNCHANGED <<recorded, request, queued, ran, acked, faults>>
  BY DEF OutboundCommitted
<1>2. \A o \in Sent : status[o] \in BeyondSent => status'[o] \in BeyondSent
  BY DEF OutboundCommitted, IInv, Base, TypeOK, BeyondSent
<1>3. Claims'
  BY <1>1 DEF IInv, Claims, AllOrNone, RowsFresh, NothingSkipped, Complete, Owned, Either,
              AckedIsRecorded, DispatchedVisible, Committed, RunsHere, Claiming
<1>4. ASSUME NEW b, NEW u, u.to \in Sent, Kept(u, b) PROVE KeptBy(status', request', u, b)
  BY <1>1, <1>2, <1>4, KeptStays
<1>5. ASSUME NEW q \in Requests,
             request[q].pc \in Opened \/ Committed(q), NEW u \in ReceiptsOf(request[q].batch)
      PROVE  u.to \in Sent
  <2>1. request[q].batch \in Batches
    BY <1>5 DEF IInv, Base, Shape, ShapeOf, Opened, Committed, Handing
  <2> QED BY <2>1, BatchTypes
<1>6. ReceiptsKept'
  <2>1. ASSUME NEW q \in Requests, request[q].pc \in Opened
        PROVE  /\ Range(request[q].receipts) \subseteq ReceiptsOf(request[q].batch)
               /\ \A u \in ReceiptsOf(request[q].batch) :
                    \/ u \in Range(request[q].receipts) \/ u.to \in request[q].dirty
                    \/ KeptBy(status', request', u, request[q].batch)
    BY <1>4, <1>5, <2>1 DEF IInv, ReceiptsKept
  <2>2. ASSUME NEW q \in Requests, Committed(q), NEW u \in ReceiptsOf(request[q].batch)
        PROVE  KeptBy(status', request', u, request[q].batch)
    BY <1>4, <1>5, <2>2 DEF IInv, ReceiptsKept
  <2>3. ASSUME NEW b \in Batches, NEW m \in RoutableOf(b), recorded[m] # None,
               NEW u \in ReceiptsOf(b)
        PROVE  KeptBy(status', request', u, b)
    <3>1. u.to \in Sent
      BY BatchTypes
    <3>2. Kept(u, b)
      BY <2>3 DEF IInv, ReceiptsKept
    <3> QED BY <1>4, <3>1, <3>2
  <2>4. ASSUME NEW q \in Requests, NEW o \in Sent, request[q].view[o] \in BeyondSent
        PROVE  o \in request[q].dirty \/ status'[o] \in BeyondSent
    BY <1>2, <2>4 DEF IInv, ReceiptsKept
  <2>5. \A b \in Batches : \A m \in RoutableOf(b) :
          recorded[m] # None => \A u \in ReceiptsOf(b) : KeptBy(status', request', u, b)
    BY <2>3
  <2> QED BY <1>1, <2>1, <2>2, <2>4, <2>5 DEF ReceiptsKept, Kept, Committed
<1> QED BY <1>3, <1>6 DEF IInv

(* The commit records the whole batch: what the transaction holds and what *)
(* it passed over because it was recorded already.                         *)
LEMMA CommitIInv ==
  ASSUME WholeBatches, IInv, Base', NEW r \in Requests, Commit(r)
  PROVE  IInv'
<1> DEFINE w == request[r]
<1>1. /\ w.pc = "open" /\ w.receipts = <<>> /\ w.messages = <<>>
      /\ recorded' = [m \in Messages |-> IF m \in w.rows THEN r ELSE recorded[m]]
      /\ status' = [o \in Sent |-> IF o \in w.dirty THEN w.view[o] ELSE status[o]]
      /\ UNCHANGED <<queued, ran, acked, faults>>
  BY DEF Commit, At
<1>2. PICK v \in Request :
        /\ Set(r, v) /\ v.pc \in {"respond", "dispatch"}
        /\ SameClaims(v, w) /\ SameBatch(v, w) /\ v.view = Unread /\ v.rows = {}
  BY CommitDoes DEF IInv, Base
<1>3. /\ request'[r] = v /\ \A q \in Requests : q # r => request'[q] = request[q]
      /\ v.batch = w.batch /\ v.missed = w.missed /\ v.claims = w.claims /\ v.tasks = w.tasks
  BY <1>2 DEF Set, IInv, Base, TypeOK, SameBatch, SameClaims
<1>4. /\ w \in Request /\ w.batch \in Batches /\ w.tasks = <<>> /\ None \notin Requests
      /\ \A o \in w.dirty : w.view[o] \in BeyondSent
  BY <1>1, IngestionAssumption DEF IInv, Base, TypeOK, Shape, ShapeOf
<1>5. v.pc \notin Opened /\ v.pc \notin {"group", "enqueue"} /\ Committed(r)'
  BY <1>2, <1>3 DEF Opened, Committed, Handing
(* What the transaction holds ... *)
<1>6. /\ Range(w.claims) = w.rows
      /\ \A m \in w.rows : /\ m \in RoutableOf(w.batch) /\ recorded[m] = None /\ m \in Messages
                           /\ \A q \in Requests : q # r => m \notin request[q].rows
  <2>1. RoutableOf(w.batch) \subseteq Messages
    BY <1>4, BatchTypes
  <2> QED BY <1>1, <2>1, OpenFacts DEF Opened
(* ... becomes its own, with the rest of its batch.                        *)
<1>7. \A m \in Messages :
        /\ recorded[m] # r
        /\ recorded'[m] = r <=> m \in w.rows
        /\ \A q \in Requests : q # r => (recorded'[m] = q <=> recorded[m] = q)
        /\ recorded[m] # None => recorded'[m] # None
        /\ m \notin w.rows => recorded'[m] = recorded[m]
  <2>1. \A m \in Messages : recorded[m] # r
    BY <1>1 DEF IInv, Claims, Owned, Committed, Handing
  <2> QED BY <1>1, <1>4, <1>6, <2>1
<1>8. \A m \in RoutableOf(w.batch) : recorded'[m] # None
  <2>1. \A m \in RoutableOf(w.batch) : m \in w.rows \/ recorded[m] # None
    BY <1>1, OpenFacts, RangeEmpty DEF Opened
  <2>2. RoutableOf(w.batch) \subseteq Messages
    BY <1>4, BatchTypes
  <2> QED BY <1>4, <1>7, <2>1, <2>2
<1>9. ASSUME NEW b \in Batches, b # w.batch, NEW m \in RoutableOf(b)
      PROVE  recorded'[m] = recorded[m]
  <2>1. m \in Messages
    BY BatchTypes
  <2>2. m \notin w.rows
    BY <1>4, <1>6, <1>9 DEF WholeBatches, RoutableOf
  <2> QED BY <1>7, <2>1, <2>2
<1>10. AllOrNone'
  <2> SUFFICES ASSUME NEW b \in Batches
               PROVE  \/ \A m \in RoutableOf(b) : recorded'[m] # None
                      \/ \A m \in RoutableOf(b) : recorded'[m] = None
    BY DEF AllOrNone
  <2>1. CASE b = w.batch
    BY <1>8, <2>1
  <2>2. CASE b # w.batch
    BY <1>9, <2>2 DEF IInv, Claims, AllOrNone
  <2> QED BY <2>1, <2>2
<1>11. RowsFresh'
  <2> SUFFICES ASSUME NEW q \in Requests, NEW m \in request'[q].rows
               PROVE  /\ m \in RoutableOf(request'[q].batch) /\ recorded'[m] = None
                      /\ \A p \in Requests : p # q => m \notin request'[p].rows
    BY DEF RowsFresh
  <2>1. q # r /\ request'[q] = request[q] /\ m \in request[q].rows
    BY <1>2, <1>3
  <2>2. /\ m \in RoutableOf(request[q].batch) /\ recorded[m] = None
        /\ \A p \in Requests : p # q => m \notin request[p].rows
    BY <2>1 DEF IInv, Claims, RowsFresh
  <2>3. m \in Messages
    BY <2>1 DEF IInv, Base, TypeOK, Request
  <2> QED BY <1>2, <1>3, <1>7, <2>1, <2>2, <2>3
<1>12. ASSUME NEW q \in Requests, request'[q].pc \in Opened \/ Committed(q)', q # r
       PROVE  /\ request'[q] = request[q] /\ request[q].batch \in Batches
              /\ RoutableOf(request[q].batch) \subseteq Messages
              /\ \A u \in ReceiptsOf(request[q].batch) : u.to \in Sent
              /\ Committed(q)' <=> Committed(q)
  <2>1. request'[q] = request[q]
    BY <1>3, <1>12
  <2>2. request[q].batch \in Batches
    BY <1>12, <2>1 DEF IInv, Base, Shape, ShapeOf, Opened, Committed, Handing
  <2> QED BY <2>1, <2>2, BatchTypes DEF Committed
<1>13. NothingSkipped'
  <2> SUFFICES ASSUME NEW q \in Requests, request'[q].pc \in Opened
               PROVE  /\ Range(request'[q].messages) \subseteq MessagesOf(request'[q].batch)
                      /\ request'[q].pc # "open" => Head(request'[q].messages) \notin Unroutable
                      /\ \A m \in RoutableOf(request'[q].batch) :
                           \/ m \in Range(request'[q].messages) \cup request'[q].rows
                           \/ recorded'[m] # None
                      /\ Range(request'[q].claims) = request'[q].rows
    BY DEF NothingSkipped, Claiming
  <2>1. q # r
    BY <1>3, <1>5
  <2> QED BY <1>7, <1>12, <2>1 DEF IInv, Claims, NothingSkipped, Claiming
<1>14. Complete'
  <2> SUFFICES ASSUME NEW q \in Requests, Committed(q)', NEW m \in RoutableOf(request'[q].batch)
               PROVE  recorded'[m] # None
    BY DEF Complete
  <2>1. CASE q = r
    BY <1>3, <1>8, <2>1
  <2>2. CASE q # r
    BY <1>7, <1>12, <2>2 DEF IInv, Claims, Complete
  <2> QED BY <2>1, <2>2
<1>15. ASSUME NEW m \in Messages
       PROVE  /\ m \in Range(v.claims) <=> recorded'[m] = r
              /\ <<m, r>> \notin queued /\ <<m, r>> \notin ran
              /\ m \notin Range(v.tasks)
              /\ \A q \in Requests : q # r => (RunsHere(m, q)' <=> RunsHere(m, q))
  <2>1. <<m, r>> \notin queued /\ <<m, r>> \notin ran
    BY <1>7 DEF IInv, Claims, DispatchedVisible, RunsHere
  <2>2. m \notin Range(v.tasks)
    BY <1>3, <1>4, RangeEmpty
  <2>3. \A q \in Requests : q # r => (RunsHere(m, q)' <=> RunsHere(m, q))
    BY <1>1, <1>3 DEF RunsHere
  <2> QED BY <1>3, <1>6, <1>7, <2>1, <2>2, <2>3
<1>16. Owned'
  <2> SUFFICES ASSUME NEW q \in Requests, NEW m \in Messages
               PROVE  /\ request'[q].pc \notin Opened /\ m \in Range(request'[q].claims)
                           => recorded'[m] = q
                      /\ recorded'[m] = q => Committed(q)' \/ request'[q].pc = "failed"
    BY DEF Owned
  <2>1. CASE q = r
    BY <1>3, <1>5, <1>15, <2>1
  <2>2. CASE q # r
    BY <1>3, <1>7, <2>2 DEF IInv, Claims, Owned, Committed
  <2> QED BY <2>1, <2>2
<1>17. Either'
  <2> SUFFICES ASSUME NEW q \in Requests, NEW m \in Messages
               PROVE  /\ RunsHere(m, q)' /\ QueueEnabled => faults > 0
                      /\ ~QueueEnabled => /\ <<m, q>> \notin queued
                                          /\ request'[q].pc \notin {"group", "enqueue"}
                      /\ recorded'[m] = q /\ faults = 0 =>
                           \/ <<m, q>> \in queued \/ RunsHere(m, q)'
                           \/ m \in Range(request'[q].claims)
    BY <1>1 DEF Either
  <2>1. CASE q = r
    BY <1>1, <1>3, <1>5, <1>15, <2>1 DEF RunsHere
  <2>2. CASE q # r
    <3>1. request'[q] = request[q] /\ (recorded'[m] = q <=> recorded[m] = q)
      BY <1>3, <1>7, <2>2
    <3>2. RunsHere(m, q)' <=> RunsHere(m, q)
      BY <1>15, <2>2
    <3> QED BY <3>1, <3>2 DEF IInv, Claims, Either
  <2> QED BY <2>1, <2>2
<1>18. AckedIsRecorded'
  <2> SUFFICES ASSUME NEW b \in acked, NEW m \in RoutableOf(b) PROVE recorded'[m] # None
    BY <1>1 DEF AckedIsRecorded, RoutableOf
  <2>1. m \in Messages
    BY BatchTypes DEF IInv, Base, TypeOK
  <2> QED BY <1>7, <2>1 DEF IInv, Claims, AckedIsRecorded, RoutableOf
<1>19. DispatchedVisible'
  <2> SUFFICES ASSUME NEW m \in Messages, NEW q \in Requests,
                      <<m, q>> \in queued \/ RunsHere(m, q)'
               PROVE  recorded'[m] = q
    BY <1>1 DEF DispatchedVisible
  <2>1. q # r
    BY <1>1, <1>3, <1>15 DEF RunsHere
  <2>2. recorded[m] = q
    BY <1>15, <2>1 DEF IInv, Claims, DispatchedVisible
  <2> QED BY <1>7, <2>1, <2>2
<1>20. Claims'
  BY <1>10, <1>11, <1>13, <1>14, <1>16, <1>17, <1>18, <1>19 DEF Claims
(* No receipt is lost at the commit: what the session changed counts now.  *)
<1>21. \A o \in Sent : status[o] \in BeyondSent \/ o \in w.dirty => status'[o] \in BeyondSent
  BY <1>1, <1>4
<1>22. ASSUME NEW b, NEW u, u.to \in Sent, Kept(u, b) PROVE KeptBy(status', request', u, b)
  <2>1. \A q \in Requests : /\ request'[q].batch = request[q].batch
                            /\ request[q].missed \subseteq request'[q].missed
    BY <1>3
  <2> QED BY <1>21, <1>22, <2>1, KeptStays
<1>23. \A u \in ReceiptsOf(w.batch) : KeptBy(status', request', u, w.batch)
  <2> SUFFICES ASSUME NEW u \in ReceiptsOf(w.batch)
               PROVE  KeptBy(status', request', u, w.batch)
    OBVIOUS
  <2>1. u.to \in Sent
    BY <1>4, BatchTypes
  <2>2. u.to \in w.dirty \/ Kept(u, w.batch)
    BY <1>1, RangeEmpty DEF IInv, ReceiptsKept, Opened
  <2>3. u.to \in w.dirty => KeptBy(status', request', u, w.batch)
    BY <1>21, <2>1 DEF KeptBy
  <2> QED BY <1>22, <2>1, <2>2, <2>3
<1>24. ReceiptsKept'
  <2>1. ASSUME NEW q \in Requests, request'[q].pc \in Opened
        PROVE  /\ Range(request'[q].receipts) \subseteq ReceiptsOf(request'[q].batch)
               /\ \A u \in ReceiptsOf(request'[q].batch) :
                    \/ u \in Range(request'[q].receipts) \/ u.to \in request'[q].dirty
                    \/ KeptBy(status', request', u, request'[q].batch)
    <3>1. q # r
      BY <1>3, <1>5, <2>1
    <3> QED BY <1>12, <1>22, <2>1, <3>1 DEF IInv, ReceiptsKept
  <2>2. ASSUME NEW q \in Requests, Committed(q)', NEW u \in ReceiptsOf(request'[q].batch)
        PROVE  KeptBy(status', request', u, request'[q].batch)
    <3>1. CASE q = r
      BY <1>3, <1>23, <2>2, <3>1
    <3>2. CASE q # r
      BY <1>12, <1>22, <2>2, <3>2 DEF IInv, ReceiptsKept
    <3> QED BY <3>1, <3>2
  <2>3. ASSUME NEW b \in Batches, NEW m \in RoutableOf(b), recorded'[m] # None,
               NEW u \in ReceiptsOf(b)
        PROVE  KeptBy(status', request', u, b)
    <3>1. CASE b = w.batch
      BY <1>23, <3>1
    <3>2. CASE b # w.batch
      <4>1. recorded[m] # None
        BY <1>9, <2>3, <3>2
      <4>2. Kept(u, b)
        BY <4>1 DEF IInv, ReceiptsKept
      <4>3. u.to \in Sent
        BY BatchTypes
      <4> QED BY <1>22, <4>2, <4>3
    <3> QED BY <3>1, <3>2
  <2>4. ASSUME NEW q \in Requests, NEW o \in Sent, request'[q].view[o] \in BeyondSent
        PROVE  o \in request'[q].dirty \/ status'[o] \in BeyondSent
    <3>1. q # r /\ request'[q] = request[q]
      BY <1>2, <1>3, <2>4 DEF Unread, BeyondSent
    <3> QED BY <1>21, <2>4, <3>1 DEF IInv, ReceiptsKept
  <2>5. \A q \in Requests : Committed(q)' =>
          \A u \in ReceiptsOf(request'[q].batch) : KeptBy(status', request', u, request'[q].batch)
    BY <2>2
  <2>6. \A b \in Batches : \A m \in RoutableOf(b) :
          recorded'[m] # None => \A u \in ReceiptsOf(b) : KeptBy(status', request', u, b)
    BY <2>3
  <2> QED BY <2>1, <2>4, <2>5, <2>6 DEF ReceiptsKept, Kept
<1> QED BY <1>20, <1>24 DEF IInv

(* The whole invariant, when Meta repeats its deliveries as they were.     *)
LEMMA NextIInv ==
  ASSUME WholeBatches, IInv, [Next]_vars
  PROVE  IInv'
<1>1. Base'
  BY NextBase DEF IInv
<1>2. CASE UNCHANGED vars
  <2>1. Claims' /\ ReceiptsKept'
    BY <1>2 DEF vars, IInv, Claims, ReceiptsKept, AllOrNone, RowsFresh, NothingSkipped,
                Complete, Owned, Either, AckedIsRecorded, DispatchedVisible, Committed,
                RunsHere, Claiming, Kept
  <2> QED BY <1>1, <2>1 DEF IInv
<1>3. CASE \E r \in Requests, b \in Batches : Deliver(r, b)
  BY <1>1, <1>3, DeliverIInv
<1>4. CASE \E r \in Requests : Refuse(r) \/ Crash(r)
  BY <1>1, <1>4, RefuseIInv, CrashIInv
<1>5. ASSUME NEW r \in Requests, Step(r) PROVE IInv'
  BY <1>1, <1>5, ReadReceiptIInv, CheckIInv, FindLeadIInv, AddLeadIInv, RecordMessageIInv,
     LoseRaceIInv, DeadlockVictimIInv, CommitIInv, HandOnIInv, RunHereIInv, EnqueueIInv,
     RunTaskIInv DEF Step
<1>6. CASE \E o \in Sent : OutboundCommitted(o)
  BY <1>1, <1>6, OutboundIInv
<1> QED BY <1>2, <1>3, <1>4, <1>5, <1>6 DEF Next

LEMMA Invariant == ASSUME WholeBatches PROVE Spec => []IInv
BY InitIInv, NextIInv, PTL DEF Spec

(* Nobody runs a turn whose row is not committed: claims are queued or     *)
(* become tasks only after the commit, and a commit records the claims of  *)
(* its own request.                                                        *)
THEOREM DispatchIsVisible == ASSUME WholeBatches PROVE Spec => []DispatchedVisible
<1>1. IInv => DispatchedVisible
  BY DEF IInv, Claims
<1> QED BY <1>1, Invariant, PTL

(* A 200 is sent only by a request whose commit left the whole batch       *)
(* recorded.                                                               *)
THEOREM AckIsSafe == ASSUME WholeBatches PROVE Spec => []AckedIsRecorded
<1>1. IInv => AckedIsRecorded
  BY DEF IInv, Claims
<1> QED BY <1>1, Invariant, PTL

(* A message is handed over by the request that recorded it and by no      *)
(* other, once, unless a fault left its claim on the stream and in a task. *)
THEOREM HandsOverOnce == ASSUME WholeBatches PROVE Spec => []HandedOverOnce
<1>1. ASSUME IInv PROVE HandedOverOnce
  <2> SUFFICES ASSUME NEW m \in Messages
               PROVE  Cardinality({r \in Requests : <<m, r>> \in queued})
                        + Cardinality({r \in Requests : RunsHere(m, r)}) <= 1 + faults
    BY DEF HandedOverOnce
  <2> DEFINE Q == {r \in Requests : <<m, r>> \in queued}
             H == {r \in Requests : RunsHere(m, r)}
  <2>1. (Q = {} \/ Q = {recorded[m]}) /\ (H = {} \/ H = {recorded[m]})
    BY <1>1 DEF IInv, Claims, DispatchedVisible
  <2>2. (H = {} \/ Q = {}) \/ faults > 0
    BY <1>1 DEF IInv, Claims, Either
  <2>3. faults \in Nat
    BY <1>1, IngestionAssumption DEF IInv, Base, TypeOK
  <2> HIDE DEF Q, H
  <2>4. /\ (Cardinality(Q) = 0 /\ Q = {}) \/ Cardinality(Q) = 1
        /\ (Cardinality(H) = 0 /\ H = {}) \/ Cardinality(H) = 1
    BY <2>1, FS_EmptySet, FS_Singleton
  <2>5. Cardinality({}) = 0
    BY FS_EmptySet
  <2>6. Cardinality(Q) + Cardinality(H) <= 1 + faults
    BY <2>2, <2>3, <2>4, <2>5
  <2> QED BY <2>6 DEF Q, H
<1> QED BY <1>1, Invariant, PTL

(* A recorded message is on the stream, in a task or still to be handed    *)
(* over by its request, which only a fault ends before it has done so.     *)
THEOREM NoStrandedWithoutFault == ASSUME WholeBatches PROVE Spec => []StrandedOnlyByFault
<1>1. ASSUME IInv PROVE StrandedOnlyByFault
  <2> SUFFICES ASSUME faults = 0, NEW m \in Messages, NEW r \in Requests, recorded[m] = r,
                      request[r].pc \in {"done", "failed"}, <<m, r>> \notin queued \cup ran
               PROVE  FALSE
    BY DEF StrandedOnlyByFault, Stranded
  <2>1. request[r].tasks = <<>> /\ request[r].claims = <<>>
    BY <1>1 DEF IInv, Base, Shape, ShapeOf
  <2>2. m \notin Range(request[r].tasks) /\ m \notin Range(request[r].claims)
    BY <2>1, RangeEmpty
  <2> QED BY <1>1, <2>2 DEF IInv, Claims, Either, RunsHere
<1> QED BY <1>1, Invariant, PTL

(* A receipt that says more than SENT leaves its message beyond SENT or    *)
(* came before the turn that sent the message had committed.               *)
THEOREM ReceiptsCount == ASSUME WholeBatches PROVE Spec => []ReceiptLostOnlyEarly
<1>1. ASSUME IInv PROVE ReceiptLostOnlyEarly
  <2> SUFFICES ASSUME NEW r \in Requests, Finished(r),
                      NEW i \in DOMAIN Contents[request[r].batch].receipts,
                      Contents[request[r].batch].receipts[i].status # "SENT",
                      status[Contents[request[r].batch].receipts[i].to] = "SENT"
               PROVE  \E q \in Requests :
                        /\ request[q].batch = request[r].batch
                        /\ Contents[request[r].batch].receipts[i].to \in request[q].missed
    BY DEF ReceiptLostOnlyEarly
  <2> DEFINE u == Contents[request[r].batch].receipts[i]
  <2>1. u \in ReceiptsOf(request[r].batch)
    BY DEF ReceiptsOf, Range
  <2>2. Committed(r)
    BY DEF Finished, Committed
  <2>3. Kept(u, request[r].batch)
    BY <1>1, <2>1, <2>2 DEF IInv, ReceiptsKept
  <2> QED BY <2>3 DEF Kept, KeptBy, BeyondSent
<1> QED BY <1>1, Invariant, PTL
=============================================================================
