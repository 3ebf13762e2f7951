--------------------------- MODULE AccountsProofs ---------------------------
(***************************************************************************)
(* For any number of requests of any kinds: a session signed out stays     *)
(* out, an old password's session raced the change, one sign-up succeeds,  *)
(* and the catalogue holds whole files.                                    *)
(***************************************************************************)
EXTENDS Accounts, OrderLemmas, FiniteSetTheorems

LEMMA NoRequestType ==
  /\ NoRequest \in Request
  /\ NoRequest.pc = "idle" /\ NoRequest.kind = "get" /\ NoRequest.cred = None
  /\ NoRequest.touch = FALSE /\ NoRequest.seen = None /\ NoRequest.patch = {}
  /\ NoRequest.scan = {} /\ NoRequest.todo = <<>> /\ NoRequest.locks = {}
  /\ NoRequest.gone = {} /\ NoRequest.rows = {}
  /\ NoRequest.agent \in [Column -> BOOLEAN]
<1>1. [f \in Column |-> FALSE] \in [Column -> BOOLEAN]
  OBVIOUS
<1>2. <<>> \in Seq(Row)
  BY RangeEmpty
<1>3. "idle" \in PC /\ "get" \in Kinds
  BY DEF PC, Kinds
<1> DEFINE none == [f \in Column |-> FALSE]
<1>4. NoRequest = [pc |-> "idle", kind |-> "get", cred |-> None, touch |-> FALSE,
                   seen |-> None, agent |-> none, patch |-> {},
                   scan |-> {}, todo |-> <<>>, locks |-> {}, gone |-> {}, rows |-> {}]
  BY DEF NoRequest
<1> HIDE DEF none
<1> QED BY <1>1, <1>2, <1>3, <1>4 DEF Request, none

LEMMA EndedType ==
  ASSUME NEW kind \in Kinds, NEW pc \in PC
  PROVE  /\ Ended(kind, pc) \in Request
         /\ Ended(kind, pc).pc = pc /\ Ended(kind, pc).kind = kind
         /\ Ended(kind, pc).cred = None /\ Ended(kind, pc).touch = FALSE
         /\ Ended(kind, pc).scan = {} /\ Ended(kind, pc).todo = <<>> /\ Ended(kind, pc).locks = {}
         /\ Ended(kind, pc).gone = {} /\ Ended(kind, pc).rows = {}
BY NoRequestType DEF Ended, Request

(* A request with nothing to delete takes nothing of any file.             *)
LEMMA NothingDoomed ==
  ASSUME NEW req, req.gone = {}, req.scan = {}
  PROVE  Doomed(req) = {} /\ AllOrNothing(Doomed(req))
BY DEF Doomed, AllOrNothing

-----------------------------------------------------------------------------
(* A step of one request that touches nothing committed.                   *)
LEMMA MoveIInv ==
  ASSUME IInv, NEW r \in Requests, NEW req \in Request, ReadOnly(r, req), Fits(r, req),
         request[r].pc # "done", req.pc # "done",
         req.pc = "created" => \A q \in Requests : ~At(q, "created"),
         \A q \in Requests : q # r => req.locks \cap request[q].locks = {},
         Doomed(req) \subseteq Doomed(request[r]) \cup listings
  PROVE  IInv'
<1>1. /\ request' = [request EXCEPT ![r] = req] /\ request \in [Requests -> Request]
      /\ UNCHANGED <<password, token, sessions, settings, listings, opened, raced, removed, passed>>
  BY DEF ReadOnly, Set, accountVars, IInv, TypeOK
<1>2. /\ request' \in [Requests -> Request] /\ request'[r] = req
      /\ \A q \in Requests : q # r => request'[q] = request[q]
  BY <1>1
<1>3. TypeOK'
  <2>1. \A q, p \in Requests : q # p => request'[q].locks \cap request'[p].locks = {}
    BY <1>2 DEF IInv, TypeOK
  <2>2. \A q \in Requests : At(q, "idle")' => sessions'[q] = "none"
    BY <1>1, <1>2 DEF IInv, TypeOK, At, Fits, SessionsOf, Exists
  <2> QED BY <1>1, <1>2, <2>1, <2>2 DEF IInv, TypeOK
<1>4. ASSUME NEW q \in Requests PROVE Fits(q, request[q])'
  <2>1. Fits(q, request'[q])
    BY <1>2 DEF IInv
  <2>2. Doomed(request[q])' = Doomed(request'[q])
    BY DEF Doomed
  <2> QED BY <1>1, <2>1, <2>2
          DEF Fits, Stage, SessionsOf, ChangeOf, CatalogueOf, AllOrNothing, Exists
<1>5. OneAccount'
  BY <1>1, <1>2 DEF IInv, OneAccount, At, Is, Exists
<1>6. FilesDone'
  <2>1. Whole(listings)' /\ (removed \cap listings = {})'
    BY <1>1 DEF IInv, FilesDone, Whole
  <2>2. ASSUME NEW x \in (listings \cup removed \cup UNION {Doomed(request[q]) : q \in Requests})'
        PROVE  x \in listings \cup removed \cup UNION {Doomed(request[q]) : q \in Requests}
    <3>1. \A q \in Requests : Doomed(request[q])' = Doomed(request'[q])
      BY DEF Doomed
    <3> QED BY <1>1, <1>2, <3>1
  <2>3. \A q \in Requests : At(q, "done") => At(q, "done")'
    BY <1>2 DEF At
  <2> QED BY <2>1, <2>2, <2>3 DEF IInv, FilesDone
<1>7. OldPasswordRaced'
  BY <1>1 DEF IInv, OldPasswordRaced
<1> QED BY <1>3, <1>4, <1>5, <1>6, <1>7 DEF IInv

(* A request that fails leaves nothing behind.                             *)
LEMMA RejectIInv ==
  ASSUME IInv, NEW r \in Requests, NEW kind \in Kinds, Reject(r, kind), request[r].pc # "done"
  PROVE  IInv'
<1> DEFINE req == Ended(kind, "failed")
<1>1. /\ req \in Request /\ req.pc = "failed" /\ req.cred = None /\ req.touch = FALSE
      /\ req.scan = {} /\ req.todo = <<>> /\ req.locks = {} /\ req.gone = {} /\ req.rows = {}
  BY EndedType DEF PC
<1>2. ReadOnly(r, req)
  BY DEF Reject
<1> HIDE DEF req
<1>3. Fits(r, req)
  <2>1. None \notin Names /\ Range(req.todo) = {}
    BY <1>1, AccountsAssumption, RangeEmpty
  <2>2. ~Exists(r)
    BY DEF IInv, Fits, SessionsOf
  <2> QED BY <1>1, <2>1, <2>2, NothingDoomed
          DEF Fits, Stage, SessionsOf, ChangeOf, CatalogueOf, Handled
<1> QED BY <1>1, <1>2, <1>3, NothingDoomed, MoveIInv

(* A handler that ends with its flush: what it made of its request says    *)
(* what the flush will do.                                                 *)
LEMMA FlushIInv ==
  ASSUME IInv, NEW r \in Requests, NEW todo \in Seq(Row), NEW old \in Request,
         Flush(r, todo, old), request[r].pc = "handler",
         old.kind = request[r].kind,
         old.kind \in {"logout", "password"} =>
           \A s \in Names : s \in old.scan \cup Range(todo) => Exists(s),
         old.kind = "password" => \A s \in Names : sessions[s] = "live" => s \in old.scan,
         old.locks = {},
         old.rows # {} => old.rows = {r} \X Lines /\ old.kind \in {"import", "replace"},
         old.gone # {} => old.kind = "delete",
         old.kind = "replace" => old.scan = listings \/ (old.scan = {} /\ old.rows = {}),
         old.gone \subseteq listings
  PROVE  IInv'
<1> DEFINE req == [old EXCEPT !.pc = "flush", !.todo = todo, !.cred = None, !.touch = FALSE,
                              !.seen = None, !.agent = NoRequest.agent]
<1>1. /\ req \in Request /\ req.pc = "flush" /\ req.cred = None /\ req.touch = FALSE
      /\ req.todo = todo /\ req.locks = old.locks /\ req.gone = old.gone /\ req.rows = old.rows
      /\ req.kind = old.kind /\ req.scan = old.scan
  BY NoRequestType DEF Request, PC
<1>2. ReadOnly(r, req)
  BY DEF Flush
<1> HIDE DEF req
<1>3. Fits(r, request[r]) /\ request[r].pc \in Handled
  BY DEF IInv, Handled
<1>4. /\ Doomed(req) = {} \/ Doomed(req) = listings \/ req.kind # "replace"
      /\ Doomed(req) \subseteq listings
  BY <1>1 DEF Doomed
<1>5. Fits(r, req)
  <2>1. None \notin Names
    BY AccountsAssumption
  <2>2. Stage(r, req)
    BY <1>1, <1>3 DEF Fits, Stage, Handled
  <2>3. SessionsOf(r, req)
    BY <1>1, <1>3, <2>1 DEF Fits, SessionsOf
  <2>4. ChangeOf(req)
    BY <1>1 DEF ChangeOf
  <2>5. CatalogueOf(r, req)
    <3>1. req.kind = "replace" => AllOrNothing(Doomed(req))
      BY <1>4 DEF AllOrNothing
    <3>2. req.kind = "replace" /\ req.rows # {} => Doomed(req) = listings
      BY <1>1 DEF Doomed
    <3> QED BY <1>1, <3>1, <3>2 DEF CatalogueOf
  <2> QED BY <2>2, <2>3, <2>4, <2>5 DEF Fits
<1> QED BY <1>1, <1>2, <1>3, <1>4, <1>5, MoveIInv DEF Handled

-----------------------------------------------------------------------------
(* How a request opens.                                                    *)
LEMMA IdleFacts ==
  ASSUME IInv, NEW r \in Requests, At(r, "idle")
  PROVE  request[r] = NoRequest /\ request[r] \in Request /\ ~Exists(r)
BY NoRequestType DEF IInv, Fits, Stage, SessionsOf, At

LEMMA OpenIInv ==
  ASSUME IInv, NEW r \in Requests, Open(r)
  PROVE  IInv'
<1>1. /\ request[r].pc = "idle" /\ request[r] = NoRequest /\ request[r] \in Request /\ ~Exists(r)
      /\ KindsOf[r] \subseteq Kinds /\ None \notin Names /\ Range(<<>>) = {}
  <2>1. At(r, "idle")
    BY DEF Open, TurnAway, SignupInsert, CheckPassword, Authenticate
  <2>2. KindsOf[r] \subseteq Kinds /\ None \notin Names /\ Range(<<>>) = {}
    BY AccountsAssumption, RangeEmpty
  <2> QED BY <2>1, <2>2, IdleFacts DEF At
<1>2. ASSUME NEW kind \in KindsOf[r], TurnAway(r, kind) PROVE IInv'
  BY <1>1, <1>2, RejectIInv DEF TurnAway
<1>3. ASSUME SignupInsert(r) PROVE IInv'
  <2> DEFINE req == [request[r] EXCEPT !.pc = "created", !.kind = "signup"]
  <2>1. /\ req \in Request /\ req.pc = "created" /\ req.kind = "signup" /\ req.cred = None
        /\ req.touch = FALSE /\ req.scan = {} /\ req.todo = <<>> /\ req.locks = {}
        /\ req.gone = {} /\ req.rows = {}
    BY <1>1, NoRequestType DEF Request, PC, Kinds
  <2>2. CASE password = None
    <3>1. ReadOnly(r, req) /\ \A q \in Requests : ~At(q, "created")
      BY <1>3, <2>2 DEF SignupInsert
    <3> HIDE DEF req
    <3>2. Fits(r, req)
      BY <1>1, <2>1, <2>2, NothingDoomed DEF Fits, Stage, SessionsOf, ChangeOf, CatalogueOf, Handled
    <3> QED BY <1>1, <2>1, <3>1, <3>2, NothingDoomed, MoveIInv
  <2>3. CASE password # None
    <3>1. Reject(r, "signup") /\ "signup" \in Kinds
      BY <1>3, <2>3 DEF SignupInsert, Kinds
    <3> QED BY <1>1, <3>1, RejectIInv
  <2> QED BY <2>2, <2>3
<1>4. ASSUME NEW typed \in Names, CheckPassword(r, typed) PROVE IInv'
  <2> DEFINE req == [request[r] EXCEPT !.pc = "verified", !.kind = "login", !.seen = typed]
  <2>1. /\ req \in Request /\ req.pc = "verified" /\ req.kind = "login" /\ req.cred = None
        /\ req.touch = FALSE /\ req.scan = {} /\ req.todo = <<>> /\ req.locks = {}
        /\ req.gone = {} /\ req.rows = {}
    BY <1>1, NoRequestType DEF Request, PC, Kinds
  <2>2. CASE verify_password(typed, password)
    <3>1. ReadOnly(r, req) /\ password # None
      BY <1>4, <2>2 DEF CheckPassword, verify_password
    <3> HIDE DEF req
    <3>2. Fits(r, req)
      BY <1>1, <2>1, <3>1, NothingDoomed DEF Fits, Stage, SessionsOf, ChangeOf, CatalogueOf, Handled
    <3> QED BY <1>1, <2>1, <3>1, <3>2, NothingDoomed, MoveIInv
  <2>3. CASE ~verify_password(typed, password)
    <3>1. Reject(r, "login") /\ "login" \in Kinds
      BY <1>4, <2>3 DEF CheckPassword, Kinds
    <3> QED BY <1>1, <3>1, RejectIInv
  <2> QED BY <2>2, <2>3
<1>5. ASSUME NEW kind \in KindsOf[r], NEW cred \in {s \in Names : sessions[s] # "none"} \cup Tokens,
             NEW touch \in BOOLEAN, Authenticate(r, kind, cred, touch)
      PROVE  IInv'
  <2> DEFINE c == IF cred \in Names THEN cred ELSE None
             req == [request[r] EXCEPT !.pc = "agent", !.kind = kind, !.touch = touch, !.cred = c]
  <2>1. /\ c \in Names \cup {None}
        /\ c \in Names => Exists(c)
        /\ touch => c \in Names
        /\ kind \in Kinds \ {"signup", "login"} /\ password # None
    BY <1>1, <1>5, AccountsAssumption DEF Authenticate, Exists
  <2>2. ReadOnly(r, req) \/ Reject(r, kind)
    BY <1>5 DEF Authenticate
  <2> HIDE DEF c
  <2>6. request[r] \in Request /\ kind \in Kinds /\ "agent" \in PC /\ c \in Names \cup {None}
    BY <1>1, <2>1 DEF PC
  <2>7. /\ req \in Request /\ req.pc = "agent" /\ req.kind = kind /\ req.cred = c
        /\ req.touch = touch
    BY <2>6 DEF Request
  <2>8. /\ req.scan = request[r].scan /\ req.todo = request[r].todo /\ req.locks = request[r].locks
        /\ req.gone = request[r].gone /\ req.rows = request[r].rows
    BY <2>6 DEF Request
  <2>3. /\ req \in Request /\ req.pc = "agent" /\ req.kind = kind /\ req.cred = c
        /\ req.touch = touch /\ req.scan = {} /\ req.todo = <<>> /\ req.locks = {}
        /\ req.gone = {} /\ req.rows = {}
    BY <1>1, <2>7, <2>8, NoRequestType
  <2> HIDE DEF req
  <2>4. CASE ReadOnly(r, req)
    <3>1. Fits(r, req)
      BY <1>1, <2>1, <2>3, NothingDoomed DEF Fits, Stage, SessionsOf, ChangeOf, CatalogueOf, Handled
    <3> QED BY <1>1, <2>3, <2>4, <3>1, NothingDoomed, MoveIInv
  <2>5. CASE Reject(r, kind)
    BY <1>1, <2>1, <2>5, RejectIInv
  <2> QED BY <2>2, <2>4, <2>5
<1> QED BY <1>2, <1>3, <1>4, <1>5 DEF Open

-----------------------------------------------------------------------------
(* What a handler knows of its request.                                    *)
LEMMA HandlerFacts ==
  ASSUME IInv, NEW r \in Requests, request[r].pc \in {"agent", "handler"}
  PROVE  /\ request[r] \in Request /\ Fits(r, request[r])
         /\ request[r].kind \in Kinds \ {"signup", "login"} /\ password # None
         /\ ~Exists(r)
         /\ request[r].scan = {} /\ request[r].todo = <<>> /\ request[r].locks = {}
         /\ request[r].gone = {} /\ request[r].rows = {}
         /\ request[r].cred \in Names => Exists(request[r].cred)
         /\ Touch(r) \in Seq(Row) /\ <<AgentRow>> \o Touch(r) \in Seq(Row)
         /\ \A s \in Names : s \in Range(Touch(r)) => Exists(s)
         /\ \A s \in Names : s \in Range(<<AgentRow>> \o Touch(r)) => Exists(s)
<1>r. request[r] \in Request /\ Fits(r, request[r])
  BY DEF IInv, TypeOK
<1>1. /\ request[r] \in Request /\ Fits(r, request[r])
      /\ request[r].kind \in Kinds
  BY <1>r DEF Request
<1>2. /\ request[r].kind \notin {"signup", "login"} /\ password # None
      /\ request[r].scan = {} /\ request[r].todo = <<>> /\ request[r].locks = {}
      /\ request[r].gone = {}
  BY <1>1 DEF Fits, Stage, Handled
<1>3. /\ ~Exists(r)
      /\ request[r].cred \in Names => Exists(request[r].cred)
      /\ request[r].touch => request[r].cred \in Names
  BY <1>1 DEF Fits, SessionsOf
<1>4. request[r].rows = {}
  BY <1>1 DEF Fits, CatalogueOf
<1>5. Names \subseteq Row /\ AgentRow \in Row /\ AgentRow \notin Names
  BY AccountsAssumption DEF Row
<1>6. Touch(r) \in Seq(Row) /\ Range(Touch(r)) \subseteq {s \in Names : Exists(s)}
  <2>1. CASE request[r].touch
    <3>1. request[r].cred \in Row /\ Touch(r) = <<request[r].cred>>
      BY <1>3, <1>5, <2>1 DEF Touch
    <3> QED BY <1>3, <2>1, <3>1, RangeOne
  <2>2. CASE ~request[r].touch
    BY <2>2, RangeEmpty DEF Touch
  <2> QED BY <2>1, <2>2
<1>7. /\ <<AgentRow>> \o Touch(r) \in Seq(Row)
      /\ Range(<<AgentRow>> \o Touch(r)) = {AgentRow} \cup Range(Touch(r))
  <2> DEFINE one == <<AgentRow>>
  <2>1. one \in Seq(Row) /\ Range(one) = {AgentRow}
    BY <1>5, RangeOne
  <2> HIDE DEF one
  <2>2. one \o Touch(r) \in Seq(Row) /\ Range(one \o Touch(r)) = Range(one) \cup Range(Touch(r))
    BY <2>1, <1>6, RangeConcat
  <2> QED BY <2>1, <2>2 DEF one
<1> QED BY <1>1, <1>2, <1>3, <1>4, <1>5, <1>6, <1>7

(* A handler that only queues what it writes: nothing is locked yet.       *)
LEMMA PlainFlushIInv ==
  ASSUME IInv, NEW r \in Requests, request[r].pc = "handler", NEW todo \in Seq(Row),
         NEW old \in Request, Flush(r, todo, old),
         old.kind = request[r].kind, old.kind # "password",
         old.kind = "logout" => \A s \in Names : s \in Range(todo) => Exists(s),
         old.locks = {}, old.scan = {},
         old.rows # {} => old.rows = {r} \X Lines /\ old.kind = "import",
         old.gone # {} => old.kind = "delete",
         old.gone \subseteq listings
  PROVE  IInv'
<1>1. old.kind = "replace" => old.rows = {}
  OBVIOUS
<1> QED BY <1>1, FlushIInv

LEMMA WriteRowIInv ==
  ASSUME IInv, NEW r \in Requests, WriteRow(r)
  PROVE  IInv'
<1> DEFINE locks == request[r].locks \cup {Head(request[r].todo)}
           todo == Tail(request[r].todo)
           req == [request[r] EXCEPT !.locks = locks, !.todo = todo]
<1>1. /\ request[r] \in Request /\ Fits(r, request[r]) /\ request[r].pc = "flush"
      /\ ReadOnly(r, req) /\ Free(r, Head(request[r].todo)) /\ request[r].todo # <<>>
  BY DEF IInv, TypeOK, WriteRow, At
<1>2. request[r].todo \in Seq(Row) /\ request[r].locks \subseteq Row
  BY <1>1 DEF Request
<1>3. /\ locks \subseteq Row /\ todo \in Seq(Row)
      /\ locks \cup Range(todo) = request[r].locks \cup Range(request[r].todo)
  BY <1>1, <1>2, RangeTail
<1>4. \A q \in Requests : q # r => locks \cap request[q].locks = {}
  BY <1>1 DEF Free, IInv, TypeOK
<1>5. request[r].locks \subseteq locks
  OBVIOUS
<1> HIDE DEF locks, todo
<1>6. /\ req \in Request /\ req.pc = "flush" /\ req.locks = locks /\ req.todo = todo
      /\ req.kind = request[r].kind /\ req.cred = request[r].cred /\ req.touch = request[r].touch
      /\ req.gone = request[r].gone /\ req.rows = request[r].rows /\ req.scan = request[r].scan
  BY <1>1, <1>3 DEF Request
<1> HIDE DEF req
<1>d. Doomed(req) = Doomed(request[r])
  BY <1>6 DEF Doomed
<1>7. Fits(r, req)
  <2>1. Stage(r, req)
    BY <1>1, <1>6 DEF Fits, Stage, Handled
  <2>2. SessionsOf(r, req)
    BY <1>1, <1>3, <1>6 DEF Fits, SessionsOf
  <2>3. ChangeOf(req)
    BY <1>1, <1>5, <1>6 DEF Fits, ChangeOf
  <2>4. CatalogueOf(r, req)
    BY <1>1, <1>6, <1>d DEF Fits, CatalogueOf
  <2> QED BY <2>1, <2>2, <2>3, <2>4 DEF Fits
<1> QED BY <1>1, <1>4, <1>6, <1>7, <1>d, MoveIInv

(* The two statements that come to a row.                                  *)
LEMMA RevokeRowIInv ==
  ASSUME IInv, NEW r \in Requests, NEW s \in Names, RevokeRow(r, s)
  PROVE  IInv'
<1> DEFINE scan == request[r].scan \ {s}
           locks == request[r].locks \cup ({s} \cap SignedIn)
           req == [request[r] EXCEPT !.scan = scan, !.locks = locks]
<1>1. /\ request[r] \in Request /\ Fits(r, request[r]) /\ request[r].pc = "flush"
      /\ request[r].kind = "password" /\ s \in request[r].scan /\ Free(r, s) /\ ReadOnly(r, req)
  BY DEF IInv, TypeOK, RevokeRow, At, Is
<1>2. request[r].scan \subseteq Row /\ request[r].locks \subseteq Row
  BY <1>1 DEF Request
<1>3. /\ scan \subseteq Row /\ locks \subseteq Row
      /\ scan \cup locks \subseteq request[r].scan \cup request[r].locks
      /\ \A t \in Names : sessions[t] = "live" /\ t \in request[r].scan \cup request[r].locks
                            => t \in scan \cup locks
  BY <1>1, <1>2 DEF SignedIn
<1>4. \A q \in Requests : q # r => locks \cap request[q].locks = {}
  BY <1>1 DEF Free, IInv, TypeOK
<1> HIDE DEF scan, locks
<1>5. /\ req \in Request /\ req.pc = "flush" /\ req.scan = scan /\ req.locks = locks
      /\ req.todo = request[r].todo /\ req.kind = "password"
      /\ req.cred = request[r].cred /\ req.touch = request[r].touch
      /\ req.gone = request[r].gone /\ req.rows = request[r].rows
  BY <1>1, <1>3 DEF Request
<1> HIDE DEF req
<1>6. Doomed(req) = request[r].gone /\ Doomed(request[r]) = request[r].gone
  BY <1>1, <1>5 DEF Doomed
<1>7. Fits(r, req)
  <2>1. Stage(r, req)
    BY <1>1, <1>5 DEF Fits, Stage, Handled
  <2>2. SessionsOf(r, req)
    BY <1>1, <1>3, <1>5 DEF Fits, SessionsOf
  <2>3. ChangeOf(req)
    BY <1>1, <1>3, <1>5 DEF Fits, ChangeOf
  <2>4. CatalogueOf(r, req)
    BY <1>1, <1>5 DEF Fits, CatalogueOf
  <2> QED BY <2>1, <2>2, <2>3, <2>4 DEF Fits
<1> QED BY <1>1, <1>4, <1>5, <1>6, <1>7, MoveIInv

LEMMA DeleteRowIInv ==
  ASSUME IInv, NEW r \in Requests, NEW x \in Listing, DeleteRow(r, x)
  PROVE  IInv'
<1> DEFINE taken == {x} \cap listings
           scan == request[r].scan \ {x}
           locks == request[r].locks \cup taken
           gone == request[r].gone \cup taken
           req == [request[r] EXCEPT !.scan = scan, !.locks = locks, !.gone = gone]
<1>1. /\ request[r] \in Request /\ Fits(r, request[r]) /\ request[r].pc = "flush"
      /\ request[r].kind = "replace" /\ x \in request[r].scan /\ Free(r, x) /\ ReadOnly(r, req)
  BY DEF IInv, TypeOK, DeleteRow, At, Is
<1>2. /\ request[r].scan \subseteq Row /\ request[r].locks \subseteq Row
      /\ request[r].gone \subseteq Listing /\ Listing \subseteq Row
  BY <1>1 DEF Request, Row
<1>3. /\ scan \subseteq Row /\ locks \subseteq Row /\ gone \subseteq Listing
      /\ gone \cup scan \subseteq request[r].gone \cup request[r].scan
      /\ (gone \cup scan) \cap listings = (request[r].gone \cup request[r].scan) \cap listings
  BY <1>1, <1>2
<1>4. \A q \in Requests : q # r => locks \cap request[q].locks = {}
  BY <1>1 DEF Free, IInv, TypeOK
<1> HIDE DEF scan, locks, gone
<1>5. /\ req \in Request /\ req.pc = "flush" /\ req.scan = scan /\ req.locks = locks
      /\ req.todo = request[r].todo /\ req.kind = "replace"
      /\ req.cred = request[r].cred /\ req.touch = request[r].touch
      /\ req.gone = gone /\ req.rows = request[r].rows
  BY <1>1, <1>3 DEF Request
<1> HIDE DEF req
<1>6. /\ Doomed(req) \subseteq Doomed(request[r])
      /\ Doomed(req) \cap listings = Doomed(request[r]) \cap listings
  BY <1>1, <1>3, <1>5 DEF Doomed
<1>7. Fits(r, req)
  <2>1. Stage(r, req) /\ SessionsOf(r, req) /\ ChangeOf(req)
    BY <1>1, <1>5 DEF Fits, Stage, SessionsOf, ChangeOf, Handled
  <2>2. AllOrNothing(Doomed(req))
    <3>1. AllOrNothing(Doomed(request[r]))
      BY <1>1 DEF Fits, CatalogueOf
    <3> QED BY <1>6, <3>1 DEF AllOrNothing
  <2>3. CatalogueOf(r, req)
    BY <1>1, <1>5, <1>6, <2>2 DEF Fits, CatalogueOf
  <2> QED BY <2>1, <2>3 DEF Fits
<1> QED BY <1>1, <1>4, <1>5, <1>6, <1>7, MoveIInv

(* The handlers.                                                           *)
LEMMA LoadAgentIInv ==
  ASSUME IInv, NEW r \in Requests, LoadAgent(r)
  PROVE  IInv'
<1> DEFINE req == [request[r] EXCEPT !.pc = "handler", !.seen = password, !.agent = settings]
<1>1. request[r].pc = "agent" /\ ReadOnly(r, req)
  BY DEF LoadAgent, At
<1>2. /\ request[r] \in Request /\ Fits(r, request[r]) /\ request[r].locks = {}
      /\ request[r].rows = {} /\ request[r].gone = {} /\ request[r].todo = <<>>
      /\ request[r].scan = {}
  BY <1>1, HandlerFacts
<1>3. password \in Names \cup {None} /\ settings \in [Column -> BOOLEAN]
  BY DEF IInv, TypeOK
<1>4. /\ req \in Request /\ req.pc = "handler" /\ req.locks = request[r].locks
      /\ req.todo = request[r].todo /\ req.kind = request[r].kind
      /\ req.cred = request[r].cred /\ req.touch = request[r].touch
      /\ req.gone = request[r].gone /\ req.rows = request[r].rows /\ req.scan = request[r].scan
  BY <1>2, <1>3 DEF Request, PC
<1> HIDE DEF req
<1>5. Fits(r, req)
  BY <1>1, <1>2, <1>4, NothingDoomed DEF Fits, Stage, SessionsOf, ChangeOf, CatalogueOf, Handled
<1> QED BY <1>1, <1>2, <1>4, <1>5, NothingDoomed, MoveIInv

LEMMA ChangePasswordIInv ==
  ASSUME IInv, NEW r \in Requests, NEW typed \in Names, ChangePassword(r, typed)
  PROVE  IInv'
<1> DEFINE old == [request[r] EXCEPT !.scan = SignedIn]
           todo == <<AgentRow>> \o Touch(r)
<1>1. /\ request[r].pc = "handler" /\ request[r].kind = "password"
      /\ Flush(r, todo, old) \/ Reject(r, "password")
  BY DEF ChangePassword, At, Is
<1>2. /\ request[r] \in Request /\ request[r].locks = {} /\ todo \in Seq(Row)
      /\ request[r].rows = {} /\ request[r].gone = {}
      /\ \A s \in Names : s \in Range(todo) => Exists(s)
  BY <1>1, HandlerFacts
<1>3. /\ SignedIn \subseteq Row /\ \A s \in SignedIn : Exists(s)
      /\ \A s \in Names : sessions[s] = "live" => s \in SignedIn
  BY DEF SignedIn, Row, Exists
<1>4. /\ old \in Request /\ old.locks = {} /\ old.kind = "password" /\ old.scan = SignedIn
      /\ old.rows = {} /\ old.gone = {}
  BY <1>1, <1>2, <1>3 DEF Request
<1> HIDE DEF old, todo
<1>5. CASE Flush(r, todo, old)
  BY <1>1, <1>2, <1>3, <1>4, <1>5, FlushIInv
<1>6. CASE Reject(r, "password")
  <2>1. "password" \in Kinds
    BY DEF Kinds
  <2> QED BY <1>1, <1>6, <2>1, RejectIInv
<1> QED BY <1>1, <1>5, <1>6

LEMMA ImportIInv ==
  ASSUME IInv, NEW r \in Requests, NEW good \in SUBSET Lines, Import(r, good)
  PROVE  IInv'
<1>1. /\ request[r].pc = "handler" /\ request[r].kind \in {"import", "replace"}
      /\ FileRows(r, Lines) = {r} \X Lines
  BY DEF Import, At, FileRows
<1>2. /\ request[r] \in Request /\ Fits(r, request[r]) /\ request[r].locks = {} /\ request[r].scan = {}
      /\ request[r].rows = {} /\ request[r].gone = {} /\ request[r].todo = <<>>
      /\ Touch(r) \in Seq(Row)
  BY <1>1, HandlerFacts
<1>3. {r} \X Lines \subseteq Listing
  BY DEF Listing, Names
<1>4. CASE good = Lines
  <2> DEFINE rows == {r} \X Lines
             scan == IF request[r].kind = "replace" THEN listings ELSE {}
             old == [request[r] EXCEPT !.scan = scan, !.rows = rows]
  <2>1. Flush(r, Touch(r), old)
    BY <1>1, <1>4 DEF Import, Is, Replaced
  <2>2. /\ rows \subseteq Listing /\ scan \subseteq Row
        /\ request[r].kind = "replace" => scan = listings
    BY <1>3 DEF IInv, TypeOK, Row
  <2> HIDE DEF rows, scan
  <2>3. /\ old \in Request /\ old.locks = {} /\ old.kind = request[r].kind
        /\ old.gone = {} /\ old.rows = rows /\ old.scan = scan
    BY <1>2, <2>2 DEF Request
  <2> HIDE DEF old
  <2> QED BY <1>1, <1>2, <2>1, <2>2, <2>3, FlushIInv DEF rows
<1>5. CASE good # Lines
  <2>1. Flush(r, Touch(r), request[r])
    BY <1>5 DEF Import
  <2> QED BY <1>1, <1>2, <2>1, PlainFlushIInv
<1> QED BY <1>4, <1>5

LEMMA DeleteListingIInv ==
  ASSUME IInv, NEW r \in Requests, NEW x \in Listing, DeleteListing(r, x)
  PROVE  IInv'
<1>1. request[r].pc = "handler" /\ request[r].kind = "delete"
  BY DEF DeleteListing, At, Is
<1>2. /\ request[r] \in Request /\ request[r].locks = {} /\ request[r].scan = {}
      /\ request[r].rows = {} /\ Touch(r) \in Seq(Row)
  BY <1>1, HandlerFacts
<1>3. CASE x \in listings
  <2> DEFINE old == [request[r] EXCEPT !.gone = {x}]
             one == <<x>>
  <2>1. Flush(r, Touch(r) \o one, old)
    BY <1>3 DEF DeleteListing
  <2>2. one \in Seq(Row)
    BY RangeOne DEF Row
  <2> HIDE DEF one
  <2>3. Touch(r) \o one \in Seq(Row)
    BY <1>2, <2>2, RangeConcat
  <2>4. /\ old \in Request /\ old.locks = {} /\ old.scan = {} /\ old.kind = request[r].kind
        /\ old.gone = {x} /\ old.rows = {}
    BY <1>2 DEF Request
  <2> HIDE DEF old
  <2> QED BY <1>1, <1>3, <2>1, <2>3, <2>4, PlainFlushIInv
<1>4. CASE x \notin listings
  <2>1. Reject(r, request[r].kind) /\ request[r].kind \in Kinds
    BY <1>2, <1>4 DEF DeleteListing, Request
  <2> QED BY <1>1, <2>1, RejectIInv
<1> QED BY <1>3, <1>4

LEMMA PatchIInv ==
  ASSUME IInv, NEW r \in Requests, request[r].pc = "handler",
         request[r].kind \in {"settings", "status"},
         NEW patch \in SUBSET (Column \X BOOLEAN),
         Flush(r, <<AgentRow>> \o Touch(r), [request[r] EXCEPT !.patch = patch])
  PROVE  IInv'
<1> DEFINE old == [request[r] EXCEPT !.patch = patch]
           todo == <<AgentRow>> \o Touch(r)
<1>1. /\ request[r] \in Request /\ request[r].locks = {} /\ request[r].scan = {} /\ request[r].gone = {}
      /\ request[r].rows = {} /\ todo \in Seq(Row)
  BY HandlerFacts
<1>2. /\ old \in Request /\ old.locks = {} /\ old.scan = {} /\ old.kind = request[r].kind
      /\ old.gone = {} /\ old.rows = {}
  BY <1>1 DEF Request
<1>3. Flush(r, todo, old)
  OBVIOUS
<1> HIDE DEF old, todo
<1> QED BY <1>1, <1>2, <1>3, PlainFlushIInv

LEMMA HandleIInv ==
  ASSUME IInv, NEW r \in Requests, Handle(r)
  PROVE  IInv'
<1>1. CASE LoadAgent(r)
  BY <1>1, LoadAgentIInv
<1>2. CASE Get(r)
  <2>1. /\ request[r].pc = "handler" /\ request[r].kind = "get"
        /\ Flush(r, Touch(r), request[r])
    BY <1>2 DEF Get, At, Is
  <2>2. /\ request[r] \in Request /\ request[r].locks = {} /\ request[r].scan = {} /\ request[r].gone = {}
        /\ request[r].rows = {} /\ Touch(r) \in Seq(Row)
    BY <2>1, HandlerFacts
  <2> QED BY <2>1, <2>2, PlainFlushIInv
<1>3. CASE Invalid(r)
  <2>1. /\ request[r].pc = "handler" /\ Reject(r, request[r].kind)
    BY <1>3 DEF Invalid, At
  <2>2. request[r].kind \in Kinds
    BY <2>1, HandlerFacts
  <2> QED BY <2>1, <2>2, RejectIInv
<1>4. CASE Logout(r)
  <2> DEFINE todo == IF request[r].cred \in Names THEN <<request[r].cred>> ELSE <<>>
  <2>1. /\ request[r].pc = "handler" /\ request[r].kind = "logout" /\ Flush(r, todo, request[r])
    BY <1>4 DEF Logout, At, Is
  <2>2. /\ request[r] \in Request /\ request[r].locks = {} /\ request[r].scan = {} /\ request[r].gone = {}
        /\ request[r].rows = {}
        /\ request[r].cred \in Names => Exists(request[r].cred)
    BY <2>1, HandlerFacts
  <2>3. /\ todo \in Seq(Row)
        /\ \A s \in Names : s \in Range(todo) => Exists(s)
    <3>1. CASE request[r].cred \in Names
      <4>1. request[r].cred \in Row /\ todo = <<request[r].cred>>
        BY <3>1 DEF Row
      <4> QED BY <2>2, <3>1, <4>1, RangeOne
    <3>2. CASE request[r].cred \notin Names
      BY <3>2, RangeEmpty
    <3> QED BY <3>1, <3>2
  <2> HIDE DEF todo
  <2> QED BY <2>1, <2>2, <2>3, PlainFlushIInv
<1>5. ASSUME NEW typed \in Names, ChangePassword(r, typed) PROVE IInv'
  BY <1>5, ChangePasswordIInv
<1>6. ASSUME NEW f \in Field, NEW v \in BOOLEAN, UpdateSettings(r, f, v) PROVE IInv'
  <2>1. {<<f, v>>} \in SUBSET (Column \X BOOLEAN)
    BY DEF Column
  <2>2. request[r].pc = "handler" /\ request[r].kind = "settings"
    BY <1>6 DEF UpdateSettings, At, Is
  <2>3. Flush(r, <<AgentRow>> \o Touch(r), [request[r] EXCEPT !.patch = {<<f, v>>}])
    BY <1>6 DEF UpdateSettings
  <2> QED BY <2>1, <2>2, <2>3, PatchIInv
<1>7. CASE OnboardingStatus(r)
  <2> DEFINE patch == {<<"onboarded", TRUE>>}
  <2>1. request[r].pc = "handler" /\ request[r].kind = "status"
    BY <1>7 DEF OnboardingStatus, At, Is
  <2>2. /\ request[r] \in Request /\ request[r].locks = {} /\ request[r].scan = {} /\ request[r].gone = {}
        /\ request[r].rows = {} /\ Touch(r) \in Seq(Row)
    BY <2>1, HandlerFacts
  <2>3. patch \in SUBSET (Column \X BOOLEAN)
    <3>1. \A f \in Column, v \in BOOLEAN : {<<f, v>>} \in SUBSET (Column \X BOOLEAN)
      OBVIOUS
    <3>2. "onboarded" \in Column /\ TRUE \in BOOLEAN
      BY DEF Column
    <3> QED BY <3>1, <3>2, Zenon
  <2>4. \/ Flush(r, <<AgentRow>> \o Touch(r), [request[r] EXCEPT !.patch = patch])
        \/ Flush(r, Touch(r), request[r])
    BY <1>7 DEF OnboardingStatus
  <2> HIDE DEF patch
  <2>5. CASE Flush(r, <<AgentRow>> \o Touch(r), [request[r] EXCEPT !.patch = patch])
    BY <2>1, <2>3, <2>5, PatchIInv
  <2>6. CASE Flush(r, Touch(r), request[r])
    BY <2>1, <2>2, <2>6, PlainFlushIInv
  <2> QED BY <2>4, <2>5, <2>6
<1>8. ASSUME NEW good \in SUBSET Lines, Import(r, good) PROVE IInv'
  BY <1>8, ImportIInv
<1>9. ASSUME NEW x \in Listing, DeleteListing(r, x) PROVE IInv'
  BY <1>9, DeleteListingIInv
<1>10. ASSUME NEW s \in Names, RevokeRow(r, s) PROVE IInv'
  BY <1>10, RevokeRowIInv
<1>11. ASSUME NEW x \in Listing, DeleteRow(r, x) PROVE IInv'
  BY <1>11, DeleteRowIInv
<1>12. CASE WriteRow(r)
  BY <1>12, WriteRowIInv
<1> QED BY <1>1, <1>2, <1>3, <1>4, <1>5, <1>6, <1>7, <1>8, <1>9, <1>10, <1>11, <1>12 DEF Handle

-----------------------------------------------------------------------------
(* The three commits.                                                      *)
LEMMA SucceedDoes ==
  ASSUME IInv, NEW r \in Requests, Succeed(r)
  PROVE  /\ request' \in [Requests -> Request]
         /\ \A q \in Requests : q # r => request'[q] = request[q]
         /\ request'[r].pc = "done" /\ request'[r].kind = request[r].kind
         /\ request'[r].cred = None /\ request'[r].touch = FALSE
         /\ request'[r].scan = {} /\ request'[r].todo = <<>> /\ request'[r].locks = {}
         /\ request'[r].gone = {} /\ request'[r].rows = request[r].rows
<1> DEFINE ended == Ended(request[r].kind, "done")
           new == [ended EXCEPT !.rows = request[r].rows]
<1>1. request \in [Requests -> Request] /\ request[r] \in Request
  BY DEF IInv, TypeOK
<1>2. request[r].kind \in Kinds /\ request[r].rows \subseteq Listing /\ "done" \in PC
  BY <1>1 DEF Request, PC
<1>3. /\ ended \in Request /\ ended.pc = "done" /\ ended.kind = request[r].kind
      /\ ended.cred = None /\ ended.touch = FALSE
      /\ ended.scan = {} /\ ended.todo = <<>> /\ ended.locks = {} /\ ended.gone = {}
  <2>1. request[r].kind \in Kinds /\ "done" \in PC
    BY <1>2
  <2>2. PICK k \in Kinds : k = request[r].kind
    BY <2>1
  <2>3. ended = Ended(k, "done")
    BY <2>2
  <2> HIDE DEF ended
  <2> QED BY <2>1, <2>2, <2>3, EndedType
<1>4. request' = [request EXCEPT ![r] = new]
  BY DEF Succeed, Set
<1> HIDE DEF ended
<1>5. /\ new \in Request /\ new.pc = "done" /\ new.kind = request[r].kind
      /\ new.cred = None /\ new.touch = FALSE
      /\ new.scan = {} /\ new.todo = <<>> /\ new.locks = {} /\ new.gone = {} /\ new.rows = request[r].rows
  BY <1>2, <1>3 DEF Request
<1> HIDE DEF new
<1>6. request'[r] = new /\ request' \in [Requests -> Request]
  BY <1>1, <1>4, <1>5
<1> QED BY <1>1, <1>4, <1>5, <1>6

(* Types and locks after a commit.                                         *)
LEMMA CommitType ==
  ASSUME IInv, NEW r \in Requests, Succeed(r), token' = token,
         password' \in Names \cup {None},
         sessions' \in [Names -> {"none", "live", "expired", "revoked"}],
         \A q \in Requests : q # r /\ sessions[q] = "none" => sessions'[q] = "none",
         settings' \in [Column -> BOOLEAN], listings' \subseteq Listing,
         opened' \in [Names -> Names \cup {None}],
         raced' \subseteq Names, removed' \subseteq Listing, passed' \subseteq Names \X Requests
  PROVE  TypeOK'
<1>1. /\ request' \in [Requests -> Request]
      /\ \A q \in Requests : q # r => request'[q] = request[q]
      /\ request'[r].pc = "done" /\ request'[r].locks = {}
  BY SucceedDoes
<1>2. \A q, p \in Requests : q # p => request'[q].locks \cap request'[p].locks = {}
  BY <1>1 DEF IInv, TypeOK
<1>3. \A q \in Requests : request'[q].pc = "idle" => sessions'[q] = "none"
  BY <1>1 DEF IInv, TypeOK, At
<1>4. token \in Tokens
  BY DEF IInv, TypeOK
<1> QED BY <1>1, <1>2, <1>3, <1>4 DEF TypeOK, At

LEMMA FirstSettings == [f \in Column |-> f = "hours"] \in [Column -> BOOLEAN]
OBVIOUS

LEMMA SignupCommitIInv ==
  ASSUME IInv, NEW r \in Requests, SignupCommit(r)
  PROVE  IInv'
<1>1. /\ Succeed(r) /\ request[r].pc = "created" /\ password' = r
      /\ sessions' = [sessions EXCEPT ![r] = "live"] /\ opened' = [opened EXCEPT ![r] = r]
      /\ settings' = [f \in Column |-> f = "hours"]
      /\ UNCHANGED <<token, listings, raced, removed, passed>>
  BY DEF SignupCommit, At, create_session
<1>2. /\ request' \in [Requests -> Request]
      /\ \A q \in Requests : q # r => request'[q] = request[q]
      /\ request'[r].pc = "done" /\ request'[r].kind = request[r].kind
      /\ request'[r].cred = None /\ request'[r].touch = FALSE
      /\ request'[r].scan = {} /\ request'[r].todo = <<>> /\ request'[r].locks = {}
      /\ request'[r].gone = {} /\ request'[r].rows = request[r].rows
  BY <1>1, SucceedDoes
<1>3. /\ request[r].kind = "signup" /\ password = None /\ request[r].rows = {}
      /\ r \in Names /\ None \notin Names
  BY <1>1, AccountsAssumption DEF IInv, Fits, Stage, CatalogueOf, Names
<1>4. /\ \A s \in Names : sessions[s] = "none"
      /\ \A s \in Names : s # r => sessions'[s] = sessions[s]
      /\ sessions'[r] = "live" /\ opened'[r] = r
      /\ sessions' \in [Names -> {"none", "live", "expired", "revoked"}]
      /\ opened' \in [Names -> Names \cup {None}]
  BY <1>1, <1>3 DEF IInv, OneAccount, Exists, TypeOK
<1>5. TypeOK'
  <2>1. /\ listings \subseteq Listing /\ raced \subseteq Names
        /\ removed \subseteq Listing /\ passed \subseteq Names \X Requests
    BY DEF IInv, TypeOK
  <2>2. settings' \in [Column -> BOOLEAN]
    BY <1>1, FirstSettings
  <2>3. \A q \in Requests : q # r /\ sessions[q] = "none" => sessions'[q] = "none"
    BY <1>4 DEF Names
  <2> QED BY <1>1, <1>3, <1>4, <2>1, <2>2, <2>3, CommitType
<1>6. ASSUME NEW q \in Requests PROVE Fits(q, request[q])'
  <2>1. CASE q = r
    <3>1. Stage(q, request[q])' /\ ChangeOf(request[q])'
      BY <1>1, <1>2, <1>3, <2>1 DEF Stage, ChangeOf, Handled
    <3>2. SessionsOf(q, request[q])'
      BY <1>2, <1>3, <2>1, RangeEmpty DEF SessionsOf
    <3>3. CatalogueOf(q, request[q])'
      BY <1>2, <1>3, <2>1, NothingDoomed DEF CatalogueOf, Doomed, AllOrNothing
    <3> QED BY <3>1, <3>2, <3>3 DEF Fits
  <2>2. CASE q # r
    <3>1. /\ Fits(q, request[q]) /\ request'[q] = request[q]
          /\ request[q].pc \notin Handled \cup {"created", "verified"}
      BY <1>1, <1>2, <1>3, <2>2 DEF IInv, Fits, Stage, OneAccount, At
    <3>2. Stage(q, request[q])' /\ ChangeOf(request[q])' /\ CatalogueOf(q, request[q])'
      BY <1>1, <1>3, <3>1 DEF Fits, Stage, ChangeOf, CatalogueOf, Handled, Doomed, AllOrNothing
    <3>3. SessionsOf(q, request[q])'
      BY <1>4, <2>2, <3>1 DEF Fits, SessionsOf, Exists, Names
    <3> QED BY <3>2, <3>3 DEF Fits
  <2> QED BY <2>1, <2>2
<1>7. OneAccount'
  <2>1. \A q \in Requests : q # r => request[q].pc # "created" /\ ~(request[q].pc = "done" /\ request[q].kind = "signup")
    BY <1>1, <1>3 DEF IInv, Fits, Stage, OneAccount, At
  <2> QED BY <1>1, <1>2, <1>3, <2>1 DEF OneAccount, At, Is
<1>8. FilesDone'
  <2>1. \A q \in Requests : Doomed(request[q])' \subseteq Doomed(request[q])
    BY <1>2 DEF Doomed
  <2>2. \A q \in Requests : At(q, "done") => At(q, "done")'
    BY <1>1, <1>2 DEF At
  <2> QED BY <1>1, <2>1, <2>2 DEF IInv, FilesDone, Whole
<1>9. OldPasswordRaced'
  BY <1>1, <1>4 DEF OldPasswordRaced
<1> QED BY <1>5, <1>6, <1>7, <1>8, <1>9 DEF IInv

LEMMA LoginCommitIInv ==
  ASSUME IInv, NEW r \in Requests, LoginCommit(r)
  PROVE  IInv'
<1>1. /\ Succeed(r) /\ request[r].pc = "verified"
      /\ sessions' = [sessions EXCEPT ![r] = "live"]
      /\ opened' = [opened EXCEPT ![r] = request[r].seen]
      /\ raced' = raced \cup (IF Changing \/ password # request[r].seen THEN {r} ELSE {})
      /\ UNCHANGED <<password, token, settings, listings, removed, passed>>
  BY DEF LoginCommit, At, create_session
<1>2. /\ request' \in [Requests -> Request]
      /\ \A q \in Requests : q # r => request'[q] = request[q]
      /\ request'[r].pc = "done" /\ request'[r].kind = request[r].kind
      /\ request'[r].cred = None /\ request'[r].touch = FALSE
      /\ request'[r].scan = {} /\ request'[r].todo = <<>> /\ request'[r].locks = {}
      /\ request'[r].gone = {} /\ request'[r].rows = request[r].rows
  BY <1>1, SucceedDoes
<1>3. /\ request[r].kind = "login" /\ password # None /\ request[r].rows = {}
      /\ r \in Names /\ None \notin Names
  BY <1>1, AccountsAssumption DEF IInv, Fits, Stage, CatalogueOf, Names
<1>4. /\ request[r].seen \in Names \cup {None}
      /\ sessions \in [Names -> {"none", "live", "expired", "revoked"}]
      /\ opened \in [Names -> Names \cup {None}]
      /\ password \in Names \cup {None} /\ settings \in [Column -> BOOLEAN]
      /\ listings \subseteq Listing /\ raced \subseteq Names
      /\ removed \subseteq Listing /\ passed \subseteq Names \X Requests
  BY DEF IInv, TypeOK, Request
<1>5. /\ \A s \in Names : s # r => sessions'[s] = sessions[s] /\ opened'[s] = opened[s]
      /\ sessions'[r] = "live" /\ opened'[r] = request[r].seen
      /\ sessions' \in [Names -> {"none", "live", "expired", "revoked"}]
      /\ opened' \in [Names -> Names \cup {None}] /\ raced' \subseteq Names
  BY <1>1, <1>3, <1>4
<1>6. TypeOK'
  <2>1. \A q \in Requests : q # r /\ sessions[q] = "none" => sessions'[q] = "none"
    BY <1>5 DEF Names
  <2> QED BY <1>1, <1>4, <1>5, <2>1, CommitType
<1>7. ASSUME NEW q \in Requests PROVE Fits(q, request[q])'
  <2>1. CASE q = r
    <3>1. Stage(q, request[q])' /\ ChangeOf(request[q])'
      BY <1>1, <1>2, <1>3, <2>1 DEF Stage, ChangeOf, Handled
    <3>2. SessionsOf(q, request[q])'
      BY <1>2, <1>3, <2>1, RangeEmpty DEF SessionsOf
    <3>3. CatalogueOf(q, request[q])'
      BY <1>2, <1>3, <2>1, NothingDoomed DEF CatalogueOf, Doomed, AllOrNothing
    <3> QED BY <3>1, <3>2, <3>3 DEF Fits
  <2>2. CASE q # r
    <3>1. Fits(q, request[q]) /\ request'[q] = request[q]
      BY <1>2, <2>2 DEF IInv
    <3>2. Stage(q, request[q])' /\ CatalogueOf(q, request[q])'
      BY <1>1, <3>1 DEF Fits, Stage, CatalogueOf, Doomed, AllOrNothing
    <3>3. SessionsOf(q, request[q])'
      BY <1>5, <2>2, <3>1 DEF Fits, SessionsOf, Exists, Names
    <3>4. ChangeOf(request[q])'
      <4>1. request[q].pc = "flush" /\ request[q].kind = "password" => r \in raced'
        BY <1>1 DEF Changing, At, Is
      <4> QED BY <1>1, <1>5, <3>1, <4>1 DEF Fits, ChangeOf
    <3> QED BY <3>2, <3>3, <3>4 DEF Fits
  <2> QED BY <2>1, <2>2
<1>8. OneAccount'
  BY <1>1, <1>2, <1>3 DEF IInv, OneAccount, At, Is
<1>9. FilesDone'
  <2>1. \A q \in Requests : Doomed(request[q])' \subseteq Doomed(request[q])
    BY <1>2 DEF Doomed
  <2>2. \A q \in Requests : At(q, "done") => At(q, "done")'
    BY <1>1, <1>2 DEF At
  <2> QED BY <1>1, <2>1, <2>2 DEF IInv, FilesDone, Whole
<1>10. OldPasswordRaced'
  BY <1>1, <1>5 DEF IInv, OldPasswordRaced
<1> QED BY <1>6, <1>7, <1>8, <1>9, <1>10 DEF IInv

(* The commit of a handler.                                                *)
LEMMA CommitFacts ==
  ASSUME IInv, NEW r \in Requests, Commit(r)
  PROVE  /\ Succeed(r) /\ request[r].pc = "flush" /\ request[r].todo = <<>> /\ request[r].scan = {}
         /\ request[r].kind \notin {"signup", "login"}
         /\ request[r] \in Request /\ Fits(r, request[r])
         /\ password # None /\ password' = IF request[r].kind = "password" THEN r ELSE password
         /\ r \in Names /\ None \notin Names
         /\ request[r].gone \subseteq Listing /\ request[r].rows \subseteq Listing
         /\ listings' = (listings \ request[r].gone) \cup request[r].rows
         /\ removed' = IF request[r].kind = "delete" THEN removed \cup request[r].gone ELSE removed
         /\ passed \subseteq passed' /\ passed' \subseteq Names \X Requests
         /\ \A q \in Requests : q # r /\ request[q].kind = "replace" /\ request[q].pc \in {"flush", "done"}
                                => <<r, q>> \in passed'
         /\ UNCHANGED <<token, opened, raced>>
<1>1. /\ Succeed(r) /\ request[r].pc = "flush" /\ request[r].todo = <<>> /\ request[r].scan = {}
      /\ password' = IF request[r].kind = "password" THEN r ELSE password
      /\ listings' = (listings \ request[r].gone) \cup request[r].rows
      /\ removed' = IF request[r].kind = "delete" THEN removed \cup request[r].gone ELSE removed
      /\ UNCHANGED <<token, opened, raced>>
  BY DEF Commit, At, Is
<1>2. request[r] \in Request /\ Fits(r, request[r]) /\ passed \subseteq Names \X Requests
  BY DEF IInv, TypeOK
<1>3. /\ request[r].kind \notin {"signup", "login"} /\ password # None
      /\ r \in Names /\ None \notin Names
      /\ request[r].gone \subseteq Listing /\ request[r].rows \subseteq Listing
  BY <1>1, <1>2, AccountsAssumption DEF Fits, Stage, Handled, Names, Request
<1>4. passed' = passed \cup
        {<<r, j>> : j \in {q \in Requests \ {r} : Is(q, "replace") /\ request[q].pc \in {"flush", "done"}}}
  BY DEF Commit
<1>5. /\ passed \subseteq passed' /\ passed' \subseteq Names \X Requests
      /\ \A q \in Requests : q # r /\ request[q].kind = "replace" /\ request[q].pc \in {"flush", "done"}
                             => <<r, q>> \in passed'
  BY <1>2, <1>3, <1>4 DEF Is
<1> QED BY <1>1, <1>2, <1>3, <1>5

(* What a commit makes of the sessions.                                    *)
LEMMA CommitSessions ==
  ASSUME IInv, NEW r \in Requests, Commit(r)
  PROVE  /\ sessions' \in [Names -> {"none", "live", "expired", "revoked"}]
         /\ \A s \in Names : sessions'[s] # "none" <=> sessions[s] # "none"
         /\ \A s \in Names : sessions'[s] = "live" => sessions[s] = "live"
         /\ \A s \in Names : request[r].kind = "password" /\ s \in request[r].locks => sessions'[s] # "live"
         /\ \A s \in Names : sessions[s] = "revoked" => sessions'[s] = "revoked"
<1>1. sessions' = [s \in Names |-> IF s \in Revokes(r) THEN "revoked" ELSE sessions[s]]
  BY DEF Commit, SessionsAfter
<1>2. sessions \in [Names -> {"none", "live", "expired", "revoked"}]
  BY DEF IInv, TypeOK
<1>3. \A s \in Names : s \in Revokes(r) => sessions[s] # "none"
  BY CommitFacts DEF Revokes, Fits, SessionsOf, Exists
<1>4. \A s \in Names : request[r].kind = "password" /\ s \in request[r].locks => s \in Revokes(r)
  BY DEF Revokes
<1> QED BY <1>1, <1>2, <1>3, <1>4

LEMMA SettingsAfter ==
  ASSUME NEW old \in [Column -> BOOLEAN], NEW patch
  PROVE  [f \in Column |-> IF \E v \in BOOLEAN : <<f, v>> \in patch
                          THEN <<f, TRUE>> \in patch ELSE old[f]] \in [Column -> BOOLEAN]
<1> DEFINE New(f) == IF \E v \in BOOLEAN : <<f, v>> \in patch
                    THEN <<f, TRUE>> \in patch ELSE old[f]
<1>1. \A f \in Column : old[f] \in BOOLEAN
  OBVIOUS
<1>2. \A f \in Column : New(f) \in BOOLEAN
  <2> SUFFICES ASSUME NEW f \in Column PROVE New(f) \in BOOLEAN
    OBVIOUS
  <2>1. (<<f, TRUE>> \in patch) \in BOOLEAN
    OBVIOUS
  <2>2. CASE \E v \in BOOLEAN : <<f, v>> \in patch
    BY <2>1, <2>2, Zenon
  <2>3. CASE ~ \E v \in BOOLEAN : <<f, v>> \in patch
    BY <1>1, <2>3, Zenon
  <2> QED BY <2>2, <2>3
<1> HIDE DEF New
<1>3. [f \in Column |-> New(f)] \in [Column -> BOOLEAN]
  BY <1>2
<1> QED BY <1>3 DEF New

LEMMA CommitWhole ==
  ASSUME IInv, NEW r \in Requests, Commit(r)
  PROVE  /\ Whole(listings)' /\ (removed \cap listings = {})'
         /\ removed \subseteq removed'
<1> DEFINE gone == request[r].gone
           rows == request[r].rows
<1>1. /\ request[r].pc = "flush"
      /\ Whole(listings) /\ removed \cap listings = {}
      /\ \A x \in listings \cup removed \cup gone : x[1] \in Requests => request[x[1]].pc = "done"
      /\ listings \subseteq Listing /\ removed \subseteq Listing
  <2>1. gone \subseteq Doomed(request[r])
    BY DEF Doomed
  <2> QED BY <2>1, CommitFacts DEF IInv, FilesDone, At, TypeOK
<1>d. Doomed(request[r]) = gone
  BY CommitFacts DEF Doomed
<1>2. \A x \in listings \cup removed \cup gone : x[1] # r
  BY <1>1
<1>3. /\ listings' = (listings \ gone) \cup rows
      /\ removed' = IF request[r].kind = "delete" THEN removed \cup gone ELSE removed
      /\ gone \subseteq Listing
  BY CommitFacts
<1>4. /\ rows # {} => rows = {r} \X Lines /\ request[r].kind \in {"import", "replace"}
      /\ gone # {} => request[r].kind \in {"replace", "delete"}
      /\ request[r].kind = "replace" => AllOrNothing(gone)
  BY <1>d, CommitFacts DEF Fits, CatalogueOf
<1> HIDE DEF gone, rows
<1>5. removed \subseteq removed'
  BY <1>3
<1>6. removed' \cap listings' = {}
  <2>1. \A x \in rows : x[1] = r
    BY <1>4
  <2>2. CASE request[r].kind = "delete"
    BY <1>1, <1>3, <1>4, <2>2
  <2>3. CASE request[r].kind # "delete"
    BY <1>1, <1>2, <1>3, <2>1, <2>3
  <2> QED BY <2>2, <2>3
<1>7. ASSUME NEW f \in Names, NEW l \in Lines, <<f, l>> \in listings'
      PROVE  ({f} \X Lines) \ listings' \subseteq removed'
  <2>1. CASE <<f, l>> \in rows
    <3>1. rows = {f} \X Lines
      BY <1>4, <2>1
    <3> QED BY <1>3, <3>1
  <2>2. CASE <<f, l>> \in listings \ gone
    <3>1. ({f} \X Lines) \ listings \subseteq removed
      BY <1>1, <2>2 DEF Whole
    <3>2. CASE request[r].kind = "delete"
      BY <1>3, <3>1, <3>2
    <3>3. CASE request[r].kind # "delete" /\ \E k \in Lines : <<f, k>> \in gone \cap listings
      <4>1. listings \cap ({f} \X Lines) \subseteq gone
        BY <1>4, <3>3 DEF AllOrNothing
      <4> QED BY <2>2, <4>1
    <3>4. CASE request[r].kind # "delete" /\ \A k \in Lines : <<f, k>> \notin gone \cap listings
      <4>1. ({f} \X Lines) \ listings' \subseteq ({f} \X Lines) \ listings
        BY <1>3, <3>4
      <4> QED BY <1>3, <3>1, <3>4, <4>1
    <3> QED BY <3>2, <3>3, <3>4
  <2> QED BY <1>3, <1>7, <2>1, <2>2
<1> QED BY <1>5, <1>6, <1>7 DEF Whole

LEMMA CommitFits ==
  ASSUME IInv, NEW r \in Requests, Commit(r), NEW q \in Requests
  PROVE  Fits(q, request[q])'
<1>1. /\ \A p \in Requests : p # r => request'[p] = request[p]
      /\ request'[r].pc = "done" /\ request'[r].kind = request[r].kind
      /\ request'[r].cred = None /\ request'[r].touch = FALSE
      /\ request'[r].scan = {} /\ request'[r].todo = <<>> /\ request'[r].locks = {}
      /\ request'[r].gone = {} /\ request'[r].rows = request[r].rows
  BY CommitFacts, SucceedDoes
<1>2. \A p \in Requests : Doomed(request[p])' = Doomed(request'[p])
  BY DEF Doomed
<1>3. password' # None /\ password # None
  BY CommitFacts
<1>4. \A x \in request[r].rows : x[1] = r
  BY CommitFacts DEF Fits, CatalogueOf
<1>5. CASE q = r
  <2>1. Stage(q, request[q])' /\ ChangeOf(request[q])'
    BY <1>1, <1>5, CommitFacts DEF Stage, ChangeOf, Handled
  <2>2. SessionsOf(q, request[q])'
    BY <1>1, <1>5, CommitFacts, RangeEmpty DEF SessionsOf
  <2>3. CatalogueOf(q, request[q])'
    <3>1. CatalogueOf(r, request[r]) /\ request[r].pc = "flush"
      BY CommitFacts DEF Fits
    <3>2. /\ request[r].rows # {} => /\ request[r].rows = {r} \X Lines
                                     /\ request[r].kind \in {"import", "replace"}
          /\ request[r].kind = "replace" /\ request[r].rows # {} =>
               \A x \in listings \ request[r].gone : x[1] = r \/ <<x[1], r>> \in passed
      BY <3>1, CommitFacts DEF CatalogueOf, Doomed
    <3>3. request[r].kind = "replace" /\ request[r].rows # {} =>
            \A x \in listings' : x[1] = r \/ <<x[1], r>> \in passed'
      BY <1>4, <3>2, CommitFacts
    <3>4. Doomed(request'[r]) = {}
      BY <1>1 DEF Doomed
    <3> QED BY <1>1, <1>2, <1>5, <3>2, <3>3, <3>4 DEF CatalogueOf, AllOrNothing
  <2> QED BY <2>1, <2>2, <2>3 DEF Fits
<1>6. CASE q # r
  <2>1. Fits(q, request[q]) /\ request'[q] = request[q]
    BY <1>1, <1>6 DEF IInv
  <2>2. Stage(q, request[q])'
    BY <1>3, <2>1 DEF Fits, Stage
  <2>3. SessionsOf(q, request[q])'
    BY <2>1, CommitSessions DEF Fits, SessionsOf, Exists, Names
  <2>4. ChangeOf(request[q])'
    BY <2>1, CommitFacts, CommitSessions DEF Fits, ChangeOf
  <2>5. CatalogueOf(q, request[q])'
    <3>1. CatalogueOf(q, request[q])
      BY <2>1 DEF Fits
    <3>2. ASSUME request[q].kind = "replace" PROVE AllOrNothing(Doomed(request[q]))'
      <4> DEFINE D == Doomed(request[q])
      <4>1. D = Doomed(request[q])' /\ AllOrNothing(D)
        BY <1>2, <2>1, <3>1, <3>2 DEF CatalogueOf
      <4>2. \A x \in D \cup listings : x[1] # r
        <5>1. ~At(r, "done")
          BY CommitFacts DEF At
        <5> QED BY <5>1 DEF IInv, FilesDone
      <4> HIDE DEF D
      <4>3. \A x \in listings' : x \in listings \/ x[1] = r
        BY <1>4, CommitFacts
      <4>4. ASSUME NEW f \in Names, NEW l \in Lines, <<f, l>> \in D \cap listings'
            PROVE  listings' \cap ({f} \X Lines) \subseteq D
        <5>1. f # r /\ <<f, l>> \in D \cap listings
          BY <4>2, <4>3, <4>4
        <5>2. listings \cap ({f} \X Lines) \subseteq D
          BY <4>1, <5>1 DEF AllOrNothing
        <5> QED BY <4>3, <5>1, <5>2
      <4> QED BY <4>1, <4>4 DEF AllOrNothing
    <3>3. ASSUME request[q].kind = "replace", request[q].rows # {},
                 NEW x \in listings' \ Doomed(request[q])
          PROVE  x[1] = q \/ <<x[1], q>> \in passed'
      <4>1. CASE x \in listings
        BY <3>1, <3>3, <4>1, CommitFacts DEF CatalogueOf
      <4>2. CASE x \in request[r].rows
        BY <1>4, <1>6, <3>1, <3>3, <4>2, CommitFacts DEF CatalogueOf
      <4> QED BY <3>3, <4>1, <4>2, CommitFacts
    <3> QED BY <1>2, <2>1, <3>1, <3>2, <3>3 DEF CatalogueOf
  <2> QED BY <2>2, <2>3, <2>4, <2>5 DEF Fits
<1> QED BY <1>5, <1>6

LEMMA CommitIInv ==
  ASSUME IInv, NEW r \in Requests, Commit(r)
  PROVE  IInv'
<1>1. /\ \A q \in Requests : q # r => request'[q] = request[q]
      /\ request'[r].pc = "done" /\ request'[r].kind = request[r].kind
      /\ request'[r].gone = {} /\ request'[r].scan = {}
  BY CommitFacts, SucceedDoes
<1>2. /\ sessions \in [Names -> {"none", "live", "expired", "revoked"}]
      /\ opened \in [Names -> Names \cup {None}]
      /\ password \in Names \cup {None} /\ settings \in [Column -> BOOLEAN]
      /\ listings \subseteq Listing /\ raced \subseteq Names
      /\ removed \subseteq Listing /\ passed \subseteq Names \X Requests
  BY DEF IInv, TypeOK
<1>3. TypeOK'
  <2>1. settings' \in [Column -> BOOLEAN]
    BY <1>2, SettingsAfter DEF Commit
  <2>2. /\ listings' \subseteq Listing /\ removed' \subseteq Listing
        /\ password' \in Names \cup {None}
    BY <1>2, CommitFacts
  <2>3. \A q \in Requests : q # r /\ sessions[q] = "none" => sessions'[q] = "none"
    BY CommitSessions DEF Names
  <2>4. passed' \subseteq Names \X Requests /\ Succeed(r) /\ UNCHANGED <<token, opened, raced>>
    BY CommitFacts
  <2> QED BY <1>2, <2>1, <2>2, <2>3, <2>4, CommitSessions, CommitType
<1>4. OneAccount'
  BY <1>1, CommitFacts DEF IInv, OneAccount, At, Is
<1>5. FilesDone'
  <2>1. \A x \in request[r].rows : x[1] = r
    BY CommitFacts DEF Fits, CatalogueOf
  <2>2. \A q \in Requests : At(q, "done") \/ q = r => At(q, "done")'
    BY <1>1 DEF At
  <2>3. ASSUME NEW x \in (listings \cup removed \cup UNION {Doomed(request[q]) : q \in Requests})'
        PROVE  \/ x[1] = r
               \/ x \in listings \cup removed \cup UNION {Doomed(request[q]) : q \in Requests}
    <3>1. CASE x \in listings' \cup removed'
      <4>1. request[r].gone \subseteq Doomed(request[r])
        BY DEF Doomed
      <4> QED BY <2>1, <3>1, <4>1, CommitFacts
    <3>2. CASE \E q \in Requests : x \in Doomed(request[q])'
      BY <1>1, <3>2 DEF Doomed
    <3> QED BY <2>3, <3>1, <3>2
  <2> QED BY <2>2, <2>3, CommitWhole DEF IInv, FilesDone
<1>6. OldPasswordRaced'
  <2> SUFFICES ASSUME NEW s \in Names, sessions'[s] = "live", opened[s] # password'
               PROVE  s \in raced
    BY CommitFacts DEF OldPasswordRaced
  <2>1. sessions[s] = "live"
    BY CommitSessions
  <2>2. CASE request[r].kind = "password"
    BY <2>1, <2>2, CommitFacts, CommitSessions DEF Fits, ChangeOf
  <2>3. CASE request[r].kind # "password"
    BY <2>1, <2>3, CommitFacts DEF IInv, OldPasswordRaced
  <2> QED BY <2>2, <2>3
<1> QED BY <1>3, <1>4, <1>5, <1>6, CommitFits DEF IInv

-----------------------------------------------------------------------------
(* The inductive invariant.                                                *)
LEMMA InitIInv == Init => IInv
<1> SUFFICES ASSUME Init PROVE IInv
  OBVIOUS
<1>1. /\ None \notin Names /\ Seed \in Names /\ \A r \in Requests : r \in Names /\ r # Seed
      /\ 1 \in Tokens
  BY AccountsAssumption DEF Names, Tokens
<1>2. /\ \A r \in Requests : request[r] = NoRequest
      /\ request \in [Requests -> Request]
      /\ password \in {None, Seed}
      /\ \A s \in Names : sessions[s] = IF s = password THEN "live" ELSE "none"
      /\ \A s \in Names : opened[s] = password
      /\ raced = {} /\ removed = {} /\ passed = {} /\ token = 1
      /\ listings = (IF password = Seed THEN {Seed} \X Lines ELSE {})
  BY NoRequestType DEF Init
<1>3. TypeOK
  <2>1. /\ sessions \in [Names -> {"none", "live", "expired", "revoked"}]
        /\ opened \in [Names -> Names \cup {None}]
        /\ listings \subseteq Listing
    BY <1>1, <1>2 DEF Init, Listing
  <2>2. settings \in [Column -> BOOLEAN]
    BY FirstSettings DEF Init
  <2>3. \A r \in Requests : sessions[r] = "none" /\ request[r].locks = {}
    BY <1>1, <1>2, NoRequestType
  <2> QED BY <1>1, <1>2, <2>1, <2>2, <2>3 DEF TypeOK
<1>4. ASSUME NEW r \in Requests PROVE Fits(r, request[r])
  <2>1. sessions[r] = "none"
    BY <1>1, <1>2
  <2> QED BY <1>1, <1>2, <2>1, NoRequestType, RangeEmpty, NothingDoomed
          DEF Fits, Stage, SessionsOf, ChangeOf, CatalogueOf, Handled, Exists
<1>5. OneAccount
  BY <1>1, <1>2, NoRequestType DEF OneAccount, At, Is, Exists
<1>6. FilesDone
  <2>1. Whole(listings)
    BY <1>2 DEF Whole
  <2>2. \A x \in listings : x[1] \notin Requests
    BY <1>1, <1>2
  <2>3. \A r \in Requests : Doomed(request[r]) = {}
    BY <1>2, NoRequestType, NothingDoomed
  <2> QED BY <1>2, <2>1, <2>2, <2>3 DEF FilesDone
<1>7. OldPasswordRaced
  BY <1>2 DEF OldPasswordRaced
<1> QED BY <1>3, <1>4, <1>5, <1>6, <1>7 DEF IInv

LEMMA ExpireIInv ==
  ASSUME IInv, NEW s \in Names, Expire(s)
  PROVE  IInv'
<1>1. /\ sessions[s] = "live" /\ sessions' = [sessions EXCEPT ![s] = "expired"]
      /\ sessions \in [Names -> {"none", "live", "expired", "revoked"}]
      /\ UNCHANGED <<password, token, settings, listings, request, opened, raced, removed, passed>>
  BY DEF Expire, IInv, TypeOK
<1>2. /\ sessions' \in [Names -> {"none", "live", "expired", "revoked"}]
      /\ \A q \in Names : sessions'[q] = "none" <=> sessions[q] = "none"
      /\ \A q \in Names : sessions'[q] = "live" => sessions[q] = "live"
  BY <1>1
<1>3. TypeOK'
  BY <1>1, <1>2 DEF IInv, TypeOK, At, Names
<1>4. ASSUME NEW r \in Requests PROVE Fits(r, request[r])'
  <2>1. Fits(r, request[r])
    BY DEF IInv
  <2>2. SessionsOf(r, request[r])'
    BY <1>1, <1>2, <2>1 DEF Fits, SessionsOf, Exists, Names
  <2>3. ChangeOf(request[r])'
    BY <1>1, <1>2, <2>1 DEF Fits, ChangeOf
  <2> QED BY <1>1, <2>1, <2>2, <2>3 DEF Fits, Stage, CatalogueOf, Doomed, AllOrNothing
<1>5. OneAccount' /\ FilesDone' /\ OldPasswordRaced'
  BY <1>1, <1>2 DEF IInv, OneAccount, FilesDone, OldPasswordRaced, Whole, Doomed, At, Is, Exists
<1> QED BY <1>3, <1>4, <1>5 DEF IInv

LEMMA SameIInv ==
  ASSUME IInv, token' \in Tokens,
         UNCHANGED <<password, sessions, settings, listings, request, opened, raced, removed, passed>>
  PROVE  IInv'
<1>1. TypeOK'
  BY DEF IInv, TypeOK, At
<1>2. ASSUME NEW r \in Requests PROVE Fits(r, request[r])'
  <2>1. Fits(r, request[r])
    BY DEF IInv
  <2>2. Stage(r, request[r])' /\ SessionsOf(r, request[r])' /\ ChangeOf(request[r])'
    BY <2>1 DEF Fits, Stage, SessionsOf, ChangeOf, Exists
  <2> QED BY <2>1, <2>2 DEF Fits, CatalogueOf, Doomed, AllOrNothing
<1>3. OneAccount' /\ FilesDone' /\ OldPasswordRaced'
  BY DEF IInv, OneAccount, FilesDone, OldPasswordRaced, Whole, Doomed, At, Is, Exists
<1> QED BY <1>1, <1>2, <1>3 DEF IInv

LEMMA NextIInv == IInv /\ [Next]_vars => IInv'
<1> SUFFICES ASSUME IInv, [Next]_vars PROVE IInv'
  OBVIOUS
<1>1. ASSUME NEW r \in Requests, Open(r) PROVE IInv'
  BY <1>1, OpenIInv
<1>2. ASSUME NEW r \in Requests, Handle(r) PROVE IInv'
  BY <1>2, HandleIInv
<1>3. ASSUME NEW r \in Requests, SignupCommit(r) PROVE IInv'
  BY <1>3, SignupCommitIInv
<1>4. ASSUME NEW r \in Requests, LoginCommit(r) PROVE IInv'
  BY <1>4, LoginCommitIInv
<1>5. ASSUME NEW r \in Requests, Commit(r) PROVE IInv'
  BY <1>5, CommitIInv
<1>6. ASSUME NEW r \in Requests, DeadlockVictim(r) \/ Abort(r) PROVE IInv'
  <2>1. Reject(r, request[r].kind)
    BY <1>6 DEF DeadlockVictim, Abort
  <2>2. request[r].pc # "done"
    BY <1>6 DEF DeadlockVictim, Abort, WaitsFor, Wanted, IInv, Fits, Stage
  <2>3. request[r].kind \in Kinds
    BY DEF IInv, TypeOK, Request
  <2> QED BY <2>1, <2>2, <2>3, RejectIInv
<1>7. ASSUME IssueToken PROVE IInv'
  <2>1. token' \in Tokens
    BY <1>7, AccountsAssumption DEF IssueToken, IInv, TypeOK, Tokens
  <2> QED BY <1>7, <2>1, SameIInv DEF IssueToken
<1>8. ASSUME NEW s \in Names, Expire(s) PROVE IInv'
  BY <1>8, ExpireIInv
<1>9. CASE UNCHANGED vars
  <2>1. token \in Tokens
    BY DEF IInv, TypeOK
  <2> QED BY <1>9, <2>1, SameIInv DEF vars, accountVars
<1> QED BY <1>1, <1>2, <1>3, <1>4, <1>5, <1>6, <1>7, <1>8, <1>9 DEF Next

LEMMA Invariant == Spec => []IInv
BY InitIInv, NextIInv, PTL DEF Spec

(* Account, sessions, listings and requests keep their types, and no row   *)
(* has two writers.                                                        *)
THEOREM TypeCorrect == Spec => []TypeOK
<1>1. IInv => TypeOK
  BY DEF IInv
<1> QED BY <1>1, Invariant, PTL

(* A session opened with an earlier password is live only if its login     *)
(* overlapped the change: for every number of requests, and whatever the   *)
(* UPDATE that signs sessions out waits for (accounts.py: change_password, *)
(* sessions.py: revoke_all).                                               *)
THEOREM OldPasswordsRaced == Spec => []OldPasswordRaced
<1>1. IInv => OldPasswordRaced
  BY DEF IInv
<1> QED BY <1>1, Invariant, PTL

(* One sign-up for the address succeeds, and what failed opened no session *)
(* (accounts.py: signup).                                                  *)
THEOREM SignsUpOnce == Spec => []OneSignup
<1>1. ASSUME IInv PROVE OneSignup
  <2> DEFINE S == {r \in Requests : Is(r, "signup") /\ At(r, "done")}
  <2>1. \A r, q \in S : r = q
    BY <1>1 DEF IInv, OneAccount
  <2>2. Cardinality(S) <= 1
    <3>1. CASE S = {}
      <4>1. Cardinality(S) = 0
        BY <3>1, FS_EmptySet
      <4> QED BY <4>1
    <3>2. CASE S # {}
      <4>1. PICK r \in S : TRUE
        BY <3>2
      <4>2. S = {r}
        BY <2>1, <4>1
      <4> HIDE DEF S
      <4>3. Cardinality(S) = 1
        BY <4>2, FS_Singleton
      <4> QED BY <4>3
    <3> QED BY <3>1, <3>2
  <2>3. \A r \in Requests : At(r, "failed") => sessions[r] = "none"
    BY <1>1 DEF IInv, Fits, SessionsOf, Exists, At
  <2> QED BY <2>2, <2>3 DEF OneSignup
<1> QED BY <1>1, Invariant, PTL

(* The catalogue holds whole files, and beside a replacing import only     *)
(* what was committed after its DELETE began (onboarding.py:               *)
(* import_listings).                                                       *)
THEOREM CatalogueWhole == Spec => []CatalogueHolds
<1>1. ASSUME IInv PROVE CatalogueHolds
  <2>1. \A f \in Names : (\E l \in Lines : <<f, l>> \in listings) =>
                            ({f} \X Lines) \ listings \subseteq removed
    BY <1>1 DEF IInv, FilesDone, Whole
  <2>2. ASSUME NEW j \in Requests, Is(j, "replace"), At(j, "done"), request[j].rows # {},
               NEW x \in listings
        PROVE  x[1] = j \/ <<x[1], j>> \in passed
    <3>1. Doomed(request[j]) = {} /\ CatalogueOf(j, request[j])
      BY <1>1, <2>2 DEF IInv, Fits, Stage, At, Doomed
    <3> QED BY <2>2, <3>1 DEF CatalogueOf, At, Is
  <2> QED BY <2>1, <2>2 DEF CatalogueHolds
<1> QED BY <1>1, Invariant, PTL

(* A session signed out stays out: the requests that read it before write  *)
(* no revoked_at (sessions.py: resolve_session, revoke).                   *)
THEOREM RevokedForGood == Spec => RevokedStays
<1> DEFINE Stays == \A s \in Names : sessions[s] = "revoked" => sessions'[s] = "revoked"
<1>1. IInv /\ [Next]_vars => [Stays]_vars
  <2> SUFFICES ASSUME IInv, Next, NEW s \in Names, sessions[s] = "revoked"
               PROVE  sessions'[s] = "revoked"
    OBVIOUS
  <2>1. ASSUME NEW r \in Requests, ~Exists(r), sessions' = [sessions EXCEPT ![r] = "live"]
        PROVE  sessions'[s] = "revoked"
    BY <2>1 DEF Exists, IInv, TypeOK
  <2>2. ASSUME NEW r \in Requests, SignupCommit(r) \/ LoginCommit(r) PROVE sessions'[s] = "revoked"
    <3>1. ~Exists(r) /\ sessions' = [sessions EXCEPT ![r] = "live"]
      BY <2>2 DEF SignupCommit, LoginCommit, create_session, IInv, Fits, SessionsOf, At
    <3> QED BY <2>1, <3>1
  <2>3. ASSUME NEW r \in Requests, Commit(r) PROVE sessions'[s] = "revoked"
    BY <2>3, CommitSessions
  <2>4. ASSUME NEW e \in Names, Expire(e) PROVE sessions'[s] = "revoked"
    BY <2>4 DEF Expire, IInv, TypeOK
  <2>5. ASSUME NEW r \in Requests, Open(r) \/ Handle(r) \/ DeadlockVictim(r) \/ Abort(r)
        PROVE  sessions' = sessions
    <3>1. ASSUME NEW req, ReadOnly(r, req) PROVE sessions' = sessions
      BY <3>1 DEF ReadOnly, accountVars
    <3>2. ASSUME Open(r) PROVE sessions' = sessions
      BY <3>1, <3>2 DEF Open, TurnAway, SignupInsert, CheckPassword, Authenticate, Reject
    <3>3. ASSUME Handle(r) PROVE sessions' = sessions
      BY <3>1, <3>3 DEF Handle, LoadAgent, Get, Invalid, Logout, ChangePassword, UpdateSettings,
         OnboardingStatus, Import, DeleteListing, RevokeRow, DeleteRow, WriteRow, Flush, Reject
    <3> QED BY <2>5, <3>1, <3>2, <3>3 DEF DeadlockVictim, Abort, Reject
  <2> QED BY <2>2, <2>3, <2>4, <2>5 DEF Next, IssueToken
<1> QED BY <1>1, Invariant, PTL DEF Spec, RevokedStays
=============================================================================
