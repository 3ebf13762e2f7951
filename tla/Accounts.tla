------------------------------ MODULE Accounts ------------------------------
(***************************************************************************)
(* The account of one agent under concurrent requests: sign-up, login,     *)
(* logout and password change of api/accounts.py, the credentials of       *)
(* api/auth.py and services/sessions.py, the settings, listings and        *)
(* checklist of api/onboarding.py, and the API tokens of                   *)
(* scripts/issue_token.py.                                                 *)
(*                                                                         *)
(* A request is one transaction, READ COMMITTED: it reads what is          *)
(* committed, keeps what it read, writes when it flushes, and commits when *)
(* its handler returns. A statement that writes a row another open         *)
(* transaction wrote waits for it; SQLAlchemy writes only the columns that *)
(* changed. An UPDATE or DELETE of many rows takes its rows when it starts *)
(* and locks them one by one: it never sees a row committed since, and     *)
(* looks again at one it waited for. Passwords and files are named by the  *)
(* request that brought them, sessions by the one that opened them.        *)
(***************************************************************************)
EXTENDS Integers, Sequences, FiniteSets, Functions

CONSTANTS
  Requests,   \* the requests that may ever be made
  KindsOf,    \* what each of them may be
  Seed,       \* the sign-up, login and import that happened before
  AgentRow,   \* the row of table agents
  None,       \* no account
  Lines,      \* the lines of a listings file
  MaxTokens   \* bound on the API tokens issued

Kinds == {"signup", "login", "logout", "password", "settings", "status",
          "import", "replace", "delete", "get"}
Names == Requests \cup {Seed}
Tokens == 1..MaxTokens
Listing == Names \X Lines
Row == Names \cup {AgentRow} \cup Listing
Field == {"hours", "number"}
Column == Field \cup {"onboarded"}

ASSUME AccountsAssumption ==
  /\ KindsOf \in [Requests -> SUBSET Kinds]
  /\ Seed \notin Requests /\ None \notin Names /\ AgentRow \notin Names \cup {None}
  /\ Names \cap Tokens = {}
  /\ MaxTokens \in Nat \ {0}

VARIABLES
  password,   \* the agent's password, None before the account exists
  token,      \* the API token that is valid
  sessions,   \* committed login sessions
  settings,   \* whether hours are set, a number is connected, onboarded_at is set
  listings,   \* committed listings
  request,    \* what each request is doing
  opened,     \* the password each session was opened with
  raced,      \* sessions whose login overlapped a password change
  removed,    \* listings removed one at a time
  passed      \* <<f, j>>: file f was committed after import j began to delete

accountVars == <<password, token, sessions, settings, listings>>
vars == <<accountVars, request, opened, raced, removed, passed>>

-----------------------------------------------------------------------------
PC == {"idle", "created", "verified", "agent", "handler", "flush", "done", "failed"}

(* cred and touch: the session presented, None for an API token, and       *)
(* whether it is due a new last_used_at. seen and agent: the password and settings as loaded.      *)
(* scan: the rows its UPDATE or DELETE has still to come to; todo: the     *)
(* rows the flush has still to write; locks: those written.                *)
Request == [pc : PC, kind : Kinds, cred : Names \cup {None}, touch : BOOLEAN,
            seen : Names \cup {None}, agent : [Column -> BOOLEAN], patch : SUBSET (Column \X BOOLEAN),
            scan : SUBSET Row, todo : Seq(Row), locks : SUBSET Row,
            gone : SUBSET Listing, rows : SUBSET Listing]

NoRequest == [pc |-> "idle", kind |-> "get", cred |-> None, touch |-> FALSE,
              seen |-> None, agent |-> [f \in Column |-> FALSE], patch |-> {},
              scan |-> {}, todo |-> <<>>, locks |-> {}, gone |-> {}, rows |-> {}]

At(r, pc) == request[r].pc = pc
Is(r, kind) == request[r].kind = kind
Set(r, req) == request' = [request EXCEPT ![r] = req]

ReadOnly(r, req) ==
  Set(r, req) /\ UNCHANGED <<accountVars, opened, raced, removed, passed>>

(* A request that ends frees its rows, and a failed one is rolled back.    *)
Ended(kind, pc) == [NoRequest EXCEPT !.pc = pc, !.kind = kind]
Reject(r, kind) == ReadOnly(r, Ended(kind, "failed"))
Succeed(r) == Set(r, [Ended(request[r].kind, "done") EXCEPT !.rows = request[r].rows])

Init ==
  /\ password \in {None, Seed}
  /\ token = 1
  /\ sessions = [s \in Names |-> IF s = password THEN "live" ELSE "none"]
  /\ settings = [f \in Column |-> f = "hours"]
  /\ listings = (IF password = Seed THEN {Seed} \X Lines ELSE {})
  /\ request = [r \in Requests |-> NoRequest]
  /\ opened = [s \in Names |-> password]
  /\ raced = {}
  /\ removed = {}
  /\ passed = {}

-----------------------------------------------------------------------------
(* Locks. Free(r, x): no other open transaction wrote row x.               *)
Free(r, x) == \A q \in Requests \ {r} : x \notin request[q].locks

(* The rows a password change signs out, and those a replacing import      *)
(* deletes: what is committed when the statement starts.                   *)
SignedIn == {s \in Names : sessions[s] \in {"live", "expired"}}
Replaced == listings

Wanted(r) ==
  IF request[r].scan # {} \/ request[r].todo = <<>> THEN request[r].scan
  ELSE {Head(request[r].todo)}
WaitsFor(r, q) == q # r /\ Wanted(r) \cap request[q].locks # {}

(* Postgres ends a deadlock by failing one of its statements.              *)
DeadlockVictim(r) ==
  /\ \E q \in Requests : WaitsFor(r, q) /\ WaitsFor(q, r)
  /\ Reject(r, request[r].kind)

(* The process dies, or the database is lost, before the commit.           *)
Abort(r) ==
  /\ request[r].pc \notin {"idle", "done", "failed"}
  /\ Reject(r, request[r].kind)

-----------------------------------------------------------------------------
(* Sign-up and login. The limiter may refuse either, and a password may be *)
(* too short.                                                              *)
TurnAway(r, kind) ==
  /\ At(r, "idle") /\ kind \in KindsOf[r] \cap {"signup", "login"}
  /\ Reject(r, kind)

(* Mutant: the address is looked up, and the column is not unique.         *)
SignupInsert_lookup(r) ==
  /\ At(r, "idle") /\ "signup" \in KindsOf[r]
  /\ IF password = None
     THEN ReadOnly(r, [request[r] EXCEPT !.pc = "created", !.kind = "signup"])
     ELSE Reject(r, "signup")

(* The insert waits for another open sign-up of the address, whose commit  *)
(* fails it: 409, and nothing of it stays.                                 *)
SignupInsert(r) ==
  /\ At(r, "idle") /\ "signup" \in KindsOf[r]
  /\ \A q \in Requests : ~At(q, "created")
  /\ IF password = None
     THEN ReadOnly(r, [request[r] EXCEPT !.pc = "created", !.kind = "signup"])
     ELSE Reject(r, "signup")

(* The session of request r, opened with the password that was typed.      *)
create_session(r, typed) ==
  /\ sessions' = [sessions EXCEPT ![r] = "live"]
  /\ opened' = [opened EXCEPT ![r] = typed]

SignupCommit(r) ==
  /\ At(r, "created")
  /\ password' = r
  /\ create_session(r, r)
  /\ settings' = [f \in Column |-> f = "hours"]
  /\ Succeed(r)
  /\ UNCHANGED <<token, listings, raced, removed, passed>>

(* No password is right for an account without one.                        *)
verify_password(typed, stored) == stored # None /\ typed = stored

(* A login reads the agent and verifies what was typed.                    *)
CheckPassword(r, typed) ==
  /\ At(r, "idle") /\ "login" \in KindsOf[r]
  /\ IF verify_password(typed, password)
     THEN ReadOnly(r, [request[r] EXCEPT !.pc = "verified", !.kind = "login", !.seen = typed])
     ELSE Reject(r, "login")

(* A change is under way once its UPDATE of the sessions has started and   *)
(* until it commits.                                                       *)
Changing == \E q \in Requests : Is(q, "password") /\ At(q, "flush")

(* It opens a session whatever became of the password meanwhile.           *)
LoginCommit(r) ==
  /\ At(r, "verified")
  /\ create_session(r, request[r].seen)
  /\ raced' = raced \cup (IF Changing \/ password # request[r].seen THEN {r} ELSE {})
  /\ Succeed(r)
  /\ UNCHANGED <<password, token, settings, listings, removed, passed>>

-----------------------------------------------------------------------------
(* Every other request presents a session or an API token.                 *)
Valid(cred) == IF cred \in Tokens THEN cred = token ELSE sessions[cred] = "live"

Authenticate(r, kind, cred, touch) ==
  /\ At(r, "idle") /\ kind \in KindsOf[r] \ {"signup", "login"}
  /\ password # None
  /\ touch => cred \in Names
  /\ IF Valid(cred)
     THEN ReadOnly(r, [request[r] EXCEPT !.pc = "agent", !.kind = kind, !.touch = touch,
                                         !.cred = IF cred \in Names THEN cred ELSE None])
     ELSE Reject(r, kind)

(* The agent of a session is a query of its own.                           *)
LoadAgent(r) ==
  /\ At(r, "agent")
  /\ ReadOnly(r, [request[r] EXCEPT !.pc = "handler", !.seen = password, !.agent = settings])

Touch(r) == IF request[r].touch THEN <<request[r].cred>> ELSE <<>>
(* A handler ends with its flush; what it read is of no more use.          *)
Flush(r, todo, req) ==
  ReadOnly(r, [req EXCEPT !.pc = "flush", !.todo = todo, !.cred = None, !.touch = FALSE,
                          !.seen = None, !.agent = NoRequest.agent])

(* A handler that only reads.                                              *)
Get(r) ==
  /\ At(r, "handler") /\ Is(r, "get")
  /\ Flush(r, Touch(r), request[r])

(* A new password that is too short, or settings that are no settings: an  *)
(* unknown zone, hours that are no times or close before they open.        *)
Invalid(r) ==
  /\ At(r, "handler") /\ request[r].kind \in {"password", "settings"}
  /\ Reject(r, request[r].kind)

(* Logout has a session to revoke when the credential is one.              *)
Logout(r) ==
  /\ At(r, "handler") /\ Is(r, "logout")
  /\ Flush(r, IF request[r].cred \in Names THEN <<request[r].cred>> ELSE <<>>, request[r])

(* Mutant: only the session that made the request is signed out.           *)
ChangePassword_own(r, typed) ==
  /\ At(r, "handler") /\ Is(r, "password")
  /\ IF verify_password(typed, request[r].seen)
     THEN Flush(r, <<AgentRow>> \o Touch(r), [request[r] EXCEPT !.scan = SignedIn \cap {request[r].cred}])
     ELSE Reject(r, "password")

(* change_password verifies against the agent it loaded, and starts to     *)
(* sign out every session it sees, before the new password is flushed.     *)
ChangePassword(r, typed) ==
  /\ At(r, "handler") /\ Is(r, "password")
  /\ IF verify_password(typed, request[r].seen)
     THEN Flush(r, <<AgentRow>> \o Touch(r), [request[r] EXCEPT !.scan = SignedIn])
     ELSE Reject(r, "password")

(* The UPDATE comes to a session, which may have been signed out by the    *)
(* transaction it waited for.                                              *)
RevokeRow(r, s) ==
  /\ At(r, "flush") /\ Is(r, "password") /\ s \in request[r].scan
  /\ Free(r, s)
  /\ ReadOnly(r, [request[r] EXCEPT !.scan = request[r].scan \ {s},
                                    !.locks = request[r].locks \cup ({s} \cap SignedIn)])

(* The wizard saves one step at a time.                                    *)
UpdateSettings(r, field, value) ==
  /\ At(r, "handler") /\ Is(r, "settings")
  /\ Flush(r, <<AgentRow>> \o Touch(r), [request[r] EXCEPT !.patch = {<<field, value>>}])

(* The checklist is read with a GET, which records its completion.         *)
OnboardingStatus(r) ==
  /\ At(r, "handler") /\ Is(r, "status")
  /\ LET complete == listings # {} /\ (\A f \in Field : request[r].agent[f])
     IN IF complete /\ ~request[r].agent["onboarded"]
        THEN Flush(r, <<AgentRow>> \o Touch(r), [request[r] EXCEPT !.patch = {<<"onboarded", TRUE>>}])
        ELSE Flush(r, Touch(r), request[r])

(* Mutants: the header taken for a listing; the lines that parse imported; *)
(* the flag of a replacing import forgotten.                               *)
FileRows_header(r, good) == {r} \X (good \cup {0})
Import_good_lines(r, good) ==
  /\ At(r, "handler") /\ request[r].kind \in {"import", "replace"}
  /\ Flush(r, Touch(r), [request[r] EXCEPT !.rows = {r} \X good])
Import_adds(r, good) ==
  /\ At(r, "handler") /\ request[r].kind \in {"import", "replace"}
  /\ Flush(r, Touch(r), [request[r] EXCEPT !.rows = IF good = Lines THEN {r} \X good ELSE {}])

(* A file with a line that does not parse changes nothing.                 *)
FileRows(r, good) == {r} \X good
Import(r, good) ==
  /\ At(r, "handler") /\ request[r].kind \in {"import", "replace"}
  /\ IF good = Lines
     THEN Flush(r, Touch(r), [request[r] EXCEPT !.scan = IF Is(r, "replace") THEN Replaced ELSE {},
                                                !.rows = FileRows(r, good)])
     ELSE Flush(r, Touch(r), request[r])

(* The DELETE comes to a listing, which may be gone.                       *)
DeleteRow(r, x) ==
  /\ At(r, "flush") /\ Is(r, "replace") /\ x \in request[r].scan
  /\ Free(r, x)
  /\ LET taken == {x} \cap listings
     IN ReadOnly(r, [request[r] EXCEPT !.scan = request[r].scan \ {x},
                                       !.locks = request[r].locks \cup taken,
                                       !.gone = request[r].gone \cup taken])

DeleteListing(r, x) ==
  /\ At(r, "handler") /\ Is(r, "delete")
  /\ IF x \in listings
     THEN Flush(r, Touch(r) \o <<x>>, [request[r] EXCEPT !.gone = {x}])
     ELSE Reject(r, request[r].kind)

-----------------------------------------------------------------------------
(* The flush writes its rows one after the other.                          *)
WriteRow(r) ==
  /\ At(r, "flush") /\ request[r].scan = {} /\ request[r].todo # <<>>
  /\ Free(r, Head(request[r].todo))
  /\ ReadOnly(r, [request[r] EXCEPT !.locks = request[r].locks \cup {Head(request[r].todo)},
                                    !.todo = Tail(request[r].todo)])

(* Mutant: a touched session is written back as it was loaded.             *)
SessionsAfter_whole_row(r) ==
  [s \in Names |-> IF s \notin request[r].locks THEN sessions[s]
                   ELSE IF request[r].kind \in {"logout", "password"} THEN "revoked" ELSE "live"]

(* What a commit makes of the sessions: only revoked_at and last_used_at   *)
(* are ever written to one.                                                *)
Revokes(r) == IF request[r].kind \in {"logout", "password"} THEN request[r].locks \cap Names ELSE {}
SessionsAfter(r) == [s \in Names |-> IF s \in Revokes(r) THEN "revoked" ELSE sessions[s]]

Commit(r) ==
  /\ At(r, "flush") /\ request[r].scan = {} /\ request[r].todo = <<>>
  /\ sessions' = SessionsAfter(r)
  /\ password' = IF Is(r, "password") THEN r ELSE password
  /\ settings' = [f \in Column |-> IF \E v \in BOOLEAN : <<f, v>> \in request[r].patch
                                  THEN <<f, TRUE>> \in request[r].patch ELSE settings[f]]
  /\ listings' = (listings \ request[r].gone) \cup request[r].rows
  /\ removed' = IF Is(r, "delete") THEN removed \cup request[r].gone ELSE removed
  /\ passed' = passed \cup
       {<<r, j>> : j \in {q \in Requests \ {r} : Is(q, "replace") /\ request[q].pc \in {"flush", "done"}}}
  /\ Succeed(r)
  /\ UNCHANGED <<token, opened, raced>>

-----------------------------------------------------------------------------
(* scripts/issue_token.py replaces the API token.                          *)
IssueToken ==
  /\ password # None /\ token < MaxTokens
  /\ token' = token + 1
  /\ UNCHANGED <<password, sessions, settings, listings, request, opened, raced,
                 removed, passed>>

(* A session ends by itself after 14 days.                                 *)
Expire(s) ==
  /\ sessions[s] = "live"
  /\ sessions' = [sessions EXCEPT ![s] = "expired"]
  /\ UNCHANGED <<password, token, settings, listings, request, opened, raced,
                 removed, passed>>

Open(r) ==
  \/ \E kind \in KindsOf[r] : TurnAway(r, kind)
  \/ SignupInsert(r)
  \/ \E typed \in Names : CheckPassword(r, typed)
  \/ \E kind \in KindsOf[r], cred \in {s \in Names : sessions[s] # "none"} \cup Tokens,
        touch \in BOOLEAN : Authenticate(r, kind, cred, touch)

Handle(r) ==
  \/ LoadAgent(r)
  \/ Get(r)
  \/ Invalid(r)
  \/ Logout(r)
  \/ \E typed \in Names : ChangePassword(r, typed)
  \/ \E f \in Field, v \in BOOLEAN : UpdateSettings(r, f, v)
  \/ OnboardingStatus(r)
  \/ \E good \in SUBSET Lines : Import(r, good)
  \/ \E x \in Listing : DeleteListing(r, x)
  \/ \E s \in Names : RevokeRow(r, s)
  \/ \E x \in Listing : DeleteRow(r, x)
  \/ WriteRow(r)

Next ==
  \/ \E r \in Requests :
       \/ Open(r)
       \/ Handle(r)
       \/ SignupCommit(r)
       \/ LoginCommit(r)
       \/ Commit(r)
       \/ DeadlockVictim(r)
       \/ Abort(r)
  \/ IssueToken
  \/ \E s \in Names : Expire(s)

Spec == Init /\ [][Next]_vars

-----------------------------------------------------------------------------
TypeOK ==
  /\ password \in Names \cup {None}
  /\ token \in Tokens
  /\ sessions \in [Names -> {"none", "live", "expired", "revoked"}]
  /\ settings \in [Column -> BOOLEAN]
  /\ listings \subseteq Listing
  /\ request \in [Requests -> Request]
  /\ opened \in [Names -> Names \cup {None}]
  /\ raced \subseteq Names /\ removed \subseteq Listing /\ passed \subseteq Names \X Requests
  /\ \A r \in Requests : At(r, "idle") => sessions[r] = "none"
  /\ \A r, q \in Requests : r # q => request[r].locks \cap request[q].locks = {}

(* A session once signed out stays out, although requests that read it     *)
(* before write its last_used_at afterwards (sessions.py:70-71, 86-91).    *)
RevokedStays ==
  [][\A s \in Names : sessions[s] = "revoked" => sessions'[s] = "revoked"]_vars

(* A live session that was opened with an earlier password came from a     *)
(* login that overlapped the change: it verified before the change         *)
(* committed, and committed after the change had begun to sign sessions    *)
(* out, whose UPDATE does not see it however long it waits for other rows  *)
(* (accounts.py:231-247, sessions.py:86-90). Any other session is signed   *)
(* out with the change, whatever deadlock or failure cuts requests short.  *)
OldPasswordRaced ==
  \A s \in Names : sessions[s] = "live" /\ opened[s] # password => s \in raced

(* Of the sign-ups for one address one succeeds at most, and the others    *)
(* leave no session behind (accounts.py:152-162).                          *)
OneSignup ==
  /\ Cardinality({r \in Requests : Is(r, "signup") /\ At(r, "done")}) <= 1
  /\ \A r \in Requests : At(r, "failed") => sessions[r] = "none"

(* The catalogue never holds part of a file, short of what was removed     *)
(* listing by listing, although two replacing imports may each keep a row  *)
(* from the other; and what stands beside a replacing import was committed *)
(* after its DELETE had begun, which does not see the file of an import it *)
(* waits for (onboarding.py:227-250).                                      *)
CatalogueHolds ==
  /\ \A f \in Names : (\E l \in Lines : <<f, l>> \in listings) =>
                         ({f} \X Lines) \ listings \subseteq removed
  /\ \A j \in Requests : Is(j, "replace") /\ At(j, "done") /\ request[j].rows # {} =>
       \A x \in listings : x[1] = j \/ <<x[1], j>> \in passed

-----------------------------------------------------------------------------
(* Why these hold. What is true of request r when req is its state: where  *)
(* it stands, whom it acts for, and what its flush will do.                *)
Handled == {"agent", "handler", "flush"}

Stage(r, req) ==
  /\ req.pc = "idle" => req = NoRequest
  /\ req.pc = "created" => req.kind = "signup" /\ password = None
  /\ req.pc = "verified" => req.kind = "login" /\ password # None
  /\ req.pc \in Handled => req.kind \notin {"signup", "login"} /\ password # None
  /\ req.pc = "done" /\ req.kind = "signup" => password # None
  /\ req.pc # "flush" => req.todo = <<>> /\ req.locks = {} /\ req.gone = {} /\ req.scan = {}

(* A session belongs to a request that is done, and sign-outs are of       *)
(* sessions that exist.                                                    *)
Exists(s) == sessions[s] # "none"
SessionsOf(r, req) ==
  /\ req.pc # "done" => ~Exists(r)
  /\ req.cred \in Names => Exists(req.cred)
  /\ req.touch => req.cred \in Names
  /\ req.kind \in {"logout", "password"} =>
       \A s \in Names : s \in req.scan \cup req.locks \cup Range(req.todo) => Exists(s)

(* A change under way signs out every session but those that raced it.     *)
ChangeOf(req) ==
  req.pc = "flush" /\ req.kind = "password" =>
    \A s \in Names : sessions[s] = "live" => s \in req.scan \cup req.locks \cup raced

(* A set of listings that holds no part of a file, but for what was        *)
(* removed.                                                                *)
Whole(L) == \A f \in Names : (\E l \in Lines : <<f, l>> \in L) => ({f} \X Lines) \ L \subseteq removed

(* The listings a request deletes, and those its DELETE has still to come  *)
(* to. A DELETE takes all that is there of a file, or nothing of it.       *)
Doomed(req) == req.gone \cup (IF req.kind = "replace" THEN req.scan ELSE {})
AllOrNothing(D) == \A f \in Names : (\E l \in Lines : <<f, l>> \in D \cap listings) =>
                                       listings \cap ({f} \X Lines) \subseteq D

CatalogueOf(r, req) ==
  /\ req.rows # {} => /\ req.rows = {r} \X Lines
                      /\ req.kind \in {"import", "replace"} /\ req.pc \in {"flush", "done"}
  /\ req.gone # {} => req.kind \in {"replace", "delete"}
  /\ req.kind = "replace" => AllOrNothing(Doomed(req))
  /\ req.kind = "replace" /\ req.rows # {} =>
       \A x \in listings \ Doomed(req) : x[1] = r \/ <<x[1], r>> \in passed

Fits(r, req) == Stage(r, req) /\ SessionsOf(r, req) /\ ChangeOf(req) /\ CatalogueOf(r, req)

(* One sign-up is open or done, and before it there is nothing.            *)
OneAccount ==
  /\ \A r, q \in Requests : r # q => /\ ~(At(r, "created") /\ At(q, "created"))
                                     /\ ~(At(r, "done") /\ Is(r, "signup") /\ At(q, "done") /\ Is(q, "signup"))
  /\ password = None => \A s \in Names : ~Exists(s)

(* The listings that are or were committed come from requests that ended.  *)
FilesDone ==
  /\ Whole(listings)
  /\ removed \cap listings = {}
  /\ \A x \in listings \cup removed \cup UNION {Doomed(request[q]) : q \in Requests} :
       x[1] \in Requests => At(x[1], "done")

IInv == /\ TypeOK
        /\ \A r \in Requests : Fits(r, request[r])
        /\ OneAccount /\ FilesDone /\ OldPasswordRaced
=============================================================================
