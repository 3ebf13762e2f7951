----------------------------- MODULE BookingProofs -----------------------------
(***************************************************************************)
(* Proofs about Booking for any turns, slots, processes and grants.        *)
(***************************************************************************)
EXTENDS Booking, FiniteSetTheorems, TLAPS

(* A step of one turn, which becomes w.                                    *)
Becomes(t, w) == turn' = [turn EXCEPT ![t] = w]

(* Records of a turn that agree on what it is about.                       *)
SameRun(v, w) == v.run = w.run /\ v.seen = w.seen
SameSync(v, w) == /\ v.token = w.token /\ v.attempt = w.attempt
                  /\ v.event = w.event /\ v.attention = w.attention /\ v.crashed = w.crashed

-----------------------------------------------------------------------------
LEMMA GrantFacts ==
  /\ Cardinality(Grants) \in Nat /\ 1 \in Grants /\ 1 \in Grant
  /\ \A g \in Grants : g \in Nat /\ 1 <= g /\ (1..g) \subseteq Grants
  /\ \A g \in Grant : g \in Nat /\ (1..g) \subseteq Grants /\ (0..g) \subseteq Grant
  /\ NotConnected \in Grant /\ NotConnected \notin Grants
<1> DEFINE n == Cardinality(Grants)
<1>1. n \in Nat /\ Grants = 1..n /\ Grants # {}
  BY BookingAssumption, FS_CardinalityType
<1> HIDE DEF n
<1>2. n >= 1
  BY <1>1
<1> QED BY <1>1, <1>2 DEF Grant, NotConnected, n

LEMMA NoTurnType ==
  /\ NoTurn \in Turn
  /\ NoTurn.pc = "idle" /\ NoTurn.run = 1 /\ NoTurn.seen = NotConnected
  /\ NoTurn.token = NotConnected /\ NoTurn.busy = {} /\ NoTurn.slot = None
  /\ NoTurn.attempt = 1 /\ NoTurn.event = None /\ NoTurn.attention = FALSE
  /\ NoTurn.crashed = FALSE
<1>1. 1 \in 1..MaxRuns /\ 1 \in 1..MaxAttempts
  BY BookingAssumption
<1> QED BY <1>1, GrantFacts DEF NoTurn, Turn, PC

(* What blocks a slot is slots.                                            *)
LEMMA SlotFacts ==
  ASSUME TypeOK
  PROVE  /\ Taken \subseteq Slots
         /\ \A g : OnCalendar(g) \subseteq Slots
         /\ \A u \in Turns : booked[u] # None => booked[u].slot \in Slots /\ booked[u].slot \in Taken
<1>1. \A u \in Turns : booked[u] # None => booked[u].slot \in Slots
  BY DEF TypeOK, Appointment
<1>2. \A e \in events : e.slot \in Slots
  BY DEF TypeOK, Event
<1> QED BY <1>1, <1>2 DEF Taken, OnCalendar

(* What each handler makes of its turn.                                    *)
LEMMA BeginDoes ==
  ASSUME TypeOK, NEW t \in Turns, Begin(t)
  PROVE  \E w \in Turn :
           /\ Becomes(t, w) /\ w.pc = "lookup" /\ w.seen = refresh /\ w.slot = None
           /\ w.event = None /\ ~w.crashed
<1> DEFINE w == [NoTurn EXCEPT !.pc = "lookup", !.run = turn[t].run, !.seen = refresh]
<1>1. turn[t].run \in 1..MaxRuns /\ refresh \in Grant
  BY DEF TypeOK, Turn
<1>2. w \in Turn /\ w.pc = "lookup" /\ w.seen = refresh /\ w.slot = None /\ w.event = None
      /\ ~w.crashed
  BY <1>1, NoTurnType DEF Turn, PC
<1>3. Becomes(t, w)
  BY DEF Begin, Becomes
<1> QED BY <1>2, <1>3

LEMMA LookDoes ==
  ASSUME TypeOK, NEW t \in Turns,
         ReadAppointments(t) \/ FreeBusy(t) \/ FreeBusyFails(t) \/ FreeBusyCrashes(t)
           \/ BookNothing(t)
  PROVE  \E w \in Turn :
           /\ Becomes(t, w) /\ SameRun(w, turn[t]) /\ SameSync(w, turn[t])
           /\ w.slot = turn[t].slot
           /\ \/ /\ ReadAppointments(t) /\ w.busy = Taken
                 /\ w.pc = IF w.seen = NotConnected THEN "choose" ELSE "freebusy"
              \/ /\ FreeBusy(t) \/ FreeBusyFails(t)
                 /\ w.pc = "choose" /\ turn[t].busy \subseteq w.busy
              \/ (BookNothing(t) \/ FreeBusyCrashes(t)) /\ w.pc = "reply"
<1> DEFINE x == turn[t]
<1>1. x \in Turn /\ turn \in [Turns -> Turn]
  BY DEF TypeOK
<1>2. CASE ReadAppointments(t)
  <2> DEFINE p == IF x.seen = NotConnected THEN "choose" ELSE "freebusy"
             w == [x EXCEPT !.busy = Taken, !.pc = p]
  <2>1. Becomes(t, w)
    BY <1>1, <1>2 DEF ReadAppointments, Becomes
  <2>2. w \in Turn /\ SameRun(w, x) /\ SameSync(w, x) /\ w.slot = x.slot /\ w.busy = Taken
        /\ w.pc = p
    BY <1>1, SlotFacts DEF Turn, PC, SameRun, SameSync
  <2> QED BY <1>2, <2>1, <2>2 DEF SameRun
<1>3. CASE FreeBusy(t)
  <2> DEFINE b == x.busy \cup OnCalendar(TokenOf(t))
             w == [x EXCEPT !.busy = b, !.pc = "choose"]
  <2>1. Becomes(t, w)
    BY <1>1, <1>3 DEF FreeBusy, Becomes
  <2>2. b \subseteq Slots
    BY <1>1, SlotFacts DEF Turn
  <2> HIDE DEF b
  <2>3. w \in Turn /\ SameRun(w, x) /\ SameSync(w, x) /\ w.slot = x.slot /\ w.busy = b
        /\ w.pc = "choose"
    BY <1>1, <2>2 DEF Turn, PC, SameRun, SameSync
  <2> QED BY <1>3, <2>1, <2>3 DEF b
<1>4. CASE FreeBusyFails(t)
  <2> DEFINE w == [x EXCEPT !.pc = "choose"]
  <2>1. Becomes(t, w)
    BY <1>1, <1>4 DEF FreeBusyFails, Goto, Becomes
  <2>2. w \in Turn /\ SameRun(w, x) /\ SameSync(w, x) /\ w.slot = x.slot /\ w.busy = x.busy
        /\ w.pc = "choose"
    BY <1>1 DEF Turn, PC, SameRun, SameSync
  <2> QED BY <1>4, <2>1, <2>2
<1>5. CASE BookNothing(t) \/ FreeBusyCrashes(t)
  <2> DEFINE w == [x EXCEPT !.busy = {}, !.pc = "reply"]
  <2>1. Becomes(t, w)
    BY <1>1, <1>5 DEF BookNothing, FreeBusyCrashes, Becomes
  <2>2. w \in Turn /\ SameRun(w, x) /\ SameSync(w, x) /\ w.slot = x.slot /\ w.pc = "reply"
    BY <1>1 DEF Turn, PC, SameRun, SameSync
  <2> QED BY <1>5, <2>1, <2>2
<1> QED BY <1>2, <1>3, <1>4, <1>5

LEMMA BookDoes ==
  ASSUME TypeOK, NEW t \in Turns, NEW s \in Slots, Book(t, s)
  PROVE  \E w \in Turn :
           /\ Becomes(t, w) /\ SameRun(w, turn[t]) /\ SameSync(w, turn[t]) /\ w.slot = s
           /\ w.pc = IF w.seen = NotConnected THEN "reply" ELSE "fetch"
<1> DEFINE x == turn[t]
           p == IF x.seen = NotConnected THEN "reply" ELSE "fetch"
           w == [x EXCEPT !.slot = s, !.busy = {}, !.pc = p]
<1>1. x \in Turn /\ turn \in [Turns -> Turn]
  BY DEF TypeOK
<1>2. Becomes(t, w)
  BY <1>1 DEF Book, Becomes
<1>3. w \in Turn /\ SameRun(w, x) /\ SameSync(w, x) /\ w.slot = s /\ w.pc = p
  BY <1>1 DEF Turn, PC, SameRun, SameSync
<1> QED BY <1>2, <1>3 DEF SameRun

(* The end of the synchronisation, with the event it made or none.         *)
LEMMA OutcomeDoes ==
  ASSUME TypeOK, NEW t \in Turns, NEW event \in Event \cup {None}, NEW attention \in BOOLEAN,
         NEW crashed \in BOOLEAN, Outcome(t, event, attention, crashed)
  PROVE  \E w \in Turn :
           /\ Becomes(t, w) /\ SameRun(w, turn[t]) /\ w.slot = turn[t].slot
           /\ w.event = event /\ w.attention = attention /\ w.crashed = crashed
           /\ w.pc = "reply"
<1> DEFINE x == turn[t]
           w == [x EXCEPT !.event = event, !.attention = attention, !.crashed = crashed,
                          !.token = NotConnected, !.attempt = 1, !.pc = "reply"]
<1>1. x \in Turn /\ turn \in [Turns -> Turn]
  BY DEF TypeOK
<1>2. 1 \in 1..MaxAttempts
  BY BookingAssumption
<1>3. Becomes(t, w)
  BY <1>1 DEF Outcome, Becomes
<1>4. w \in Turn /\ SameRun(w, x) /\ w.slot = x.slot
      /\ w.event = event /\ w.attention = attention /\ w.crashed = crashed /\ w.pc = "reply"
  BY <1>1, <1>2, GrantFacts DEF Turn, PC, SameRun
<1> QED BY <1>3, <1>4

LEMMA FetchDoes ==
  ASSUME TypeOK, NEW t \in Turns, Fetch(t)
  PROVE  \E w \in Turn :
           /\ Becomes(t, w) /\ SameRun(w, turn[t]) /\ w.slot = turn[t].slot
           /\ w.event = turn[t].event /\ w.token = TokenOf(t) /\ w.pc = "post"
           /\ w.crashed = turn[t].crashed
<1> DEFINE x == turn[t]
           w == [x EXCEPT !.token = TokenOf(t), !.pc = "post"]
<1>1. x \in Turn /\ turn \in [Turns -> Turn]
  BY DEF TypeOK
<1>2. TokenOf(t) \in Grant
  <2>1. cache[ProcessOf[t]] \in Token
    BY BookingAssumption DEF TypeOK
  <2> QED BY <1>1, <2>1 DEF TokenOf, Cached, Token, Turn
<1>3. Becomes(t, w)
  BY <1>1 DEF Fetch, Becomes
<1>4. w \in Turn /\ SameRun(w, x) /\ w.slot = x.slot /\ w.event = x.event
      /\ w.token = TokenOf(t) /\ w.pc = "post" /\ w.crashed = x.crashed
  BY <1>1, <1>2 DEF Turn, PC, SameRun
<1> QED BY <1>3, <1>4

LEMMA RetryDoes ==
  ASSUME TypeOK, NEW t \in Turns, turn[t].attempt < MaxAttempts,
         turn' = [turn EXCEPT ![t].attempt = @ + 1]
  PROVE  \E w \in Turn :
           /\ Becomes(t, w) /\ SameRun(w, turn[t]) /\ w.slot = turn[t].slot
           /\ w.event = turn[t].event /\ w.token = turn[t].token /\ w.pc = turn[t].pc
           /\ w.crashed = turn[t].crashed
<1> DEFINE x == turn[t]
           n == x.attempt + 1
           w == [x EXCEPT !.attempt = n]
<1>1. x \in Turn /\ turn \in [Turns -> Turn]
  BY DEF TypeOK
<1>2. n \in 1..MaxAttempts
  <2>1. x.attempt \in 1..MaxAttempts /\ MaxAttempts \in Nat
    BY <1>1, BookingAssumption DEF Turn
  <2> QED BY <2>1
<1>3. Becomes(t, w)
  BY <1>1 DEF Becomes
<1> HIDE DEF n
<1>4. w \in Turn /\ SameRun(w, x) /\ w.slot = x.slot /\ w.event = x.event
      /\ w.token = x.token /\ w.pc = x.pc /\ w.crashed = x.crashed
  BY <1>1, <1>2 DEF Turn, SameRun
<1> QED BY <1>3, <1>4

(* The end of a run, and of the turn when it is the last.                  *)
LEMMA EndDoes ==
  ASSUME TypeOK, NEW t \in Turns
  PROVE  /\ CommitTurn(t) => \E w \in Turn :
              /\ Becomes(t, w) /\ w.seen = NotConnected /\ w.slot = None /\ w.event = None /\ ~w.crashed
              /\ w.pc = "done"
         /\ FailTurn(t) => \E w \in Turn :
              /\ Becomes(t, w) /\ w.seen = NotConnected /\ w.slot = None /\ w.event = None /\ ~w.crashed
              /\ w.pc \in {"idle", "buried"}
<1> DEFINE x == turn[t]
<1>1. x \in Turn /\ turn \in [Turns -> Turn]
  BY DEF TypeOK
<1>2. x.run \in 1..MaxRuns /\ MaxRuns \in Nat \ {0}
  BY <1>1, BookingAssumption DEF Turn
<1>3. ASSUME NEW p \in PC, NEW n \in 1..MaxRuns
      PROVE  LET w == [NoTurn EXCEPT !.pc = p, !.run = n] IN
             /\ w \in Turn /\ w.seen = NotConnected /\ w.slot = None /\ w.event = None /\ ~w.crashed
             /\ w.pc = p
  BY NoTurnType DEF Turn
<1>4. ASSUME CommitTurn(t)
      PROVE  \E w \in Turn : /\ Becomes(t, w) /\ w.seen = NotConnected /\ w.slot = None
                           /\ w.event = None /\ ~w.crashed /\ w.pc = "done"
  <2> DEFINE w == [NoTurn EXCEPT !.pc = "done", !.run = x.run]
  <2>1. Becomes(t, w)
    BY <1>4 DEF CommitTurn, Becomes
  <2>2. w \in Turn /\ w.seen = NotConnected /\ w.slot = None /\ w.event = None /\ ~w.crashed /\ w.pc = "done"
    BY <1>2, <1>3 DEF PC
  <2> QED BY <1>4, <2>1, <2>2
<1>5. ASSUME FailTurn(t), x.run < MaxRuns
      PROVE  \E w \in Turn : /\ Becomes(t, w) /\ w.seen = NotConnected /\ w.slot = None
                           /\ w.event = None /\ ~w.crashed /\ w.pc \in {"idle", "buried"}
  <2> DEFINE w == [NoTurn EXCEPT !.run = x.run + 1]
  <2>1. Becomes(t, w)
    BY <1>5 DEF FailTurn, Becomes
  <2>2. x.run + 1 \in 1..MaxRuns
    BY <1>2, <1>5
  <2>3. w \in Turn /\ w.seen = NotConnected /\ w.slot = None /\ w.event = None /\ ~w.crashed /\ w.pc = "idle"
    BY <2>2, NoTurnType DEF Turn
  <2> QED BY <1>5, <2>1, <2>3
<1>6. ASSUME FailTurn(t), ~(x.run < MaxRuns)
      PROVE  \E w \in Turn : /\ Becomes(t, w) /\ w.seen = NotConnected /\ w.slot = None
                           /\ w.event = None /\ ~w.crashed /\ w.pc \in {"idle", "buried"}
  <2> DEFINE w == [NoTurn EXCEPT !.pc = "buried", !.run = MaxRuns]
  <2>1. Becomes(t, w)
    BY <1>6 DEF FailTurn, Becomes
  <2>2. MaxRuns \in 1..MaxRuns
    BY <1>2
  <2>3. w \in Turn /\ w.seen = NotConnected /\ w.slot = None /\ w.event = None /\ ~w.crashed /\ w.pc = "buried"
    BY <1>3, <2>2 DEF PC
  <2> QED BY <1>6, <2>1, <2>3
<1> QED BY <1>4, <1>5, <1>6

(* The event a request makes, and the access token it is made with.        *)
LEMMA NewEventType ==
  ASSUME Base, NEW t \in Turns, At(t, "post")
  PROVE  /\ NewEvent(t) \in Event /\ NewEvent(t).turn = t /\ NewEvent(t) # None
         /\ turn[t].slot # None /\ turn[t].event = None
<1>1. turn[t] \in Turn /\ ShapeOf(turn[t], issued, events) /\ issued \in Grant
  BY DEF Base, TypeOK, Shape
<1>2. turn[t].token \in Grants /\ turn[t].slot \in Slots
  BY <1>1, GrantFacts DEF At, ShapeOf, Turn
<1>3. NewEvent(t) \in Event /\ NewEvent(t).turn = t
  BY <1>1, <1>2 DEF NewEvent, Event, Turn
<1> QED BY <1>1, <1>2, <1>3, NoneAssumption DEF At, ShapeOf

-----------------------------------------------------------------------------
(* Types and shapes after a step of one turn.                              *)
TokensGranted(tokens) ==
  /\ tokens \in [Processes -> Token]
  /\ \A p \in Processes : tokens[p].fresh => tokens[p].grant \in 1..issued

LEMMA TurnBase ==
  ASSUME Base, NEW t \in Turns, NEW w \in Turn, Becomes(t, w), ShapeOf(w, issued, events'),
         events \subseteq events', events' \subseteq Event, IsFiniteSet(events'),
         UNCHANGED <<refresh, issued, revoked, callback>>, TokensGranted(cache'),
         booked' \in [Turns -> Appointment \cup {None}],
         \A u \in Turns : booked'[u] # None => IF u = t THEN w.pc = "done" ELSE booked[u] # None,
         raced' \subseteq Turns \X Turns, refilled' \subseteq Processes, faults' \in 0..MaxFaults
  PROVE  Base'
<1>1. /\ turn \in [Turns -> Turn] /\ turn' = [turn EXCEPT ![t] = w]
      /\ turn' \in [Turns -> Turn] /\ turn'[t] = w
      /\ \A u \in Turns : u # t => turn'[u] = turn[u]
  BY DEF Base, TypeOK, Becomes
<1>2. TypeOK'
  BY <1>1 DEF Base, TypeOK, TokensGranted
<1>3. ASSUME NEW u \in Turns PROVE ShapeOf(turn'[u], issued', events')
  <2>1. ShapeOf(turn[u], issued, events)
    BY DEF Base, Shape
  <2>2. CASE u = t
    BY <1>1, <2>2
  <2>3. CASE u # t
    <3>1. turn'[u] = turn[u]
      BY <1>1, <2>3
    <3> QED BY <2>1, <3>1 DEF ShapeOf
  <2> QED BY <2>2, <2>3
<1>4. \A u \in Turns : booked'[u] # None => turn'[u].pc = "done"
  BY <1>1 DEF Base, Shape, At
<1>5. Shape'
  BY <1>3, <1>4 DEF Base, Shape, At
<1> QED BY <1>2, <1>5 DEF Base

LEMMA TokenFacts ==
  ASSUME Base
  PROVE  /\ TokensGranted(cache)
         /\ \A t \in Turns : turn[t].seen # NotConnected => TokenOf(t) \in 1..issued
         /\ \A t \in Turns : FetchToken(t) /\ turn[t].seen # NotConnected =>
              TokensGranted(cache') /\ refilled' \subseteq Processes
<1>1. TokensGranted(cache)
  BY DEF Base, TypeOK, TokensGranted
<1> SUFFICES ASSUME NEW t \in Turns, turn[t].seen # NotConnected
             PROVE  /\ TokenOf(t) \in 1..issued
                    /\ FetchToken(t) => TokensGranted(cache') /\ refilled' \subseteq Processes
  BY <1>1
<1> DEFINE p == ProcessOf[t]
           k == [grant |-> turn[t].seen, fresh |-> TRUE]
<1>2. /\ p \in Processes /\ refilled \subseteq Processes
      /\ turn[t].seen \in 1..issued /\ turn[t].seen \in Grant
  BY BookingAssumption DEF Base, TypeOK, Shape, ShapeOf, Turn
<1>3. TokenOf(t) \in 1..issued
  BY <1>1, <1>2 DEF TokenOf, Cached, TokensGranted
<1>4. k \in Token
  BY <1>2 DEF Token
<1>5. ASSUME FetchToken(t) PROVE TokensGranted(cache') /\ refilled' \subseteq Processes
  <2>1. cache' = [cache EXCEPT ![p] = k] \/ cache' = cache
    BY <1>5 DEF FetchToken
  <2>2. refilled' \subseteq Processes
    BY <1>2, <1>5 DEF FetchToken
  <2>3. k.grant \in 1..issued
    BY <1>2
  <2> HIDE DEF k, p
  <2>4. TokensGranted(cache')
    BY <1>1, <1>2, <1>4, <2>1, <2>3 DEF TokensGranted
  <2> QED BY <2>2, <2>4
<1> QED BY <1>3, <1>5

(* A turn that is not done has no appointment.                             *)
LEMMA NotBooked ==
  ASSUME Base, NEW t \in Turns, turn[t].pc # "done"
  PROVE  \A u \in Turns : booked[u] # None => IF u = t THEN FALSE ELSE booked[u] # None
BY DEF Base, Shape, At

LEMMA InitBase == Init => Base
<1> SUFFICES ASSUME Init PROVE Base
  OBVIOUS
<1>1. /\ refresh \in Grant /\ issued = refresh /\ refresh \in Nat /\ callback = NotConnected
      /\ refresh \in 0..issued /\ callback \in 0..issued
  BY GrantFacts DEF Init, NotConnected, Grant
<1>2. NoToken \in Token /\ NoToken.fresh = FALSE
  BY GrantFacts DEF NoToken, Token
<1>3. /\ turn = [t \in Turns |-> NoTurn] /\ booked = [t \in Turns |-> None]
      /\ cache = [p \in Processes |-> NoToken]
      /\ events = {} /\ revoked = {} /\ raced = {} /\ refilled = {} /\ faults = 0
  BY DEF Init
<1>4. TypeOK
  BY <1>1, <1>2, <1>3, NoTurnType, GrantFacts, BookingAssumption DEF TypeOK
<1>5. IsFiniteSet(events)
  BY <1>3, FS_EmptySet
<1>6. \A t \in Turns : ShapeOf(turn[t], issued, events)
  BY <1>3, NoTurnType DEF ShapeOf
<1>7. Shape
  BY <1>1, <1>3, <1>5, <1>6 DEF Shape
<1> QED BY <1>4, <1>7 DEF Base

LEMMA FaultType ==
  ASSUME Base, Fault \/ NoFault
  PROVE  /\ faults' \in 0..MaxFaults /\ faults \in Nat
         /\ Fault => faults' = faults + 1
         /\ NoFault => faults' = faults
BY BookingAssumption DEF Base, TypeOK, Fault, NoFault

(* Every step keeps the types and the shape of every turn.                 *)
LEMMA NextBase == Base /\ [Next]_vars => Base'
<1> SUFFICES ASSUME Base, [Next]_vars PROVE Base'
  OBVIOUS
<1>t. /\ TypeOK /\ TokensGranted(cache) /\ IsFiniteSet(events) /\ events \subseteq Event
      /\ booked \in [Turns -> Appointment \cup {None}]
      /\ raced \subseteq Turns \X Turns /\ refilled \subseteq Processes
      /\ faults \in 0..MaxFaults
      /\ refresh \in 0..issued /\ callback \in 0..issued /\ issued \in Grant /\ issued \in Nat
      /\ revoked \subseteq 1..issued
      /\ \A t \in Turns : turn[t] \in Turn /\ ShapeOf(turn[t], issued, events)
  BY TokenFacts, GrantFacts DEF Base, TypeOK, Shape
<1>1. ASSUME NEW t \in Turns, Begin(t) PROVE Base'
  <2>1. PICK w \in Turn : /\ Becomes(t, w) /\ w.pc = "lookup" /\ w.seen = refresh
                          /\ w.slot = None /\ w.event = None /\ ~w.crashed
    BY <1>1, <1>t, BeginDoes
  <2>2. ShapeOf(w, issued, events)
    BY <1>t, <2>1 DEF ShapeOf, NotConnected
  <2>3. turn[t].pc # "done"
    BY <1>1 DEF Begin, At
  <2> QED BY <1>1, <1>t, <2>1, <2>2, <2>3, NotBooked, TurnBase DEF Begin
<1>2. ASSUME NEW t \in Turns,
             ReadAppointments(t) \/ FreeBusy(t) \/ FreeBusyFails(t) \/ FreeBusyCrashes(t)
           \/ BookNothing(t)
      PROVE  Base'
  <2>1. PICK w \in Turn :
           /\ Becomes(t, w) /\ SameRun(w, turn[t]) /\ SameSync(w, turn[t])
           /\ w.slot = turn[t].slot
           /\ \/ ReadAppointments(t) /\ w.pc = IF w.seen = NotConnected THEN "choose" ELSE "freebusy"
              \/ (FreeBusy(t) \/ FreeBusyFails(t)) /\ w.pc = "choose"
              \/ (BookNothing(t) \/ FreeBusyCrashes(t)) /\ w.pc = "reply"
    BY <1>2, <1>t, LookDoes
  <2>2. turn[t].pc \in {"lookup", "freebusy", "choose"}
        /\ (FreeBusy(t) \/ FreeBusyFails(t) \/ FreeBusyCrashes(t) => turn[t].seen # NotConnected)
    BY <1>2, <1>t DEF ReadAppointments, FreeBusy, FreeBusyFails, FreeBusyCrashes, BookNothing, At, ShapeOf
  <2>3. ShapeOf(w, issued, events)
    BY <1>t, <2>1, <2>2 DEF ShapeOf, SameRun, SameSync
  <2>4. TokensGranted(cache') /\ refilled' \subseteq Processes
    <3>1. \/ UNCHANGED <<cache, refilled>>
          \/ FetchToken(t) /\ turn[t].seen # NotConnected
      BY <1>2, <2>2 DEF ReadAppointments, FreeBusy, FreeBusyFails, FreeBusyCrashes, BookNothing
    <3> QED BY <1>t, <3>1, TokenFacts
  <2>5. faults' \in 0..MaxFaults
    BY <1>2, <1>t, FaultType DEF ReadAppointments, FreeBusy, FreeBusyFails, FreeBusyCrashes, BookNothing
  <2>6. UNCHANGED <<refresh, issued, revoked, callback, booked, events, raced>>
    BY <1>2 DEF ReadAppointments, FreeBusy, FreeBusyFails, FreeBusyCrashes, BookNothing
  <2> QED BY <1>t, <2>1, <2>2, <2>3, <2>4, <2>5, <2>6, NotBooked, TurnBase
<1>3. ASSUME NEW t \in Turns, NEW s \in Slots, Book(t, s) PROVE Base'
  <2>1. PICK w \in Turn :
           /\ Becomes(t, w) /\ SameRun(w, turn[t]) /\ SameSync(w, turn[t]) /\ w.slot = s
           /\ w.pc = IF w.seen = NotConnected THEN "reply" ELSE "fetch"
    BY <1>3, <1>t, BookDoes
  <2>2. turn[t].pc = "choose" /\ s # None
    BY <1>3, BookingAssumption DEF Book, At
  <2>3. ShapeOf(w, issued, events)
    BY <1>t, <2>1, <2>2 DEF ShapeOf, SameRun, SameSync
  <2> QED BY <1>3, <1>t, <2>1, <2>2, <2>3, NotBooked, TurnBase DEF Book
<1>4. ASSUME NEW t \in Turns, Fetch(t) PROVE Base'
  <2>1. PICK w \in Turn :
           /\ Becomes(t, w) /\ SameRun(w, turn[t]) /\ w.slot = turn[t].slot
           /\ w.event = turn[t].event /\ w.token = TokenOf(t) /\ w.pc = "post"
           /\ w.crashed = turn[t].crashed
    BY <1>4, <1>t, FetchDoes
  <2>2. turn[t].pc = "fetch" /\ turn[t].seen # NotConnected
    BY <1>4, <1>t DEF Fetch, At, ShapeOf
  <2>3. /\ TokenOf(t) \in 1..issued /\ TokensGranted(cache') /\ refilled' \subseteq Processes
    BY <1>4, <2>2, TokenFacts DEF Fetch
  <2>4. ShapeOf(w, issued, events)
    BY <1>t, <2>1, <2>2, <2>3 DEF ShapeOf, SameRun
  <2>5. UNCHANGED <<refresh, issued, revoked, callback, booked, events, raced, faults>>
    BY <1>4 DEF Fetch
  <2> QED BY <1>t, <2>1, <2>2, <2>3, <2>4, <2>5, NotBooked, TurnBase
(* The last answer of the synchronisation.                                 *)
<1>5. ASSUME NEW t \in Turns, turn[t].pc \in {"fetch", "post"},
             NEW event \in Event \cup {None}, NEW attention \in BOOLEAN,
             NEW crashed \in BOOLEAN, Outcome(t, event, attention, crashed),
             event \in events' \/ (event = None /\ (attention \/ crashed)),
             events \subseteq events', events' \subseteq Event, IsFiniteSet(events'),
             UNCHANGED <<refresh, issued, revoked, cache, callback, booked, raced, refilled>>,
             faults' \in 0..MaxFaults
      PROVE  Base'
  <2>1. PICK w \in Turn :
           /\ Becomes(t, w) /\ SameRun(w, turn[t]) /\ w.slot = turn[t].slot
           /\ w.event = event /\ w.attention = attention /\ w.crashed = crashed
           /\ w.pc = "reply"
    BY <1>5, <1>t, OutcomeDoes
  <2>2. event \in events' => event # None
    BY <1>5, NoneAssumption
  <2>3. ShapeOf(w, issued, events')
    BY <1>5, <1>t, <2>1, <2>2 DEF ShapeOf, SameRun
  <2> QED BY <1>5, <1>t, <2>1, <2>3, NotBooked, TurnBase
<1>6. ASSUME NEW t \in Turns, FetchFails(t) \/ EventRejected(t) \/ FetchCrashes(t) PROVE Base'
  <2>1. /\ turn[t].pc \in {"fetch", "post"} /\ faults' \in 0..MaxFaults
        /\ Outcome(t, None, TRUE, FALSE) \/ Outcome(t, None, FALSE, TRUE)
        /\ UNCHANGED <<refresh, issued, revoked, cache, callback, booked, events, raced, refilled>>
    BY <1>6, FaultType DEF FetchFails, EventRejected, FetchCrashes, At, GiveUp, Swallowed
  <2> QED BY <1>5, <1>t, <2>1
<1>e. ASSUME NEW t \in Turns, At(t, "post"), events' = events \cup {NewEvent(t)}
      PROVE  events' \subseteq Event /\ IsFiniteSet(events') /\ NewEvent(t) \in events'
             /\ NewEvent(t) \in Event
  BY <1>e, <1>t, NewEventType, FS_AddElement
<1>7. ASSUME NEW t \in Turns, CreateEvent(t) PROVE Base'
  <2>1. /\ turn[t].pc = "post" /\ At(t, "post") /\ events' = events \cup {NewEvent(t)}
        /\ Outcome(t, NewEvent(t), FALSE, FALSE)
        /\ UNCHANGED <<refresh, issued, revoked, cache, callback, booked, raced, refilled, faults>>
    BY <1>7 DEF CreateEvent, At, Synced
  <2> QED BY <1>5, <1>e, <1>t, <2>1
<1>c. ASSUME NEW t \in Turns, PostCrashes(t) PROVE Base'
  <2>1. /\ turn[t].pc = "post" /\ At(t, "post") /\ events' = events \cup {NewEvent(t)}
        /\ Outcome(t, None, FALSE, TRUE) /\ faults' \in 0..MaxFaults
        /\ UNCHANGED <<refresh, issued, revoked, cache, callback, booked, raced, refilled>>
    BY <1>c, FaultType DEF PostCrashes, At, Swallowed
  <2> QED BY <1>5, <1>e, <1>t, <2>1
<1>8. ASSUME NEW t \in Turns, NoAnswer(t) PROVE Base'
  <2>1. /\ turn[t].pc = "post" /\ At(t, "post") /\ faults' \in 0..MaxFaults
        /\ events' = events \cup {NewEvent(t)} \/ events' = events
        /\ UNCHANGED <<refresh, issued, revoked, cache, callback, booked, raced, refilled>>
    BY <1>8, FaultType DEF NoAnswer, At
  <2>2. events \subseteq events' /\ events' \subseteq Event /\ IsFiniteSet(events')
    BY <1>e, <1>t, <2>1
  <2>3. CASE turn[t].attempt < MaxAttempts
    <3>1. PICK w \in Turn :
           /\ Becomes(t, w) /\ SameRun(w, turn[t]) /\ w.slot = turn[t].slot
           /\ w.event = turn[t].event /\ w.token = turn[t].token /\ w.pc = turn[t].pc
           /\ w.crashed = turn[t].crashed
      BY <1>8, <1>t, <2>3, RetryDoes DEF NoAnswer, AfterNoAnswer
    <3>2. ShapeOf(w, issued, events')
      BY <1>t, <2>1, <3>1 DEF ShapeOf, SameRun
    <3> QED BY <1>t, <2>1, <2>2, <3>1, <3>2, NotBooked, TurnBase
  <2>4. CASE ~(turn[t].attempt < MaxAttempts)
    <3>1. Outcome(t, None, TRUE, FALSE)
      BY <1>8, <2>4 DEF NoAnswer, AfterNoAnswer, GiveUp
    <3> QED BY <1>5, <2>1, <2>2, <3>1
  <2> QED BY <2>3, <2>4
<1>9. ASSUME NEW t \in Turns, CommitTurn(t) PROVE Base'
  <2>1. PICK w \in Turn : /\ Becomes(t, w) /\ w.seen = NotConnected /\ w.slot = None
                          /\ w.event = None /\ w.pc = "done" /\ ~w.crashed
    BY <1>9, <1>t, EndDoes
  <2>2. ShapeOf(w, issued, events)
    BY <2>1 DEF ShapeOf
  <2>3. \A escalated \in BOOLEAN : turn[t].slot # None => Recorded(t, escalated) \in Appointment
    BY <1>t DEF Recorded, Heard, Attention, Appointment, Turn
  <2>4. /\ booked' \in [Turns -> Appointment \cup {None}]
        /\ \A u \in Turns : u # t => booked'[u] = booked[u]
    BY <1>9, <1>t, <2>3 DEF CommitTurn
  <2>5. raced' \subseteq Turns \X Turns
    BY <1>9, <1>t DEF CommitTurn
  <2>6. UNCHANGED <<refresh, issued, revoked, cache, callback, events, refilled, faults>>
    BY <1>9 DEF CommitTurn
  <2> QED BY <1>t, <2>1, <2>2, <2>4, <2>5, <2>6, TurnBase
<1>10. ASSUME NEW t \in Turns, FailTurn(t) PROVE Base'
  <2>1. PICK w \in Turn : /\ Becomes(t, w) /\ w.seen = NotConnected /\ w.slot = None
                          /\ w.event = None /\ w.pc \in {"idle", "buried"} /\ ~w.crashed
    BY <1>10, <1>t, EndDoes
  <2>2. ShapeOf(w, issued, events)
    BY <2>1 DEF ShapeOf
  <2>3. turn[t].pc # "done" /\ faults' \in 0..MaxFaults
    BY <1>10, FaultType DEF FailTurn
  <2>4. UNCHANGED <<refresh, issued, revoked, cache, callback, booked, events, raced, refilled>>
    BY <1>10 DEF FailTurn
  <2> QED BY <1>t, <2>1, <2>2, <2>3, <2>4, NotBooked, TurnBase
(* The steps of the account: no turn moves.                                *)
<1>11. ASSUME NEW p \in Processes, TokenExpires(p) PROVE Base'
  <2> DEFINE k == [cache[p] EXCEPT !.fresh = FALSE]
  <2>1. cache[p] \in Token /\ cache' = [cache EXCEPT ![p] = k]
    BY <1>11, <1>t DEF TokenExpires, TokensGranted
  <2>2. k \in Token /\ k.fresh = FALSE
    BY <2>1 DEF Token
  <2> HIDE DEF k
  <2>3. TokensGranted(cache')
    BY <1>t, <2>1, <2>2 DEF TokensGranted
  <2>4. UNCHANGED <<refresh, issued, revoked, callback, turn, booked, events, raced, refilled, faults>>
    BY <1>11 DEF TokenExpires
  <2> QED BY <2>3, <2>4 DEF Base, TypeOK, Shape, TokensGranted, At
<1>12. ASSUME Connect PROVE Base'
  <2>1. issued + 1 \in Grant /\ issued' = issued + 1 /\ callback' = issued + 1
        /\ cache' = [cache EXCEPT ![Api] = NoToken] /\ refilled' \subseteq Processes
        /\ UNCHANGED <<refresh, revoked, turn, booked, events, raced, faults>>
    BY <1>12, <1>t DEF Connect, Grant
  <2>2. NoToken \in Token /\ NoToken.fresh = FALSE /\ Api \in Processes
    BY GrantFacts, BookingAssumption DEF NoToken, Token
  <2>3. (1..issued) \subseteq 1..issued' /\ (0..issued) \subseteq 0..issued' /\ callback' \in 0..issued'
    BY <1>t, <2>1
  <2>4. /\ cache' \in [Processes -> Token]
        /\ \A p \in Processes : cache'[p].fresh => cache'[p].grant \in 1..issued'
    BY <1>t, <2>1, <2>2, <2>3 DEF TokensGranted
  <2>5. TypeOK'
    BY <1>t, <2>1, <2>3, <2>4 DEF TypeOK
  <2>6. ASSUME NEW u \in Turns PROVE ShapeOf(turn'[u], issued', events')
    BY <1>t, <2>1, <2>3 DEF ShapeOf
  <2>7. Shape'
    BY <1>t, <2>1, <2>3, <2>6 DEF Base, Shape, At
  <2> QED BY <2>5, <2>7 DEF Base
<1>13. ASSUME CommitGrant \/ ConnectFails PROVE Base'
  <2>1. /\ refresh' \in {refresh, callback} /\ callback' = NotConnected
        /\ faults' \in 0..MaxFaults
        /\ UNCHANGED <<issued, revoked, cache, turn, booked, events, raced, refilled>>
    BY <1>13, <1>t, FaultType DEF CommitGrant, ConnectFails
  <2>2. refresh' \in 0..issued /\ callback' \in 0..issued /\ refresh' \in Grant /\ callback' \in Grant
    BY <1>t, <2>1, GrantFacts DEF NotConnected
  <2> QED BY <1>t, <2>1, <2>2 DEF Base, TypeOK, Shape, At
<1>14. ASSUME NEW g \in Grants, Revoke(g) PROVE Base'
  <2>1. revoked' \subseteq 1..issued
        /\ UNCHANGED <<refresh, issued, cache, callback, turn, booked, events, raced, refilled, faults>>
    BY <1>14, <1>t DEF Revoke
  <2> QED BY <1>t, <2>1 DEF Base, TypeOK, Shape, At
<1>15. CASE UNCHANGED vars
  BY <1>15 DEF vars, Base, TypeOK, Shape, At
<1> QED
  BY <1>1, <1>2, <1>3, <1>4, <1>6, <1>7, <1>c, <1>8, <1>9, <1>10, <1>11, <1>12, <1>13, <1>14, <1>15
     DEF Next

(* The types of bookings, calendars and grants.                            *)
THEOREM TypeCorrect == Spec => []TypeOK
<1>1. Base => TypeOK
  BY DEF Base
<1> QED BY <1>1, InitBase, NextBase, PTL DEF Spec

-----------------------------------------------------------------------------
(* The token of the process that serves the callback.                      *)
LEMMA TokensStep ==
  ASSUME Base, DroppedMeanwhile, TokenDropped, [Next]_vars
  PROVE  DroppedMeanwhile' /\ TokenDropped'
<1>t. /\ cache \in [Processes -> Token] /\ Api \in Processes /\ refilled \subseteq Processes
      /\ \A t \in Turns : ProcessOf[t] \in Processes /\ turn[t].seen \in Grant
      /\ DroppedMeanwhile /\ TokenDropped
  BY BookingAssumption DEF Base, TypeOK, Turn
<1>1. CASE UNCHANGED <<cache, refilled, callback, refresh>>
  BY <1>1, <1>t DEF DroppedMeanwhile, TokenDropped, Cached
<1>2. ASSUME NEW t \in Turns, FetchToken(t), UNCHANGED <<callback, refresh>>
      PROVE  DroppedMeanwhile' /\ TokenDropped'
  <2> DEFINE p == ProcessOf[t]
             k == [grant |-> turn[t].seen, fresh |-> TRUE]
  <2>1. CASE UNCHANGED <<cache, refilled>>
    BY <1>1, <1>2, <2>1
  <2>2. CASE /\ cache' = [cache EXCEPT ![p] = k]
             /\ refilled' = IF callback # NotConnected \/ turn[t].seen # refresh
                            THEN refilled \cup {p} ELSE refilled \ {p}
    <3>1. k.grant = turn[t].seen /\ k.fresh = TRUE
      OBVIOUS
    <3> HIDE DEF k
    <3>2. CASE p # Api
      BY <1>2, <1>t, <2>2, <3>2 DEF DroppedMeanwhile, TokenDropped, Cached
    <3>3. CASE p = Api
      <4>1. cache'[Api] = k
        BY <1>t, <2>2, <3>3
      <4> QED BY <1>2, <1>t, <2>2, <3>1, <3>3, <4>1 DEF DroppedMeanwhile, TokenDropped, Cached
    <3> QED BY <3>2, <3>3
  <2> QED BY <1>2, <2>1, <2>2 DEF FetchToken
<1>3. ASSUME NEW p \in Processes, TokenExpires(p) PROVE DroppedMeanwhile' /\ TokenDropped'
  <2> DEFINE k == [cache[p] EXCEPT !.fresh = FALSE]
  <2>1. cache[p] \in Token /\ cache' = [cache EXCEPT ![p] = k]
        /\ UNCHANGED <<refilled, callback, refresh>>
    BY <1>3, <1>t DEF TokenExpires
  <2>2. k.fresh = FALSE
    BY <2>1 DEF Token
  <2> HIDE DEF k
  <2>3. Cached(Api)' \in {Cached(Api), NotConnected}
    BY <1>t, <2>1, <2>2 DEF Cached
  <2> QED BY <1>t, <2>1, <2>3 DEF DroppedMeanwhile, TokenDropped
<1>4. ASSUME Connect PROVE DroppedMeanwhile' /\ TokenDropped'
  <2>1. cache'[Api] = NoToken
    BY <1>4, <1>t DEF Connect
  <2> QED BY <2>1 DEF DroppedMeanwhile, TokenDropped, Cached, NoToken
<1>5. ASSUME CommitGrant PROVE DroppedMeanwhile' /\ TokenDropped'
  <2>1. Cached(Api)' = Cached(Api)
    BY <1>5 DEF CommitGrant, Cached
  <2> QED BY <1>5, <1>t, <2>1 DEF CommitGrant, DroppedMeanwhile, TokenDropped
<1>6. ASSUME ConnectFails PROVE DroppedMeanwhile' /\ TokenDropped'
  <2>1. Cached(Api)' = Cached(Api)
    BY <1>6 DEF ConnectFails, Cached
  <2> QED BY <1>6, <1>t, <2>1 DEF ConnectFails, DroppedMeanwhile, TokenDropped
<1>7. \/ UNCHANGED <<cache, refilled, callback, refresh>>
      \/ \E t \in Turns : FetchToken(t) /\ UNCHANGED <<callback, refresh>>
      \/ \E p \in Processes : TokenExpires(p)
      \/ Connect \/ CommitGrant \/ ConnectFails
  <2>1. ASSUME NEW t \in Turns, FreeBusy(t) \/ FreeBusyFails(t) \/ FreeBusyCrashes(t) \/ Fetch(t)
        PROVE  /\ UNCHANGED <<callback, refresh>>
               /\ FetchToken(t) \/ UNCHANGED <<cache, refilled>>
    BY <2>1 DEF FreeBusy, FreeBusyFails, FreeBusyCrashes, Fetch
  <2>2. ASSUME NEW t \in Turns,
               \/ Begin(t) \/ ReadAppointments(t) \/ (\E s \in Slots : Book(t, s)) \/ BookNothing(t)
               \/ FetchFails(t) \/ FetchCrashes(t) \/ CreateEvent(t) \/ NoAnswer(t)
               \/ EventRejected(t) \/ PostCrashes(t) \/ CommitTurn(t) \/ FailTurn(t)
        PROVE  UNCHANGED <<cache, refilled, callback, refresh>>
    BY <2>2 DEF Begin, ReadAppointments, Book, BookNothing, FetchFails, FetchCrashes, CreateEvent,
                NoAnswer, EventRejected, PostCrashes, CommitTurn, FailTurn
  <2>3. UNCHANGED vars \/ (\E g \in Grants : Revoke(g)) => UNCHANGED <<cache, refilled, callback, refresh>>
    BY DEF vars, Revoke
  <2> QED BY <2>1, <2>2, <2>3 DEF Next
<1> QED BY <1>1, <1>2, <1>3, <1>4, <1>5, <1>6, <1>7

-----------------------------------------------------------------------------
(* The bookings of a step that commits none: the turn that moves goes on   *)
(* knowing what is booked.                                                 *)
KnowsBooked(t, w) ==
  \A u \in Turns : u # t /\ booked[u] # None =>
    /\ w.pc \in {"freebusy", "choose"} => booked[u].slot \in w.busy \/ <<t, u>> \in raced
    /\ w.slot = booked[u].slot => <<t, u>> \in raced

LEMMA NothingBooked ==
  ASSUME Base, BusyKnown, DoubleBookingRaced, SeenOrCrashed,
         NEW t \in Turns, NEW w, Becomes(t, w), KnowsBooked(t, w),
         UNCHANGED <<booked, raced>>, events \subseteq events'
  PROVE  BusyKnown' /\ DoubleBookingRaced' /\ SeenOrCrashed'
<1>1. turn'[t] = w /\ \A u \in Turns : u # t => turn'[u] = turn[u]
  BY DEF Base, TypeOK, Becomes
<1>2. BusyKnown'
  BY <1>1 DEF BusyKnown, KnowsBooked
<1> QED BY <1>2 DEF DoubleBookingRaced, SeenOrCrashed, Unseen

(* What a commit records.                                                  *)
LEMMA RecordedDoes ==
  ASSUME TypeOK, NEW t \in Turns, CommitTurn(t), turn[t].slot # None
  PROVE  /\ booked'[t].slot = turn[t].slot /\ booked'[t].event = turn[t].event
         /\ booked'[t].connected = (turn[t].seen # NotConnected)
         /\ turn[t].attention => booked'[t].attention # "none"
         /\ booked'[t].crashed = turn[t].crashed
         /\ booked'[t] # None
<1>1. PICK escalated \in BOOLEAN : booked' = [booked EXCEPT ![t] = Recorded(t, escalated)]
  BY DEF CommitTurn
<1>2. booked'[t] = Recorded(t, escalated)
  BY <1>1 DEF TypeOK
<1>3. Recorded(t, escalated) \in Appointment
  BY DEF Recorded, Heard, Attention, Appointment, TypeOK, Turn
<1> QED BY <1>2, <1>3, NoneAssumption DEF Recorded, Heard

(* A turn commits: those that looked before have been overtaken.           *)
LEMMA BookedStep ==
  ASSUME Base, BusyKnown, DoubleBookingRaced, SeenOrCrashed, NEW t \in Turns, CommitTurn(t)
  PROVE  BusyKnown' /\ DoubleBookingRaced' /\ SeenOrCrashed'
<1>1. PICK w \in Turn : /\ Becomes(t, w) /\ w.seen = NotConnected /\ w.slot = None
                        /\ w.event = None /\ w.pc = "done"
  BY EndDoes DEF Base
<1>2. turn'[t] = w /\ \A u \in Turns : u # t => turn'[u] = turn[u]
  BY <1>1 DEF Base, TypeOK, Becomes
<1>3. /\ turn[t].pc = "reply" /\ booked[t] = None /\ ShapeOf(turn[t], issued, events)
      /\ \A u \in Turns : u # t => booked'[u] = booked[u]
      /\ booked'[t] # None => turn[t].slot # None
      /\ raced' = raced \cup {<<u, t>> : u \in {v \in Turns \ {t} : LookedAt(v)}}
      /\ events' = events
  BY DEF CommitTurn, At, Base, TypeOK, Shape
<1>4. booked'[t] # None =>
        /\ booked'[t].slot = turn[t].slot /\ booked'[t].event = turn[t].event
        /\ booked'[t].connected = (turn[t].seen # NotConnected)
        /\ turn[t].attention => booked'[t].attention # "none"
        /\ booked'[t].crashed = turn[t].crashed
  <2>1. TypeOK
    BY DEF Base
  <2> QED BY <1>3, <2>1, RecordedDoes
<1>5. \A u \in Turns : booked[u] # None => booked[u].slot # None
  BY BookingAssumption DEF Base, TypeOK, Appointment
<1>6. BusyKnown'
  <2> SUFFICES ASSUME NEW v \in Turns, NEW u \in Turns, v # u, booked'[u] # None
               PROVE  /\ turn'[v].pc \in {"freebusy", "choose"} =>
                           booked'[u].slot \in turn'[v].busy \/ <<v, u>> \in raced'
                      /\ turn'[v].slot = booked'[u].slot => <<v, u>> \in raced'
    BY DEF BusyKnown
  <2>1. CASE v = t
    BY <1>1, <1>2, <1>3, <1>5, <2>1
  <2>2. CASE u = t
    <3>1. turn'[v] = turn[v] /\ booked'[u].slot # None /\ ShapeOf(turn[v], issued, events)
      BY <1>2, <1>3, <1>4, <2>2 DEF Base, Shape
    <3>2. turn[v].slot = booked'[u].slot => LookedAt(v)
      BY <3>1 DEF ShapeOf, LookedAt
    <3>3. LookedAt(v) => <<v, u>> \in raced'
      BY <1>3, <2>2
    <3> QED BY <3>1, <3>2, <3>3 DEF LookedAt
  <2>3. CASE v # t /\ u # t
    BY <1>2, <1>3, <2>3 DEF BusyKnown
  <2> QED BY <2>1, <2>2, <2>3
<1>7. DoubleBookingRaced'
  <2> SUFFICES ASSUME NEW v \in Turns, NEW u \in Turns, v # u, booked'[v] # None,
                      booked'[u] # None, booked'[v].slot = booked'[u].slot
               PROVE  <<v, u>> \in raced' \/ <<u, v>> \in raced'
    BY DEF DoubleBookingRaced
  <2>1. CASE v = t
    BY <1>3, <1>4, <2>1 DEF BusyKnown
  <2>2. CASE u = t
    BY <1>3, <1>4, <2>2 DEF BusyKnown
  <2>3. CASE v # t /\ u # t
    BY <1>3, <2>3 DEF DoubleBookingRaced
  <2> QED BY <2>1, <2>2, <2>3
<1>8. SeenOrCrashed'
  <2> SUFFICES ASSUME NEW u \in Turns, booked'[u] # None
               PROVE  /\ booked'[u].event # None => booked'[u].event \in events
                      /\ Unseen(u)' => booked'[u].crashed
    BY <1>3 DEF SeenOrCrashed
  <2>1. CASE u = t
    BY <1>3, <1>4, <2>1 DEF ShapeOf, Unseen
  <2>2. CASE u # t
    BY <1>3, <2>2 DEF SeenOrCrashed, Unseen
  <2> QED BY <2>1, <2>2
<1> QED BY <1>6, <1>7, <1>8

LEMMA BookingsStep ==
  ASSUME Base, BusyKnown, DoubleBookingRaced, SeenOrCrashed, [Next]_vars
  PROVE  BusyKnown' /\ DoubleBookingRaced' /\ SeenOrCrashed'
<1> DEFINE Goal == BusyKnown' /\ DoubleBookingRaced' /\ SeenOrCrashed'
<1>t. /\ TypeOK /\ BusyKnown /\ DoubleBookingRaced /\ SeenOrCrashed
      /\ \A t \in Turns : turn[t] \in Turn /\ ShapeOf(turn[t], issued, events)
      /\ \A u \in Turns : booked[u] # None =>
           booked[u].slot \in Slots /\ booked[u].slot \in Taken /\ booked[u].slot # None
  BY SlotFacts, BookingAssumption DEF Base, TypeOK, Shape
(* A turn that keeps its slot, or drops it.                                *)
<1>1. ASSUME NEW t \in Turns, NEW w, Becomes(t, w), w.slot = turn[t].slot \/ w.slot = None,
             w.pc \notin {"freebusy", "choose"}, UNCHANGED <<booked, raced>>,
             events \subseteq events'
      PROVE  Goal
  <2>1. KnowsBooked(t, w)
    BY <1>1, <1>t DEF BusyKnown, KnowsBooked
  <2> QED BY <1>1, <1>t, <2>1, NothingBooked
<1>2. ASSUME NEW t \in Turns, Begin(t) PROVE Goal
  BY <1>1, <1>2, <1>t, BeginDoes DEF Begin
<1>3. ASSUME NEW t \in Turns,
             ReadAppointments(t) \/ FreeBusy(t) \/ FreeBusyFails(t) \/ FreeBusyCrashes(t)
           \/ BookNothing(t)
      PROVE  Goal
  <2>1. PICK w \in Turn :
           /\ Becomes(t, w) /\ w.slot = turn[t].slot
           /\ \/ ReadAppointments(t) /\ w.busy = Taken
              \/ (FreeBusy(t) \/ FreeBusyFails(t)) /\ turn[t].busy \subseteq w.busy
              \/ (BookNothing(t) \/ FreeBusyCrashes(t)) /\ w.pc = "reply"
    BY <1>3, <1>t, LookDoes
  <2>2. UNCHANGED <<booked, events, raced>>
    BY <1>3 DEF ReadAppointments, FreeBusy, FreeBusyFails, FreeBusyCrashes, BookNothing
  <2>3. turn[t].pc = "freebusy" \/ w.busy = Taken \/ w.pc = "reply"
    BY <2>1 DEF FreeBusy, FreeBusyFails, At
  <2>4. turn[t].busy \subseteq w.busy \/ w.busy = Taken \/ w.pc = "reply"
    BY <2>1
  <2>5. KnowsBooked(t, w)
    BY <1>t, <2>1, <2>3, <2>4 DEF BusyKnown, KnowsBooked
  <2> QED BY <1>t, <2>1, <2>2, <2>5, NothingBooked
<1>4. ASSUME NEW t \in Turns, NEW s \in Slots, Book(t, s) PROVE Goal
  <2>1. PICK w \in Turn :
           /\ Becomes(t, w) /\ w.slot = s
           /\ w.pc = IF w.seen = NotConnected THEN "reply" ELSE "fetch"
    BY <1>4, <1>t, BookDoes
  <2>2. turn[t].pc = "choose" /\ s \notin turn[t].busy /\ UNCHANGED <<booked, events, raced>>
    BY <1>4 DEF Book, At
  <2>3. KnowsBooked(t, w)
    BY <1>t, <2>1, <2>2 DEF BusyKnown, KnowsBooked
  <2> QED BY <1>t, <2>1, <2>2, <2>3, NothingBooked
<1>5. ASSUME NEW t \in Turns, Fetch(t) PROVE Goal
  <2>1. PICK w \in Turn : Becomes(t, w) /\ w.slot = turn[t].slot /\ w.pc = "post"
    BY <1>5, <1>t, FetchDoes
  <2>2. UNCHANGED <<booked, events, raced>>
    BY <1>5 DEF Fetch
  <2> QED BY <1>1, <2>1, <2>2
<1>6. ASSUME NEW t \in Turns, NEW event \in Event \cup {None}, NEW attention \in BOOLEAN,
             NEW crashed \in BOOLEAN, Outcome(t, event, attention, crashed), UNCHANGED <<booked, raced>>, events \subseteq events'
      PROVE  Goal
  <2>1. PICK w \in Turn : Becomes(t, w) /\ w.slot = turn[t].slot /\ w.pc = "reply"
    BY <1>6, <1>t, OutcomeDoes
  <2> QED BY <1>1, <1>6, <2>1
<1>7. ASSUME NEW t \in Turns,
             FetchFails(t) \/ EventRejected(t) \/ FetchCrashes(t) \/ PostCrashes(t)
      PROVE  Goal
  BY <1>6, <1>7 DEF FetchFails, EventRejected, FetchCrashes, PostCrashes, GiveUp, Swallowed
<1>8. ASSUME NEW t \in Turns, CreateEvent(t) PROVE Goal
  <2>1. NewEvent(t) \in Event
    BY <1>8, NewEventType DEF CreateEvent
  <2> QED BY <1>6, <1>8, <2>1 DEF CreateEvent, Synced
<1>9. ASSUME NEW t \in Turns, NoAnswer(t) PROVE Goal
  <2>1. events \subseteq events' /\ UNCHANGED <<booked, raced>> /\ turn[t].pc = "post"
    BY <1>9 DEF NoAnswer, At
  <2>2. CASE turn[t].attempt < MaxAttempts
    <3>1. PICK w \in Turn : Becomes(t, w) /\ w.slot = turn[t].slot /\ w.pc = turn[t].pc
      BY <1>9, <1>t, <2>2, RetryDoes DEF NoAnswer, AfterNoAnswer
    <3> QED BY <1>1, <2>1, <3>1
  <2>3. CASE ~(turn[t].attempt < MaxAttempts)
    BY <1>6, <1>9, <2>1, <2>3 DEF NoAnswer, AfterNoAnswer, GiveUp
  <2> QED BY <2>2, <2>3
<1>10. ASSUME NEW t \in Turns, FailTurn(t) PROVE Goal
  <2>1. PICK w \in Turn : Becomes(t, w) /\ w.slot = None /\ w.pc \in {"idle", "buried"}
    BY <1>10, <1>t, EndDoes
  <2>2. UNCHANGED <<booked, events, raced>>
    BY <1>10 DEF FailTurn
  <2> QED BY <1>1, <2>1, <2>2
<1>11. ASSUME UNCHANGED <<turn, booked, raced, events>> PROVE Goal
  BY <1>11, <1>t DEF BusyKnown, DoubleBookingRaced, SeenOrCrashed, Unseen
<1>12. ASSUME \/ UNCHANGED vars \/ Connect \/ CommitGrant \/ ConnectFails
              \/ \E p \in Processes : TokenExpires(p)
              \/ \E g \in Grants : Revoke(g)
       PROVE  Goal
  BY <1>11, <1>12 DEF vars, Connect, CommitGrant, ConnectFails, TokenExpires, Revoke
<1> QED
  BY <1>2, <1>3, <1>4, <1>5, <1>7, <1>8, <1>9, <1>10, <1>12, BookedStep DEF Next

-----------------------------------------------------------------------------
(* An event stays known while its turn keeps it and its appointment.       *)
LEMMA KnownStays ==
  ASSUME Base, NEW t \in Turns, NEW w, Becomes(t, w), UNCHANGED booked,
         w.event = turn[t].event \/ turn[t].event = None, NEW e \in Event, Known(e)
  PROVE  Known(e)'
<1>1. turn'[t] = w /\ (\A u \in Turns : u # t => turn'[u] = turn[u]) /\ e.turn \in Turns /\ e # None
  BY NoneAssumption DEF Base, TypeOK, Becomes, Event
<1> QED BY <1>1 DEF Known

(* No orphan but e0 is new, and that one comes with a fault.               *)
LEMMA OrphansStep ==
  ASSUME Base, Base', OrphansEarned, NEW e0,
         \A e \in events' : ~Known(e)' => \/ e \in events /\ ~Known(e)
                                          \/ e = e0 /\ faults' = faults + 1,
         faults' \in {faults, faults + 1}
  PROVE  OrphansEarned'
<1> DEFINE Old == {e \in events : ~Known(e)}
           New == {e \in events' : ~Known(e)'}
<1>1. IsFiniteSet(events) /\ faults \in Nat
  BY BookingAssumption DEF Base, Shape, TypeOK
<1>2. IsFiniteSet(Old) /\ Cardinality(Old) \in Nat /\ Cardinality(Old) <= faults
  <2>1. Old \in SUBSET events
    OBVIOUS
  <2>2. IsFiniteSet(Old)
    BY <1>1, <2>1, FS_Subset
  <2> QED BY <2>2, FS_CardinalityType DEF OrphansEarned
<1>3. CASE faults' = faults + 1
  <2>1. New \in SUBSET (Old \cup {e0})
    OBVIOUS
  <2>2. /\ IsFiniteSet(Old \cup {e0}) /\ Cardinality(Old \cup {e0}) <= Cardinality(Old) + 1
    BY <1>2, FS_AddElement
  <2>3. Cardinality(New) <= Cardinality(Old \cup {e0}) /\ Cardinality(New) \in Nat
        /\ Cardinality(Old \cup {e0}) \in Nat
    BY <2>1, <2>2, FS_Subset, FS_CardinalityType
  <2> HIDE DEF Old, New
  <2>4. Cardinality(New) <= faults'
    BY <1>1, <1>2, <1>3, <2>2, <2>3
  <2> QED BY <2>4 DEF New, OrphansEarned
<1>4. CASE faults' # faults + 1
  <2>1. New \in SUBSET Old /\ faults' = faults
    BY <1>4
  <2>2. Cardinality(New) <= Cardinality(Old) /\ Cardinality(New) \in Nat
    BY <1>2, <2>1, FS_Subset, FS_CardinalityType
  <2> HIDE DEF Old, New
  <2>3. Cardinality(New) <= faults'
    BY <1>1, <1>2, <2>1, <2>2
  <2> QED BY <2>3 DEF New, OrphansEarned
<1> QED BY <1>3, <1>4

LEMMA OrphansNext ==
  ASSUME Base, Base', OrphansEarned, [Next]_vars
  PROVE  OrphansEarned'
<1>t. /\ TypeOK /\ OrphansEarned /\ events \subseteq Event /\ events' \subseteq Event
      /\ \A t \in Turns : turn[t] \in Turn /\ ShapeOf(turn[t], issued, events)
  BY DEF Base, TypeOK, Shape
(* A turn that keeps the event it knows of, or knows of none yet, makes no *)
(* orphan but the event it makes.                                          *)
<1>1. ASSUME NEW t \in Turns, NEW w, Becomes(t, w), UNCHANGED booked,
             w.event = turn[t].event \/ turn[t].event = None,
             NEW e0, \A e \in events' : e \in events \/ e = e0,
             Known(e0)' \/ events' = events \/ faults' = faults + 1,
             faults' \in {faults, faults + 1}
      PROVE  OrphansEarned'
  <2>1. \A e \in events : Known(e) => Known(e)'
    BY <1>1, <1>t, KnownStays
  <2>2. \A e \in events' : ~Known(e)' => \/ e \in events /\ ~Known(e)
                                         \/ e = e0 /\ faults' = faults + 1
    <3> SUFFICES ASSUME NEW e \in events', ~Known(e)'
                 PROVE  (e \in events /\ ~Known(e)) \/ (e = e0 /\ faults' = faults + 1)
      OBVIOUS
    <3>1. CASE e \in events
      BY <2>1, <3>1
    <3>2. CASE e \notin events
      BY <1>1, <3>2
    <3> QED BY <3>1, <3>2
  <2> QED BY <1>1, <1>t, <2>2, OrphansStep
<1>2. ASSUME NEW t \in Turns, NEW w, Becomes(t, w), UNCHANGED <<booked, events>>,
             w.event = turn[t].event \/ turn[t].event = None, Fault \/ NoFault
      PROVE  OrphansEarned'
  <2>1. faults' \in {faults, faults + 1}
    BY <1>2, FaultType
  <2> QED BY <1>1, <1>2, <2>1
<1>3. ASSUME NEW t \in Turns, Begin(t) PROVE OrphansEarned'
  <2>1. turn[t].event = None /\ UNCHANGED <<booked, events>> /\ NoFault
    BY <1>3, <1>t DEF Begin, At, ShapeOf, NoFault
  <2> QED BY <1>2, <1>3, <1>t, <2>1, BeginDoes
<1>4. ASSUME NEW t \in Turns,
             ReadAppointments(t) \/ FreeBusy(t) \/ FreeBusyFails(t) \/ FreeBusyCrashes(t)
           \/ BookNothing(t)
      PROVE  OrphansEarned'
  <2>1. PICK w \in Turn : Becomes(t, w) /\ w.event = turn[t].event
    BY <1>4, <1>t, LookDoes DEF SameSync
  <2>2. UNCHANGED <<booked, events>> /\ (Fault \/ NoFault)
    BY <1>4 DEF ReadAppointments, FreeBusy, FreeBusyFails, FreeBusyCrashes, BookNothing, NoFault
  <2> QED BY <1>2, <2>1, <2>2
<1>5. ASSUME NEW t \in Turns, NEW s \in Slots, Book(t, s) PROVE OrphansEarned'
  <2>1. PICK w \in Turn : Becomes(t, w) /\ w.event = turn[t].event
    BY <1>5, <1>t, BookDoes DEF SameSync
  <2>2. UNCHANGED <<booked, events>> /\ NoFault
    BY <1>5 DEF Book, NoFault
  <2> QED BY <1>2, <2>1, <2>2
<1>6. ASSUME NEW t \in Turns, Fetch(t) PROVE OrphansEarned'
  <2>1. PICK w \in Turn : Becomes(t, w) /\ w.event = turn[t].event
    BY <1>6, <1>t, FetchDoes
  <2>2. UNCHANGED <<booked, events>> /\ NoFault
    BY <1>6 DEF Fetch, NoFault
  <2> QED BY <1>2, <2>1, <2>2
<1>7. ASSUME NEW t \in Turns, FetchFails(t) \/ EventRejected(t) \/ FetchCrashes(t)
      PROVE  OrphansEarned'
  <2>1. /\ turn[t].event = None /\ UNCHANGED <<booked, events>> /\ (Fault \/ NoFault)
        /\ Outcome(t, None, TRUE, FALSE) \/ Outcome(t, None, FALSE, TRUE)
    BY <1>7, <1>t DEF FetchFails, EventRejected, FetchCrashes, At, ShapeOf, NoFault, GiveUp,
                      Swallowed
  <2> QED BY <1>2, <1>t, <2>1, OutcomeDoes
<1>8. ASSUME NEW t \in Turns, CreateEvent(t) PROVE OrphansEarned'
  <2>1. /\ NewEvent(t) \in Event /\ NewEvent(t).turn = t /\ turn[t].event = None
        /\ events' = events \cup {NewEvent(t)} /\ Outcome(t, NewEvent(t), FALSE, FALSE)
        /\ UNCHANGED <<booked, faults>>
    <3>1. At(t, "post")
      BY <1>8 DEF CreateEvent
    <3>2. /\ events' = events \cup {NewEvent(t)} /\ Outcome(t, NewEvent(t), FALSE, FALSE)
          /\ UNCHANGED <<booked, faults>>
      BY <1>8 DEF CreateEvent, Synced
    <3>3. NewEvent(t) \in Event /\ NewEvent(t).turn = t /\ turn[t].event = None
      BY <3>1, NewEventType
    <3> QED BY <3>2, <3>3
  <2>2. PICK e0 \in Event : e0 = NewEvent(t)
    BY <2>1
  <2>3. Outcome(t, e0, FALSE, FALSE)
    BY <2>1, <2>2
  <2>4. PICK w \in Turn : Becomes(t, w) /\ w.event = e0
    <3>1. PICK no \in BOOLEAN : no = FALSE
      OBVIOUS
    <3>2. Outcome(t, e0, no, no)
      BY <2>3, <3>1
    <3> QED BY <1>t, <3>2, OutcomeDoes
  <2>5. turn'[t].event = e0
    BY <1>t, <2>4 DEF Becomes, TypeOK
  <2>6. Known(e0)'
    BY <2>1, <2>2, <2>5 DEF Known
  <2>7. \A e \in events' : e \in events \/ e = e0
    BY <2>1, <2>2
  <2> QED BY <1>1, <2>1, <2>4, <2>6, <2>7
<1>9. ASSUME NEW t \in Turns, NoAnswer(t) \/ PostCrashes(t) PROVE OrphansEarned'
  <2>1. /\ turn[t].event = None /\ UNCHANGED booked /\ faults' = faults + 1
        /\ events' = events \cup {NewEvent(t)} \/ events' = events
    BY <1>9, NewEventType DEF NoAnswer, PostCrashes, Fault
  <2>2. \E w \in Turn : Becomes(t, w)
    <3>c. CASE PostCrashes(t)
      BY <1>t, <3>c, OutcomeDoes DEF PostCrashes, Swallowed
    <3> SUFFICES ASSUME NoAnswer(t) PROVE \E w \in Turn : Becomes(t, w)
      BY <1>9, <3>c
    <3>1. CASE turn[t].attempt < MaxAttempts
      BY <1>9, <1>t, <3>1, RetryDoes DEF NoAnswer, AfterNoAnswer
    <3>2. CASE ~(turn[t].attempt < MaxAttempts)
      BY <1>9, <1>t, <3>2, OutcomeDoes DEF NoAnswer, AfterNoAnswer, GiveUp
    <3> QED BY <3>1, <3>2
  <2>3. PICK e0 : e0 = NewEvent(t)
    OBVIOUS
  <2>4. \A e \in events' : e \in events \/ e = e0
    BY <2>1, <2>3
  <2> QED BY <1>1, <2>1, <2>2, <2>4
(* The commit keeps the event with the appointment.                        *)
<1>10. ASSUME NEW t \in Turns, CommitTurn(t) PROVE OrphansEarned'
  <2>1. PICK w \in Turn : Becomes(t, w) /\ w.event = None
    BY <1>10, <1>t, EndDoes
  <2>2. turn'[t] = w /\ \A u \in Turns : u # t => turn'[u] = turn[u]
    BY <1>t, <2>1 DEF Becomes, TypeOK
  <2>3. /\ turn[t].slot = None => turn[t].event = None
        /\ booked[t] = None /\ UNCHANGED <<events, faults>>
        /\ \A u \in Turns : u # t => booked'[u] = booked[u]
    BY <1>10, <1>t DEF CommitTurn, At, ShapeOf, Base, Shape, TypeOK
  <2>4. turn[t].slot # None => booked'[t].event = turn[t].event
    BY <1>10, <1>t, RecordedDoes
  <2>5. turn[t].slot # None => booked'[t] # None
    BY <1>10, <1>t, RecordedDoes
  <2>6. ASSUME NEW e \in events, Known(e) PROVE Known(e)'
    <3>1. e.turn \in Turns /\ e # None
      BY <1>t, NoneAssumption DEF Event
    <3>2. CASE e.turn # t
      BY <2>2, <2>3, <2>6, <3>1, <3>2 DEF Known
    <3>3. CASE e.turn = t
      BY <2>3, <2>4, <2>5, <2>6, <3>1, <3>3 DEF Known
    <3> QED BY <3>2, <3>3
  <2> QED BY <1>t, <2>3, <2>6, OrphansStep
(* A run that is rolled back leaves the event it made behind.              *)
<1>11. ASSUME NEW t \in Turns, FailTurn(t) PROVE OrphansEarned'
  <2>1. PICK w \in Turn : Becomes(t, w)
    BY <1>11, <1>t, EndDoes
  <2>2. turn'[t] = w /\ \A u \in Turns : u # t => turn'[u] = turn[u]
    BY <1>t, <2>1 DEF Becomes, TypeOK
  <2>3. booked[t] = None /\ UNCHANGED <<booked, events>> /\ faults' = faults + 1
    BY <1>11 DEF FailTurn, Base, Shape, At, Fault
  <2>4. PICK e0 : e0 = turn[t].event
    OBVIOUS
  <2>5. ASSUME NEW e \in events, Known(e), e # e0 PROVE Known(e)'
    <3>1. e.turn \in Turns
      BY <1>t DEF Event
    <3> QED BY <2>2, <2>3, <2>4, <2>5, <3>1 DEF Known
  <2> QED BY <1>t, <2>3, <2>5, OrphansStep
<1>12. ASSUME \/ UNCHANGED vars \/ Connect \/ CommitGrant \/ ConnectFails
              \/ \E p \in Processes : TokenExpires(p)
              \/ \E g \in Grants : Revoke(g)
       PROVE  OrphansEarned'
  <2>1. UNCHANGED <<turn, booked, events>> /\ faults' \in {faults, faults + 1}
    BY <1>12 DEF vars, Connect, CommitGrant, ConnectFails, TokenExpires, Revoke, Fault
  <2>2. \A e \in events : Known(e) => Known(e)'
    BY <2>1 DEF Known
  <2> QED BY <1>t, <2>1, <2>2, OrphansStep
<1> QED
  BY <1>3, <1>4, <1>5, <1>6, <1>7, <1>8, <1>9, <1>10, <1>11, <1>12 DEF Next

-----------------------------------------------------------------------------
(* No crash but that of one turn is new, and that one comes with a fault.  *)
LEMMA CrashesStep ==
  ASSUME Base, CrashesEarned, NEW t, Crashed' \subseteq Crashed \cup {t},
         faults' \in {faults, faults + 1}, Crashed' \subseteq Crashed \/ faults' = faults + 1
  PROVE  CrashesEarned'
<1>1. PICK old, new : old = Crashed /\ new = Crashed'
  OBVIOUS
<1>2. IsFiniteSet(old) /\ Cardinality(old) \in Nat /\ Cardinality(old) <= faults /\ faults \in Nat
  BY <1>1, FS_CardinalityType, BookingAssumption DEF CrashesEarned, Base, TypeOK
<1>3. IsFiniteSet(old \cup {t}) /\ Cardinality(old \cup {t}) <= Cardinality(old) + 1
      /\ Cardinality(old \cup {t}) \in Nat
  <2>1. PICK c : c = Cardinality(old) /\ c \in Nat /\ c + 1 \in Nat /\ c <= c + 1
    BY <1>2
  <2>2. IsFiniteSet(old \cup {t}) /\ (Cardinality(old \cup {t}) = c \/ Cardinality(old \cup {t}) = c + 1)
    BY <1>2, <2>1, FS_AddElement
  <2> QED BY <2>1, <2>2
<1>4. /\ IsFiniteSet(new) /\ Cardinality(new) \in Nat
      /\ Cardinality(new) <= Cardinality(old \cup {t})
      /\ new \subseteq old => Cardinality(new) <= Cardinality(old)
  BY <1>1, <1>2, <1>3, FS_Subset, FS_CardinalityType
<1>5. Cardinality(new) <= faults'
  BY <1>1, <1>2, <1>3, <1>4
<1> QED BY <1>1, <1>4, <1>5 DEF CrashesEarned

LEMMA CrashesNext ==
  ASSUME Base, Base', CrashesEarned, SeenOrCrashed', [Next]_vars
  PROVE  CrashesEarned'
<1>t. /\ TypeOK /\ CrashesEarned
      /\ \A t \in Turns : turn[t] \in Turn /\ (turn'[t].pc # "reply" => ~turn'[t].crashed)
  BY DEF Base, TypeOK, Shape, ShapeOf
(* A step of one turn that books nothing: it had crashed before, or is not *)
(* crashed now, or this costs a fault.                                     *)
<1>1. ASSUME NEW t \in Turns, NEW w, Becomes(t, w), UNCHANGED booked, Fault \/ NoFault,
             w.pc # "reply" \/ ~w.crashed \/ turn[t].crashed \/ Fault
      PROVE  CrashesEarned'
  <2>1. turn'[t] = w /\ \A u \in Turns : u # t => turn'[u] = turn[u]
    BY <1>1 DEF Base, TypeOK, Becomes
  <2>2. \A u \in Turns : Unseen(u)' <=> Unseen(u)
    BY <1>1 DEF Unseen
  <2>3. Crashed' \subseteq Crashed \cup {t}
    BY <2>1, <2>2 DEF Crashed
  <2>4. Crashed' \subseteq Crashed \/ Fault
    BY <1>1, <1>t, <2>1, <2>2 DEF Crashed
  <2>5. faults' \in {faults, faults + 1} /\ (Fault => faults' = faults + 1)
    BY <1>1, FaultType
  <2> QED BY <1>t, <2>3, <2>4, <2>5, CrashesStep
<1>2. ASSUME NEW t \in Turns, Begin(t) PROVE CrashesEarned'
  <2>1. PICK w \in Turn : Becomes(t, w) /\ w.pc = "lookup"
    BY <1>2, <1>t, BeginDoes
  <2> QED BY <1>1, <1>2, <2>1 DEF Begin, NoFault
<1>3. ASSUME NEW t \in Turns,
             ReadAppointments(t) \/ FreeBusy(t) \/ FreeBusyFails(t) \/ FreeBusyCrashes(t)
               \/ BookNothing(t)
      PROVE  CrashesEarned'
  <2>1. PICK w \in Turn : Becomes(t, w) /\ w.crashed = turn[t].crashed
    BY <1>3, <1>t, LookDoes DEF SameSync
  <2>2. UNCHANGED booked /\ (Fault \/ NoFault)
    BY <1>3 DEF ReadAppointments, FreeBusy, FreeBusyFails, FreeBusyCrashes, BookNothing, NoFault
  <2> QED BY <1>1, <2>1, <2>2
<1>4. ASSUME NEW t \in Turns, NEW s \in Slots, Book(t, s) PROVE CrashesEarned'
  <2>1. PICK w \in Turn : Becomes(t, w) /\ w.crashed = turn[t].crashed
    BY <1>4, <1>t, BookDoes DEF SameSync
  <2> QED BY <1>1, <1>4, <2>1 DEF Book, NoFault
<1>5. ASSUME NEW t \in Turns, Fetch(t) PROVE CrashesEarned'
  <2>1. PICK w \in Turn : Becomes(t, w) /\ w.pc = "post"
    BY <1>5, <1>t, FetchDoes
  <2> QED BY <1>1, <1>5, <2>1 DEF Fetch, NoFault
<1>6. ASSUME NEW t \in Turns, NEW event \in Event \cup {None}, NEW attention \in BOOLEAN,
             NEW crashed \in BOOLEAN, Outcome(t, event, attention, crashed), UNCHANGED booked,
             Fault \/ NoFault, ~crashed \/ Fault
      PROVE  CrashesEarned'
  <2>1. PICK w \in Turn : Becomes(t, w) /\ w.crashed = crashed
    BY <1>6, <1>t, OutcomeDoes
  <2> QED BY <1>1, <1>6, <2>1
<1>7. ASSUME NEW t \in Turns,
             FetchFails(t) \/ EventRejected(t) \/ FetchCrashes(t) \/ PostCrashes(t)
      PROVE  CrashesEarned'
  BY <1>6, <1>7 DEF FetchFails, EventRejected, FetchCrashes, PostCrashes, GiveUp, Swallowed
<1>8. ASSUME NEW t \in Turns, CreateEvent(t) PROVE CrashesEarned'
  <2>1. NewEvent(t) \in Event
    BY <1>8, NewEventType DEF CreateEvent
  <2> QED BY <1>6, <1>8, <2>1 DEF CreateEvent, Synced, NoFault
<1>9. ASSUME NEW t \in Turns, NoAnswer(t) PROVE CrashesEarned'
  <2>1. UNCHANGED booked /\ Fault
    BY <1>9 DEF NoAnswer
  <2>2. CASE turn[t].attempt < MaxAttempts
    <3>1. PICK w \in Turn : Becomes(t, w)
      BY <1>9, <1>t, <2>2, RetryDoes DEF NoAnswer, AfterNoAnswer
    <3> QED BY <1>1, <2>1, <3>1
  <2>3. CASE ~(turn[t].attempt < MaxAttempts)
    BY <1>6, <1>9, <2>1, <2>3 DEF NoAnswer, AfterNoAnswer, GiveUp
  <2> QED BY <2>2, <2>3
<1>10. ASSUME NEW t \in Turns, FailTurn(t) PROVE CrashesEarned'
  <2>1. PICK w \in Turn : Becomes(t, w) /\ w.pc \in {"idle", "buried"}
    BY <1>10, <1>t, EndDoes
  <2> QED BY <1>1, <1>10, <2>1 DEF FailTurn
(* The commit: an appointment nobody is told of is one the tool crashed over. *)
<1>11. ASSUME NEW t \in Turns, CommitTurn(t) PROVE CrashesEarned'
  <2>1. PICK w \in Turn : Becomes(t, w) /\ w.pc = "done"
    BY <1>11, <1>t, EndDoes
  <2>2. turn'[t] = w /\ \A u \in Turns : u # t => turn'[u] = turn[u]
    BY <1>t, <2>1 DEF Becomes, TypeOK
  <2>3. /\ booked[t] = None /\ UNCHANGED faults
        /\ \A u \in Turns : u # t => booked'[u] = booked[u]
        /\ turn[t].slot = None => booked'[t] = booked[t]
    BY <1>11, <1>t DEF CommitTurn, At, Base, Shape, TypeOK
  <2>4. Unseen(t)' => turn[t].crashed
    <3>1. CASE turn[t].slot = None
      BY <2>3, <3>1 DEF Unseen
    <3>2. CASE turn[t].slot # None
      <4>1. booked'[t].crashed = turn[t].crashed
        BY <1>11, <1>t, <3>2, RecordedDoes
      <4> QED BY <4>1 DEF SeenOrCrashed, Unseen
    <3> QED BY <3>1, <3>2
  <2>5. Crashed' \subseteq Crashed
    BY <1>t, <2>1, <2>2, <2>3, <2>4 DEF Crashed, Unseen
  <2> QED BY <1>t, <2>3, <2>5, CrashesStep
<1>12. ASSUME \/ UNCHANGED vars \/ Connect \/ CommitGrant \/ ConnectFails
              \/ \E p \in Processes : TokenExpires(p)
              \/ \E g \in Grants : Revoke(g)
       PROVE  CrashesEarned'
  <2>1. UNCHANGED <<turn, booked>> /\ faults' \in {faults, faults + 1}
    BY <1>12 DEF vars, Connect, CommitGrant, ConnectFails, TokenExpires, Revoke, Fault
  <2>2. Crashed' \subseteq Crashed
    BY <2>1 DEF Crashed, Unseen
  <2> QED BY <1>t, <2>1, <2>2, CrashesStep
<1> QED
  BY <1>2, <1>3, <1>4, <1>5, <1>7, <1>8, <1>9, <1>10, <1>11, <1>12 DEF Next

-----------------------------------------------------------------------------
LEMMA InitIInv == Init => IInv
<1> SUFFICES ASSUME Init PROVE IInv
  OBVIOUS
<1>1. /\ \A t \in Turns : booked[t] = None
      /\ events = {} /\ faults = 0 /\ callback = NotConnected
      /\ cache[Api] = NoToken
  BY BookingAssumption DEF Init
<1>2. BusyKnown /\ DoubleBookingRaced /\ SeenOrCrashed
  BY <1>1 DEF BusyKnown, DoubleBookingRaced, SeenOrCrashed
<1>3. OrphansEarned
  <2>1. {e \in events : ~Known(e)} = {}
    BY <1>1
  <2>2. Cardinality({}) = 0
    BY FS_EmptySet
  <2> QED BY <1>1, <2>1, <2>2 DEF OrphansEarned
<1>5. CrashesEarned
  <2>1. \A t \in Turns : ~turn[t].crashed
    BY NoTurnType DEF Init
  <2>2. Crashed = {}
    BY <1>1, <2>1 DEF Crashed, Unseen
  <2>3. IsFiniteSet({}) /\ Cardinality({}) = 0
    BY FS_EmptySet
  <2> QED BY <1>1, <2>2, <2>3 DEF CrashesEarned
<1>4. DroppedMeanwhile /\ TokenDropped
  BY <1>1 DEF DroppedMeanwhile, TokenDropped, Cached, NoToken
<1> QED BY <1>2, <1>3, <1>4, <1>5, InitBase DEF IInv

LEMMA NextIInv == IInv /\ [Next]_vars => IInv'
BY NextBase, TokensStep, BookingsStep, CrashesNext, OrphansNext DEF IInv

LEMMA Invariant == Spec => []IInv
BY InitIInv, NextIInv, PTL DEF Spec

(* Two turns book one slot only if one of them had looked at the           *)
(* appointments before the other committed: whoever looks later finds the  *)
(* slot taken.                                                             *)
THEOREM DoubleBookings == Spec => []DoubleBookingRaced
<1>1. IInv => DoubleBookingRaced
  BY DEF IInv
<1> QED BY <1>1, Invariant, PTL

(* A committed appointment is on a calendar or its lead is with a human,   *)
(* or the tool crashed over it: then nobody was told of it, which costs a  *)
(* malformed answer of the calendar each time (booking.py:134-146,         *)
(* engine.py:286-293).                                                     *)
THEOREM BookingsSeen == Spec => []NothingUnseen
<1>1. ASSUME IInv PROVE NothingUnseen
  <2>1. PICK unseen, crashed : unseen = {t \in Turns : Unseen(t)} /\ crashed = Crashed
    OBVIOUS
  <2>2. unseen \subseteq crashed /\ IsFiniteSet(crashed) /\ Cardinality(crashed) <= faults
        /\ faults \in Nat
    BY <1>1, <2>1, BookingAssumption DEF IInv, CrashesEarned, Crashed, Base, TypeOK
  <2>3. /\ Cardinality(unseen) <= Cardinality(crashed)
        /\ Cardinality(unseen) \in Nat /\ Cardinality(crashed) \in Nat
    BY <2>2, FS_Subset, FS_CardinalityType
  <2>4. Cardinality(unseen) <= faults
    BY <2>2, <2>3
  <2> QED BY <1>1, <2>1, <2>4 DEF IInv, NothingUnseen
<1>2. IInv => NothingUnseen
  BY <1>1
<1> QED BY <1>2, Invariant, PTL

(* Events nobody knows of are counted by the faults: an answer that never  *)
(* came, a run that was rolled back.                                       *)
THEOREM OrphansCostFaults == Spec => []OrphansEarned
<1>1. IInv => OrphansEarned
  BY DEF IInv
<1> QED BY <1>1, Invariant, PTL

(* The callback drops its process's token before the new grant is          *)
(* committed; only a fetch in between brings an earlier grant back.        *)
THEOREM CallbackDropsToken == Spec => []TokenDropped
<1>1. IInv => TokenDropped
  BY DEF IInv
<1> QED BY <1>1, Invariant, PTL
=============================================================================
