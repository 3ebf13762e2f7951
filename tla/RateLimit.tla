------------------------------ MODULE RateLimit ------------------------------
(***************************************************************************)
(* One fixed-window counter of services/ratelimit.py, the one behind the   *)
(* inbound, follow-up and login limits.                                    *)
(*                                                                         *)
(* A check is up to three calls to Redis, INCR, then EXPIRE for the first  *)
(* event or TTL for one over the limit, and Redis runs the calls of        *)
(* concurrent checks in any order. A call that fails, executed or not,     *)
(* makes the check allow the event; a process may die between two calls.   *)
(* Time passes in ticks. A command that sets an expiry reaches Redis       *)
(* within the tick, while the answer to TTL may take longer than the key   *)
(* lives.                                                                  *)
(***************************************************************************)
EXTENDS Integers, FiniteSets

CONSTANTS
  Callers,      \* the checks that may be in flight together
  max_events,   \* Limit.max_events
  window,       \* Limit.window_seconds, in ticks
  MaxPerTick,   \* bound on the events of one tick
  MaxCount,     \* bound on the counter
  MaxFaults,    \* bound on the Redis errors and deaths of a run
  MaxResets     \* bound on the resets of one tick

ASSUME RateLimitAssumption ==
  /\ max_events \in Nat \ {0}
  /\ window \in Nat \ {0}
  /\ MaxPerTick \in Nat /\ MaxCount \in Nat /\ MaxFaults \in Nat /\ MaxResets \in Nat

VARIABLES
  count,    \* the counter, 0 when the key does not exist
  ttl,      \* ticks until the key expires, 0 when it has no expiry
  caller,   \* the call each check has to make next
  refused,  \* a check was refused while this key existed
  recent,   \* what happened in each of the last window ticks, the current one at 0
  faults    \* how many faults happened so far

vars == <<count, ttl, caller, refused, recent, faults>>

Ages == 0..(window - 1)
Tally == [counted : Nat, admitted : Nat, faults : Nat, resets : Nat]
Quiet == [counted |-> 0, admitted |-> 0, faults |-> 0, resets |-> 0]

At(c, pc) == caller[c] = pc
Goto(c, pc) == caller' = [caller EXCEPT ![c] = pc]

Init ==
  /\ count = 0
  /\ ttl = 0
  /\ caller = [c \in Callers |-> "idle"]
  /\ refused = FALSE
  /\ recent = [a \in Ages |-> Quiet]
  /\ faults = 0

-----------------------------------------------------------------------------
(* Redis. INCR creates the key at 1 without an expiry and keeps the expiry *)
(* of one that exists, EXPIRE does nothing to a key that is gone.          *)
INCR == count' = count + 1 /\ UNCHANGED <<ttl, refused>>
EXPIRE == ttl' = (IF count = 0 THEN 0 ELSE window) /\ UNCHANGED <<count, refused>>
DEL == count' = 0 /\ ttl' = 0 /\ refused' = FALSE

(* Mutants: the clock restarted by every allowed event, and a limit one    *)
(* too high.                                                               *)
AfterIncr_sliding(n) == IF n <= max_events THEN "expire" ELSE "ttl"
AfterIncr_one_more(n) == IF n = 1 THEN "expire"
                         ELSE IF n <= max_events + 1 THEN "idle"
                         ELSE "ttl"

(* The call a check makes after its INCR answered n: none when the event   *)
(* is within the limit.                                                    *)
AfterIncr(n) == IF n = 1 THEN "expire"
                ELSE IF n <= max_events THEN "idle"
                ELSE "ttl"

(* Mutant: no look at the expiry before refusing.                          *)
AfterTTL_no_repair(t) == "idle"

(* A refusal asks for the expiry first, and a key without one is repaired. *)
AfterTTL(t) == IF t > 0 THEN "idle" ELSE "repair"

-----------------------------------------------------------------------------
(* Notes for the properties: what the current tick saw.                    *)
Note(counted, admitted) ==
  recent' = [recent EXCEPT ![0].counted = @ + counted, ![0].admitted = @ + admitted]

Incr(c) ==
  /\ At(c, "idle")
  /\ recent[0].counted < MaxPerTick
  /\ count < MaxCount
  /\ INCR
  /\ Goto(c, AfterIncr(count + 1))
  /\ Note(1, IF AfterIncr(count + 1) = "idle" THEN 1 ELSE 0)
  /\ UNCHANGED faults

(* The first event of a window starts the clock and is allowed.            *)
SetExpiry(c) ==
  /\ At(c, "expire")
  /\ EXPIRE
  /\ Goto(c, "idle")
  /\ Note(0, 1)
  /\ UNCHANGED faults

ReadTTL(c) ==
  /\ At(c, "ttl")
  /\ Goto(c, AfterTTL(ttl))
  /\ refused' = (refused \/ (AfterTTL(ttl) = "idle" /\ count # 0))
  /\ UNCHANGED <<count, ttl, recent, faults>>

(* Mutant: the repair gives the key the expiry it read.                    *)
Repair_same_ttl(c) ==
  /\ At(c, "repair")
  /\ ttl' = (IF count = 0 THEN 0 ELSE ttl - 1)
  /\ refused' = (count # 0)
  /\ Goto(c, "idle")
  /\ UNCHANGED <<count, recent, faults>>

(* A key whose first check died before its EXPIRE gets a whole window.     *)
Repair(c) ==
  /\ At(c, "repair")
  /\ ttl' = (IF count = 0 THEN 0 ELSE window)
  /\ refused' = (count # 0)
  /\ Goto(c, "idle")
  /\ UNCHANGED <<count, recent, faults>>

(* reset, after a successful login.                                        *)
Reset ==
  /\ recent[0].resets < MaxResets
  /\ DEL
  /\ recent' = [recent EXCEPT ![0].resets = @ + 1]
  /\ UNCHANGED <<caller, faults>>

-----------------------------------------------------------------------------
Fault ==
  /\ faults < MaxFaults
  /\ faults' = faults + 1

(* A call fails: Redis ran it and the answer was lost, or never saw it.    *)
(* The limiter fails open.                                                 *)
Executes(c) ==
  CASE At(c, "idle") -> INCR
    [] At(c, "expire") \/ At(c, "repair") -> EXPIRE
    [] At(c, "ttl") -> UNCHANGED <<count, ttl, refused>>

CallFails(c) ==
  /\ Fault
  /\ recent[0].counted < MaxPerTick
  /\ count < MaxCount
  /\ \/ Executes(c)
     \/ UNCHANGED <<count, ttl, refused>>
  /\ Goto(c, "idle")
  /\ recent' = [recent EXCEPT ![0].counted = @ + (IF At(c, "idle") THEN 1 ELSE 0),
                              ![0].admitted = @ + 1,
                              ![0].faults = @ + 1]

(* The process of the check dies between two calls.                        *)
Dies(c) ==
  /\ Fault
  /\ ~At(c, "idle")
  /\ Goto(c, "idle")
  /\ recent' = [recent EXCEPT ![0].faults = @ + 1]
  /\ UNCHANGED <<count, ttl, refused>>

(* One tick passes: the key ages and is removed when its time is up.       *)
Expires == ttl = 1
Tick ==
  /\ \A c \in Callers : ~At(c, "expire") /\ ~At(c, "repair")
  /\ IF Expires THEN DEL
     ELSE /\ ttl' = (IF ttl = 0 THEN 0 ELSE ttl - 1)
          /\ UNCHANGED <<count, refused>>
  /\ recent' = [a \in Ages |-> IF a = 0 THEN Quiet ELSE recent[a - 1]]
  /\ UNCHANGED <<caller, faults>>

Step(c) == SetExpiry(c) \/ ReadTTL(c) \/ Repair(c)

Next ==
  \/ \E c \in Callers : Incr(c) \/ Step(c) \/ CallFails(c) \/ Dies(c)
  \/ Reset
  \/ Tick

(* Time passes, and a check that started makes its next call. No check     *)
(* need ever be made.                                                      *)
Fairness == WF_vars(Tick) /\ \A c \in Callers : WF_vars(Step(c))

Spec == Init /\ [][Next]_vars /\ Fairness

-----------------------------------------------------------------------------
PCs == {"idle", "expire", "ttl", "repair"}

(* Only a key that exists has an expiry, of at most a window.              *)
TypeOK ==
  /\ count \in Nat
  /\ ttl \in 0..window
  /\ count = 0 => ttl = 0
  /\ caller \in [Callers -> PCs]
  /\ refused \in BOOLEAN
  /\ recent \in [Ages -> Tally]
  /\ faults \in 0..MaxFaults

(* What the ticks of ages 0 to n saw: a note f for each, one element for   *)
(* each event it tells of, and their number.                               *)
Events(f, n) == UNION {{a} \X (1..f[a]) : a \in 0..n}
Sum(f, n) == Cardinality(Events(f, n))

CountedUpTo(n) == Sum([a \in Ages |-> recent[a].counted], n)
AdmittedUpTo(n) == Sum([a \in Ages |-> recent[a].admitted], n)
FaultsUpTo(n) == Sum([a \in Ages |-> recent[a].faults], n)
ResetsUpTo(n) == Sum([a \in Ages |-> recent[a].resets], n)

Counted == CountedUpTo(window - 1)
Admitted == AdmittedUpTo(window - 1)
Faults == FaultsUpTo(window - 1)
Resets == ResetsUpTo(window - 1)

(* While Redis works, the counter never stands above the events of the     *)
(* last window, so a subject is refused only after more than max_events    *)
(* of them: no interleaving of checks, resets and expiry stretches a       *)
(* window (ratelimit.py:87-106).                                           *)
RefusalEarned == faults = 0 => count <= Counted

(* The burst the module accepts at a window boundary: in any window's      *)
(* length at most two budgets are admitted, plus one event per Redis error *)
(* and one budget per reset (ratelimit.py:14-25).                          *)
BurstBound ==
  Admitted <= 2 * max_events + Faults + Resets * max_events

(* The key a check was refused against has an expiry, whichever call a     *)
(* check before it died at: nobody is blocked for good                     *)
(* (ratelimit.py:98-104).                                                  *)
RefusedEnds == refused => ttl > 0
Readmitted == refused ~> ~refused
=============================================================================
