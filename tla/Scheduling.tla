----------------------------- MODULE Scheduling -----------------------------
(***************************************************************************)
(* Offering times: services/scheduling.py and services/quiet_hours.py, as  *)
(* check_availability, book_appointment and the follow-ups use them.       *)
(* Time is counted in quarters of an hour of UTC. A time zone is its       *)
(* offset, in quarters: India is 22, Nepal 23. A slot is named by its      *)
(* start, its end following from its kind.                                 *)
(***************************************************************************)
EXTENDS Integers, FiniteSets, FiniteSetsExt

CONSTANTS
  Hours,     \* working_hours: by day of a cycle, <<open, close>> local, or <<>>
  Calendar,  \* the agent's own calendar: a set of busy intervals
  Zones,     \* the offsets an agent may have
  Quiet,     \* quiet hours: a set of <<start, end>>
  Horizon,   \* bound on time
  MaxTaken   \* bound on the bookings of others

Hour == 4
Day == 24 * Hour
HalfHour == 2
Kinds == {"CALL", "SITE_VISIT"}
SLOT_MINUTES == [CALL |-> 2, SITE_VISIT |-> 4]
MIN_LEAD_TIME == 2 * Hour

ASSUME SchedulingAssumption ==
  /\ IsFiniteSet(DOMAIN Hours) /\ DOMAIN Hours # {}
  /\ DOMAIN Hours = 0..(Cardinality(DOMAIN Hours) - 1)
  /\ \A d \in DOMAIN Hours : Hours[d] = <<>> \/ Hours[d] \in (0..(Day - 1)) \X (0..(Day - 1))
  /\ Zones \subseteq (-12 * Hour)..(14 * Hour)
  /\ Quiet \subseteq (0..23) \X (0..23)

VARIABLES
  now,    \* the time
  zone,   \* the agent's and the lead's time zone
  offer,  \* what check_availability last returned
  taken   \* the appointments of other leads

times == <<now, zone, offer, taken>>

-----------------------------------------------------------------------------
LocalDay(m, offset) == (m + offset) \div Day
LocalHour(m, offset) == ((m + offset) % Day) \div Hour

(* The opening of a day, in UTC, when there is one.                        *)
Windows(day, offset) ==
  LET hours == Hours[day % Cardinality(DOMAIN Hours)]
  IN IF hours = <<>> \/ hours[1] >= hours[2] THEN {}
     ELSE {[from |-> day * Day + hours[1] - offset, to |-> day * Day + hours[2] - offset]}

(* Offered times start on the half hours of UTC.                           *)
AlignUp_not(m) == m
AlignUp(m) == IF m % HalfHour = 0 THEN m ELSE m + HalfHour - (m % HalfHour)

Interval(s, kind) == [from |-> s, to |-> s + SLOT_MINUTES[kind]]
Overlaps(slot, busy) == \E b \in busy : slot.from < b.to /\ b.from < slot.to

(* The starts a day is searched at: from the opening, or two hours from    *)
(* now, in steps of the slot's length.                                     *)
Cursor(m, w) == AlignUp(Max({w.from, m + MIN_LEAD_TIME}))
Starts(m, w, kind) ==
  {s \in Cursor(m, w)..(w.to - SLOT_MINUTES[kind]) : (s - Cursor(m, w)) % SLOT_MINUTES[kind] = 0}

(* The calendar fails to answer, or its busy times count too.              *)
Busy(appointments, answers) == IF answers THEN appointments \cup Calendar ELSE appointments

first(limit, S) ==
  IF Cardinality(S) <= limit THEN S ELSE {s \in S : Cardinality({x \in S : x < s}) < limit}

find_available_slots(m, offset, kind, days, limit, busy) ==
  first(limit,
    {s \in UNION {Starts(m, w, kind) :
                    w \in UNION {Windows(LocalDay(m, offset) + d, offset) : d \in 0..(days - 1)}} :
       ~Overlaps(Interval(s, kind), busy)})

-----------------------------------------------------------------------------
(* Quiet hours, from start to end of the lead's day, over midnight when    *)
(* start is the later of them.                                             *)
is_quiet_hour(m, offset, start, end) ==
  LET hour == LocalHour(m, offset)
  IN IF start <= end THEN start <= hour /\ hour < end ELSE hour >= start \/ hour < end

(* The end of the quiet hours of today, or of tomorrow when it is past.    *)
next_send_time_today(m, offset, start, end) ==
  IF ~is_quiet_hour(m, offset, start, end) THEN m
  ELSE LocalDay(m, offset) * Day + end * Hour - offset

next_send_time(m, offset, start, end) ==
  IF ~is_quiet_hour(m, offset, start, end) THEN m
  ELSE LET candidate == LocalDay(m, offset) * Day + end * Hour - offset
       IN IF candidate <= m THEN candidate + Day ELSE candidate

-----------------------------------------------------------------------------
TimesInit ==
  /\ now = 0
  /\ zone \in Zones
  /\ offer = [kind |-> "CALL", at |-> now, starts |-> {}]
  /\ taken = {}

Wait ==
  /\ now < Horizon
  /\ now' = now + 1
  /\ UNCHANGED <<zone, offer, taken>>

(* A week is searched and six times are offered.                           *)
check_availability(kind) ==
  /\ \E answers \in BOOLEAN :
       offer' = [kind |-> kind, at |-> now,
                 starts |-> find_available_slots(now, zone, kind, 7, 6, Busy(taken, answers))]
  /\ UNCHANGED <<now, zone, taken>>

(* What book_appointment accepts: a month is searched.                     *)
Bookable(kind, answers) ==
  find_available_slots(now, zone, kind, 30, 200, Busy(taken, answers))

(* Another lead books one of the times offered to this one.                *)
BookAnother(kind) ==
  /\ Cardinality(taken) < MaxTaken
  /\ \E s \in Bookable(kind, FALSE) \cap offer.starts : taken' = taken \cup {Interval(s, kind)}
  /\ UNCHANGED <<now, zone, offer>>

TimesNext == Wait \/ \E kind \in Kinds : check_availability(kind) \/ BookAnother(kind)

-----------------------------------------------------------------------------
(* The site visits of a day are counted from its first possible start, so  *)
(* they move when that does: within the day, as now + 2 hours moves.       *)
SameGrid(s) ==
  \A w \in Windows(LocalDay(s, zone), zone) :
    (Cursor(now, w) - Cursor(offer.at, w)) % SLOT_MINUTES[offer.kind] = 0

(* A time the lead was offered can still be booked when she answers, as    *)
(* long as it is two hours away and nothing took it: always for a call,    *)
(* and for a site visit if its day's grid did not move meanwhile           *)
(* (scheduling.py:136-171, tools.py:424-435).                              *)
OffersHold ==
  \A answers \in BOOLEAN :
    LET bookable == Bookable(offer.kind, answers)
        busy == Busy(taken, answers)
    IN \A s \in offer.starts :
         /\ s >= now + MIN_LEAD_TIME
         /\ ~Overlaps(Interval(s, offer.kind), busy)
         /\ offer.kind = "CALL" \/ SameGrid(s)
         => s \in bookable

(* A message that falls due now or in twelve hours waits for the end of    *)
(* the quiet hours and no longer, in any zone and over midnight            *)
(* (quiet_hours.py:30-42).                                                 *)
NudgesWait ==
  \A due \in {now, now + 12 * Hour}, q \in Quiet :
    LET t == next_send_time(due, zone, q[1], q[2])
    IN /\ t >= due /\ ~is_quiet_hour(t, zone, q[1], q[2])
       /\ \A m \in due..(t - 1) : is_quiet_hour(m, zone, q[1], q[2])

(* Times the assistant gives hold: those it offers and those it waits for. *)
TimesHold == OffersHold /\ NudgesWait

-----------------------------------------------------------------------------
(* Why the offers hold: each was a start of the grid it was read from.     *)
Week(m, offset, kind) ==
  UNION {Starts(m, w, kind) : w \in UNION {Windows(LocalDay(m, offset) + d, offset) : d \in 0..6}}

TimesInv ==
  /\ now \in Nat /\ zone \in Zones
  /\ offer.kind \in Kinds /\ offer.at \in 0..now
  /\ offer.starts \subseteq Week(offer.at, zone, offer.kind)
=============================================================================
