------------------------------- MODULE Scoring -------------------------------
(***************************************************************************)
(* The lead score of agent/scoring.py, over what update_lead_profile and   *)
(* the turns write down. Prices and budgets are small numbers, None what   *)
(* the lead has not said.                                                  *)
(***************************************************************************)
EXTENDS Integers, FiniteSets

CONSTANTS
  None,       \* not shared
  Prices,     \* listing prices and budgets
  Months,     \* purchase timelines
  Messages,   \* bound on the messages of a lead
  Inventory   \* the listings: sets of [price, sellable]

ASSUME ScoringAssumption ==
  /\ Prices \subseteq Nat /\ Months \subseteq Nat /\ Messages \in Nat
  /\ None \notin Nat \cup BOOLEAN
  /\ \A l \in Inventory : l.price \in Nat

VARIABLE profile  \* what is known of the lead

HOT_THRESHOLD == 70
WARM_THRESHOLD == 40
MAX_BUDGET_POINTS == 30

Known == BOOLEAN \cup {None}
ScoringInput == [budget_min : Prices \cup {None}, budget_max : Prices \cup {None},
                 timeline_months : Months \cup {None}, loan_preapproved : Known,
                 site_visit_willing : Known, inbound_message_count : 0..Messages, booked : BOOLEAN]

(* Active and available.                                                   *)
active_listing_prices == {l.price : l \in {x \in Inventory : x.sellable}}

temperature_for(score) ==
  IF score >= HOT_THRESHOLD THEN "HOT" ELSE IF score >= WARM_THRESHOLD THEN "WARM" ELSE "COLD"

(* A listing in the range, or within 15% above it.                         *)
NearMiss(high, p) == high < p /\ 100 * p <= 115 * high
InRange(d, p) == /\ d.budget_min = None \/ d.budget_min <= p
                 /\ d.budget_max = None \/ p <= d.budget_max

budget_points(d, prices) ==
  IF (d.budget_min = None /\ d.budget_max = None) \/ prices = {} THEN 0
  ELSE IF \E p \in prices : InRange(d, p) THEN MAX_BUDGET_POINTS
  ELSE IF d.budget_max # None /\ \E p \in prices : NearMiss(d.budget_max, p)
       THEN MAX_BUDGET_POINTS \div 2
  ELSE 0

(* Mutant: a lead who buys within half a year ranks first.                 *)
timeline_points_swapped(months) ==
  IF months = None THEN 0
  ELSE IF months <= 3 THEN 15 ELSE IF months <= 6 THEN 25 ELSE IF months <= 12 THEN 8 ELSE 3

timeline_points(months) ==
  IF months = None THEN 0
  ELSE IF months <= 3 THEN 25 ELSE IF months <= 6 THEN 15 ELSE IF months <= 12 THEN 8 ELSE 3

financing_points(preapproved) ==
  IF preapproved = None THEN 0 ELSE IF preapproved THEN 20 ELSE 3

responsiveness_points(count) ==
  IF count >= 6 THEN 15 ELSE IF count >= 3 THEN 10 ELSE IF count >= 1 THEN 5 ELSE 0

site_visit_points(willing) == IF willing = TRUE THEN 10 ELSE 0

(* A booked lead is hot whatever else is known.                            *)
score_lead(d) ==
  LET total == budget_points(d, active_listing_prices) + timeline_points(d.timeline_months)
               + financing_points(d.loan_preapproved)
               + responsiveness_points(d.inbound_message_count)
               + site_visit_points(d.site_visit_willing)
  IN IF d.booked
     THEN [score |-> IF total > HOT_THRESHOLD THEN total ELSE HOT_THRESHOLD, temperature |-> "HOT"]
     ELSE [score |-> total, temperature |-> temperature_for(total)]

-----------------------------------------------------------------------------
Unknown == [budget_min |-> None, budget_max |-> None, timeline_months |-> None,
            loan_preapproved |-> None, site_visit_willing |-> None,
            inbound_message_count |-> 0, booked |-> FALSE]

ProfileInit == profile = Unknown

(* The lead writes again.                                                  *)
Writes ==
  /\ profile.inbound_message_count < Messages
  /\ profile' = [profile EXCEPT !.inbound_message_count = @ + 1]

(* update_lead_profile: an answer, or a correction of an earlier one.      *)
update_lead_profile ==
  \/ \E p \in Prices : profile' \in {[profile EXCEPT !.budget_min = p],
                                    [profile EXCEPT !.budget_max = p]}
  \/ \E n \in Months : profile' = [profile EXCEPT !.timeline_months = n]
  \/ \E b \in BOOLEAN : profile' \in {[profile EXCEPT !.loan_preapproved = b],
                                     [profile EXCEPT !.site_visit_willing = b]}

Books == profile' = [profile EXCEPT !.booked = TRUE]

ProfileNext == Writes \/ update_lead_profile \/ Books

-----------------------------------------------------------------------------
(* e is at least as close to buying as d, within the same budget.          *)
Closer(e, d) ==
  /\ e.budget_min = d.budget_min /\ e.budget_max = d.budget_max
  /\ d.timeline_months = None \/ (e.timeline_months # None /\ e.timeline_months <= d.timeline_months)
  /\ d.loan_preapproved = None \/ e.loan_preapproved = d.loan_preapproved \/ e.loan_preapproved = TRUE
  /\ d.site_visit_willing # TRUE \/ e.site_visit_willing = TRUE
  /\ e.inbound_message_count >= d.inbound_message_count
  /\ d.booked => e.booked

(* A range of prices that became wider.                                    *)
Wider(e, d) ==
  /\ [e EXCEPT !.budget_min = d.budget_min, !.budget_max = d.budget_max] = d
  /\ {d.budget_min, d.budget_max, e.budget_min, e.budget_max} \subseteq Prices
  /\ d.budget_min <= d.budget_max
  /\ e.budget_min <= d.budget_min /\ e.budget_max >= d.budget_max

(* A lead who comes closer to buying, or can spend more, never ranks       *)
(* lower, the score stays within 0 to 100 and the temperature follows it   *)
(* (scoring.py:147-162).                                                   *)
ScoreNeverFalls ==
  [][/\ Closer(profile', profile) \/ Wider(profile', profile)
          => score_lead(profile').score >= score_lead(profile).score
     /\ score_lead(profile').score \in 0..100
     /\ score_lead(profile').temperature = temperature_for(score_lead(profile').score)]_profile
=============================================================================
