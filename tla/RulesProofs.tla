---------------------------- MODULE RulesProofs ----------------------------
(***************************************************************************)
(* Proofs about the rules of Rules for any listings, prices, files, hours, *)
(* time zones and quiet hours: a lead that comes closer never ranks lower, *)
(* no row of an upload is dropped, and the times the assistant gives hold. *)
(***************************************************************************)
EXTENDS Rules, OrderLemmas, FiniteSetTheorems

-----------------------------------------------------------------------------
(* The score. What is known of a lead keeps its shape.                     *)
LEMMA ProfileStep ==
  ASSUME profile \in ScoringInput, ProfileNext
  PROVE  profile' \in ScoringInput
<1>1. CASE Writes
  BY <1>1, ScoringAssumption DEF Writes, ScoringInput
<1>2. CASE update_lead_profile
  <2>1. ASSUME NEW p \in Prices, profile' = [profile EXCEPT !.budget_min = p]
        PROVE  profile' \in ScoringInput
    BY <2>1 DEF ScoringInput
  <2>2. ASSUME NEW p \in Prices, profile' = [profile EXCEPT !.budget_max = p]
        PROVE  profile' \in ScoringInput
    BY <2>2 DEF ScoringInput
  <2>3. ASSUME NEW n \in Months, profile' = [profile EXCEPT !.timeline_months = n]
        PROVE  profile' \in ScoringInput
    BY <2>3 DEF ScoringInput
  <2>4. ASSUME NEW b \in BOOLEAN, profile' = [profile EXCEPT !.loan_preapproved = b]
        PROVE  profile' \in ScoringInput
    BY <2>4 DEF ScoringInput, Known
  <2>5. ASSUME NEW b \in BOOLEAN, profile' = [profile EXCEPT !.site_visit_willing = b]
        PROVE  profile' \in ScoringInput
    BY <2>5 DEF ScoringInput, Known
  <2> QED BY <1>2, <2>1, <2>2, <2>3, <2>4, <2>5 DEF update_lead_profile
<1>3. CASE Books
  BY <1>3 DEF Books, ScoringInput
<1> QED BY <1>1, <1>2, <1>3 DEF ProfileNext

(* The sum of the reasons.                                                 *)
Total(d) ==
  budget_points(d, active_listing_prices) + timeline_points(d.timeline_months)
    + financing_points(d.loan_preapproved) + responsiveness_points(d.inbound_message_count)
    + site_visit_points(d.site_visit_willing)

(* What each reason may give.                                              *)
LEMMA PointsBounded ==
  ASSUME NEW d \in ScoringInput
  PROVE  /\ budget_points(d, active_listing_prices) \in {0, 15, 30}
         /\ timeline_points(d.timeline_months) \in {0, 3, 8, 15, 25}
         /\ financing_points(d.loan_preapproved) \in {0, 3, 20}
         /\ responsiveness_points(d.inbound_message_count) \in {0, 5, 10, 15}
         /\ site_visit_points(d.site_visit_willing) \in {0, 10}
<1>1. budget_points(d, active_listing_prices) \in {0, 15, 30}
  <2>1. MAX_BUDGET_POINTS = 30 /\ MAX_BUDGET_POINTS \div 2 = 15
    BY DEF MAX_BUDGET_POINTS
  <2> QED BY <2>1 DEF budget_points
<1>2. timeline_points(d.timeline_months) \in {0, 3, 8, 15, 25}
  BY DEF timeline_points
<1>3. financing_points(d.loan_preapproved) \in {0, 3, 20}
  BY DEF financing_points
<1>4. responsiveness_points(d.inbound_message_count) \in {0, 5, 10, 15}
  BY DEF responsiveness_points
<1>5. site_visit_points(d.site_visit_willing) \in {0, 10}
  BY DEF site_visit_points
<1> QED BY <1>1, <1>2, <1>3, <1>4, <1>5

(* Their sum fits in a hundred.                                            *)
LEMMA TotalBounded == ASSUME NEW d \in ScoringInput PROVE Total(d) \in 0..100
<1> DEFINE b == budget_points(d, active_listing_prices)
           t == timeline_points(d.timeline_months)
           f == financing_points(d.loan_preapproved)
           m == responsiveness_points(d.inbound_message_count)
           v == site_visit_points(d.site_visit_willing)
<1>1. /\ b \in 0..30 /\ t \in 0..25 /\ f \in 0..20 /\ m \in 0..15 /\ v \in 0..10
  <2>1. /\ b \in {0, 15, 30} /\ t \in {0, 3, 8, 15, 25} /\ f \in {0, 3, 20}
        /\ m \in {0, 5, 10, 15} /\ v \in {0, 10}
    BY PointsBounded
  <2> HIDE DEF b, t, f, m, v
  <2> QED BY <2>1
<1>2. Total(d) = b + t + f + m + v
  BY DEF Total
<1> HIDE DEF b, t, f, m, v
<1> QED BY <1>1, <1>2

(* The score stays within its range and the temperature follows it.        *)
LEMMA ScoreBounded ==
  ASSUME NEW d \in ScoringInput
  PROVE  /\ score_lead(d).score \in 0..100
         /\ score_lead(d).score = (IF d.booked /\ Total(d) <= HOT_THRESHOLD THEN HOT_THRESHOLD
                                   ELSE Total(d))
         /\ score_lead(d).temperature = temperature_for(score_lead(d).score)
<1>1. Total(d) \in 0..100 /\ d.booked \in BOOLEAN
  BY TotalBounded DEF ScoringInput
<1>2. score_lead(d) = IF d.booked
     THEN [score |-> IF Total(d) > HOT_THRESHOLD THEN Total(d) ELSE HOT_THRESHOLD, temperature |-> "HOT"]
     ELSE [score |-> Total(d), temperature |-> temperature_for(Total(d))]
  BY DEF score_lead, Total
<1>3. CASE d.booked
  <2>1. /\ score_lead(d).score = IF Total(d) > HOT_THRESHOLD THEN Total(d) ELSE HOT_THRESHOLD
        /\ score_lead(d).temperature = "HOT"
    BY <1>2, <1>3
  <2> QED BY <1>1, <1>3, <2>1 DEF HOT_THRESHOLD, temperature_for
<1>4. CASE ~d.booked
  <2>1. score_lead(d).score = Total(d) /\ score_lead(d).temperature = temperature_for(Total(d))
    BY <1>2, <1>4
  <2> QED BY <1>1, <1>4, <2>1
<1> QED BY <1>3, <1>4

(* Each reason gives a closer lead at least as much.                       *)
LEMMA CloserTotal ==
  ASSUME NEW d \in ScoringInput, NEW e \in ScoringInput, Closer(e, d)
  PROVE  Total(e) >= Total(d)
<1>1. budget_points(e, active_listing_prices) = budget_points(d, active_listing_prices)
  BY DEF Closer, budget_points, InRange
<1>2. timeline_points(e.timeline_months) >= timeline_points(d.timeline_months)
  <2>1. /\ d.timeline_months \in Nat \cup {None} /\ e.timeline_months \in Nat \cup {None}
        /\ None \notin Nat
    BY ScoringAssumption DEF ScoringInput
  <2>2. d.timeline_months = None \/ (e.timeline_months # None /\ e.timeline_months <= d.timeline_months)
    BY DEF Closer
  <2> QED BY <2>1, <2>2 DEF timeline_points
<1>3. financing_points(e.loan_preapproved) >= financing_points(d.loan_preapproved)
  <2>1. d.loan_preapproved \in Known /\ e.loan_preapproved \in Known /\ None \notin BOOLEAN
    BY ScoringAssumption DEF ScoringInput
  <2>2. d.loan_preapproved = None \/ e.loan_preapproved = d.loan_preapproved \/ e.loan_preapproved = TRUE
    BY DEF Closer
  <2> DEFINE x == d.loan_preapproved
             y == e.loan_preapproved
  <2>3. CASE x = None
    <3>1. financing_points(x) = 0
      BY <2>3 DEF financing_points
    <3>2. financing_points(y) \in {0, 3, 20}
      BY DEF financing_points
    <3> QED BY <3>1, <3>2
  <2>4. CASE y = x
    <3>1. financing_points(x) \in {0, 3, 20} /\ financing_points(x) = financing_points(y)
      BY <2>4 DEF financing_points
    <3> QED BY <3>1
  <2>5. CASE y = TRUE
    <3>1. financing_points(TRUE) = 20
      BY <2>1 DEF financing_points
    <3>2. financing_points(x) \in {0, 3, 20} /\ financing_points(y) = 20
      <4>1. financing_points(x) \in {0, 3, 20}
        BY DEF financing_points
      <4> QED BY <2>5, <3>1, <4>1
    <3> QED BY <3>2
  <2> QED BY <2>2, <2>3, <2>4, <2>5
<1>4. responsiveness_points(e.inbound_message_count) >= responsiveness_points(d.inbound_message_count)
  <2>1. /\ d.inbound_message_count \in 0..Messages /\ e.inbound_message_count \in 0..Messages
        /\ Messages \in Nat
    BY ScoringAssumption DEF ScoringInput
  <2>2. e.inbound_message_count >= d.inbound_message_count
    BY DEF Closer
  <2> QED BY <2>1, <2>2 DEF responsiveness_points
<1>5. site_visit_points(e.site_visit_willing) >= site_visit_points(d.site_visit_willing)
  <2>1. d.site_visit_willing # TRUE \/ e.site_visit_willing = TRUE
    BY DEF Closer
  <2>2. CASE d.site_visit_willing # TRUE
    <3>1. site_visit_points(d.site_visit_willing) = 0
      BY <2>2 DEF site_visit_points
    <3>2. site_visit_points(e.site_visit_willing) \in {0, 10}
      BY DEF site_visit_points
    <3> QED BY <3>1, <3>2
  <2>3. CASE e.site_visit_willing = TRUE
    <3>1. site_visit_points(e.site_visit_willing) = 10
      BY <2>3 DEF site_visit_points
    <3>2. site_visit_points(d.site_visit_willing) \in {0, 10}
      BY DEF site_visit_points
    <3> QED BY <3>1, <3>2
  <2> QED BY <2>1, <2>2, <2>3
<1> DEFINE b == budget_points(d, active_listing_prices)
           s1 == timeline_points(d.timeline_months)
           t1 == timeline_points(e.timeline_months)
           s2 == financing_points(d.loan_preapproved)
           t2 == financing_points(e.loan_preapproved)
           s3 == responsiveness_points(d.inbound_message_count)
           t3 == responsiveness_points(e.inbound_message_count)
           s4 == site_visit_points(d.site_visit_willing)
           t4 == site_visit_points(e.site_visit_willing)
<1>6. /\ b \in Int /\ s1 \in Int /\ s2 \in Int /\ s3 \in Int /\ s4 \in Int
      /\ t1 \in Int /\ t2 \in Int /\ t3 \in Int /\ t4 \in Int
  <2>1. /\ b \in {0, 15, 30}
        /\ s1 \in {0, 3, 8, 15, 25} /\ s2 \in {0, 3, 20} /\ s3 \in {0, 5, 10, 15} /\ s4 \in {0, 10}
        /\ t1 \in {0, 3, 8, 15, 25} /\ t2 \in {0, 3, 20} /\ t3 \in {0, 5, 10, 15} /\ t4 \in {0, 10}
    BY PointsBounded
  <2> HIDE DEF b, s1, s2, s3, s4, t1, t2, t3, t4
  <2> QED BY <2>1
<1>7. Total(d) = b + s1 + s2 + s3 + s4 /\ Total(e) = b + t1 + t2 + t3 + t4
  BY <1>1 DEF Total
<1>8. t1 >= s1 /\ t2 >= s2 /\ t3 >= s3 /\ t4 >= s4
  BY <1>2, <1>3, <1>4, <1>5
<1> HIDE DEF b, s1, s2, s3, s4, t1, t2, t3, t4
<1> QED BY <1>6, <1>7, <1>8

(* A wider range of prices holds what the narrower one held, and a listing *)
(* just above the narrower one is in it or just above it.                  *)
LEMMA WiderTotal ==
  ASSUME NEW d \in ScoringInput, NEW e \in ScoringInput, Wider(e, d)
  PROVE  Total(e) >= Total(d)
<1>1. /\ e.timeline_months = d.timeline_months /\ e.loan_preapproved = d.loan_preapproved
      /\ e.site_visit_willing = d.site_visit_willing
      /\ e.inbound_message_count = d.inbound_message_count
  <2> DEFINE r == [e EXCEPT !.budget_min = d.budget_min, !.budget_max = d.budget_max]
  <2>1. /\ r.timeline_months = e.timeline_months /\ r.loan_preapproved = e.loan_preapproved
        /\ r.site_visit_willing = e.site_visit_willing
        /\ r.inbound_message_count = e.inbound_message_count
    BY DEF ScoringInput
  <2>2. r = d
    BY DEF Wider
  <2> HIDE DEF r
  <2> QED BY <2>1, <2>2
<1>2. /\ d.budget_min \in Nat /\ d.budget_max \in Nat /\ d.budget_min <= d.budget_max
      /\ e.budget_min \in Nat /\ e.budget_max \in Nat
      /\ e.budget_min <= d.budget_min /\ e.budget_max >= d.budget_max
  <2>1. {d.budget_min, d.budget_max, e.budget_min, e.budget_max} \subseteq Nat
    BY ScoringAssumption DEF Wider
  <2>2. d.budget_min <= d.budget_max /\ e.budget_min <= d.budget_min /\ e.budget_max >= d.budget_max
    BY DEF Wider
  <2> QED BY <2>1, <2>2
<1>3. \A p \in active_listing_prices : p \in Nat
  BY ScoringAssumption DEF active_listing_prices
<1> DEFINE P == active_listing_prices
<1>4. ASSUME NEW p \in P, InRange(d, p) PROVE InRange(e, p)
  BY <1>2, <1>3, <1>4, ScoringAssumption DEF InRange
<1>5. ASSUME NEW p \in P, NearMiss(d.budget_max, p)
      PROVE  InRange(e, p) \/ NearMiss(e.budget_max, p)
  BY <1>2, <1>3, <1>5, ScoringAssumption DEF InRange, NearMiss
<1>6. budget_points(e, P) >= budget_points(d, P)
  <2>1. MAX_BUDGET_POINTS = 30 /\ MAX_BUDGET_POINTS \div 2 = 15
    BY DEF MAX_BUDGET_POINTS
  <2>2. d.budget_min # None /\ d.budget_max # None /\ e.budget_min # None /\ e.budget_max # None
    BY <1>2, ScoringAssumption
  <2>3. \A x \in {d, e} :
          budget_points(x, P) = IF P = {} THEN 0
                                ELSE IF \E p \in P : InRange(x, p) THEN 30
                                ELSE IF \E p \in P : NearMiss(x.budget_max, p) THEN 15 ELSE 0
    BY <2>1, <2>2 DEF budget_points
  <2> QED BY <1>4, <1>5, <2>3
<1> DEFINE b == budget_points(d, P)
           c == budget_points(e, P)
           t == timeline_points(d.timeline_months)
           f == financing_points(d.loan_preapproved)
           m == responsiveness_points(d.inbound_message_count)
           v == site_visit_points(d.site_visit_willing)
<1>7. Total(d) = b + t + f + m + v /\ Total(e) = c + t + f + m + v
  BY <1>1 DEF Total
<1>8. b \in Int /\ c \in Int /\ t \in Int /\ f \in Int /\ m \in Int /\ v \in Int
  <2>1. /\ b \in {0, 15, 30} /\ c \in {0, 15, 30} /\ t \in {0, 3, 8, 15, 25} /\ f \in {0, 3, 20}
        /\ m \in {0, 5, 10, 15} /\ v \in {0, 10}
    BY PointsBounded
  <2> HIDE DEF b, c, t, f, m, v
  <2> QED BY <2>1
<1>9. c >= b
  BY <1>6
<1> HIDE DEF b, c, t, f, m, v
<1> QED BY <1>7, <1>8, <1>9

(* A step of the profile keeps the promise about the score.                *)
LEMMA ScoreStep ==
  ASSUME profile \in ScoringInput, profile' \in ScoringInput
  PROVE  /\ Closer(profile', profile) \/ Wider(profile', profile)
              => score_lead(profile').score >= score_lead(profile).score
         /\ score_lead(profile').score \in 0..100
         /\ score_lead(profile').temperature = temperature_for(score_lead(profile').score)
<1> DEFINE d == profile
           e == profile'
<1>1. Total(d) \in 0..100 /\ Total(e) \in 0..100
  BY TotalBounded
<1>2. ASSUME Closer(e, d) \/ Wider(e, d) PROVE Total(e) >= Total(d) /\ (d.booked => e.booked)
  <2>1. CASE Closer(e, d)
    <3>1. Total(e) >= Total(d)
      BY <2>1, CloserTotal
    <3>2. d.booked => e.booked
      BY <2>1 DEF Closer
    <3> QED BY <3>1, <3>2
  <2>2. CASE Wider(e, d)
    <3>1. Total(e) >= Total(d)
      BY <2>2, WiderTotal
    <3>2. e.booked = d.booked
      <4> DEFINE r == [e EXCEPT !.budget_min = d.budget_min, !.budget_max = d.budget_max]
      <4>1. r.booked = e.booked
        BY DEF ScoringInput
      <4>2. r = d
        BY <2>2 DEF Wider
      <4> HIDE DEF r
      <4> QED BY <4>1, <4>2
    <3> QED BY <3>1, <3>2
  <2> QED BY <1>2, <2>1, <2>2
<1>3. \A x \in {d, e} :
        /\ score_lead(x).score \in 0..100
        /\ score_lead(x).score = (IF x.booked /\ Total(x) <= 70 THEN 70 ELSE Total(x))
        /\ score_lead(x).temperature = temperature_for(score_lead(x).score)
  BY ScoreBounded DEF HOT_THRESHOLD
<1>4. ASSUME Closer(e, d) \/ Wider(e, d) PROVE score_lead(e).score >= score_lead(d).score
  <2>1. Total(e) >= Total(d) /\ (d.booked => e.booked)
    BY <1>2, <1>4
  <2> QED BY <1>1, <1>3, <2>1
<1> QED BY <1>3, <1>4

(* A lead that comes closer to buying, or can spend more, never ranks      *)
(* lower, for any listings, prices and timelines, the score stays between  *)
(* 0 and 100 and the temperature follows it (scoring.py:147-162).          *)
THEOREM ScoreKept == Spec => ScoreNeverFalls
<1>1. Init => profile \in ScoringInput
  BY ScoringAssumption DEF Init, ProfileInit, Unknown, ScoringInput, Known
<1>2. profile \in ScoringInput /\ [Next]_vars => (profile \in ScoringInput)'
  <2> SUFFICES ASSUME profile \in ScoringInput, [Next]_vars PROVE profile' \in ScoringInput
    OBVIOUS
  <2> QED BY ProfileStep DEF Next, vars
<1>3. profile \in ScoringInput /\ (profile \in ScoringInput)'
        => [/\ Closer(profile', profile) \/ Wider(profile', profile)
                 => score_lead(profile').score >= score_lead(profile).score
            /\ score_lead(profile').score \in 0..100
            /\ score_lead(profile').temperature = temperature_for(score_lead(profile').score)]_profile
  BY ScoreStep
<1> QED BY <1>1, <1>2, <1>3, PTL DEF Spec, ScoreNeverFalls

-----------------------------------------------------------------------------
(* Reading a file. A row is read, or complained about, or garbled.         *)
LEMMA ParsedCases ==
  ASSUME NEW row \in Row
  PROVE  Parsed(row) \in {"ok", "ValueError", "InvalidOperation"}
<1> DEFINE p == Parsers(row)
           bad == {i \in 1..6 : p[i] # "ok"}
           least == CHOOSE i \in bad : \A j \in bad : i <= j
<1>1. Cell(row, "price") \in Amounts \cup NoAmounts \cup Garbled
  BY DEF Cell, Row, NoAmounts
<1>2. parse_price(Cell(row, "price")) \in {"ok", "ValueError", "InvalidOperation"}
  <2>1. Amounts \cap NoAmounts = {} /\ Amounts \cap Garbled = {} /\ NoAmounts \cap Garbled = {}
    BY DEF Amounts, NoAmounts, Garbled
  <2> QED BY <1>1, <2>1 DEF parse_price
<1>3. /\ p[1] \in {"ok", "ValueError"} /\ p[2] \in {"ok", "ValueError"}
      /\ p[3] = parse_price(Cell(row, "price"))
      /\ p[4] \in {"ok", "ValueError"} /\ p[5] \in {"ok", "ValueError"} /\ p[6] \in {"ok", "ValueError"}
  <2>1. /\ p[1] = _require(Cell(row, "title")) /\ p[2] = _require(Cell(row, "city"))
        /\ p[3] = parse_price(Cell(row, "price")) /\ p[4] = parse_choice(Cell(row, "property_type"))
        /\ p[5] = parse_choice(Cell(row, "status")) /\ p[6] = parse_int(Cell(row, "bhk"))
    BY DEF Parsers
  <2>2. \A x : /\ _require(x) \in {"ok", "ValueError"} /\ parse_choice(x) \in {"ok", "ValueError"}
              /\ parse_int(x) \in {"ok", "ValueError"}
    BY DEF _require, parse_choice, parse_int
  <2> HIDE DEF p
  <2> QED BY <2>1, <2>2
<1>4. Parsed(row) = IF bad = {} THEN "ok" ELSE p[least]
  BY DEF Parsed
<1>5. CASE bad = {}
  BY <1>4, <1>5
<1>6. CASE bad # {}
  <2>1. bad \in SUBSET Nat
    OBVIOUS
  <2>2. least \in bad
    <3>1. \E i \in bad : \A j \in bad : i <= j
      BY <1>6, <2>1, MinExists
    <3> HIDE DEF bad
    <3> QED BY <3>1
  <2>3. least \in 1..6
    BY <2>2
  <2>4. Parsed(row) = p[least]
    BY <1>4, <1>6
  <2> HIDE DEF p, bad, least
  <2>5. least = 1 \/ least = 2 \/ least = 3 \/ least = 4 \/ least = 5 \/ least = 6
    BY <2>3
  <2> QED BY <1>2, <1>3, <2>4, <2>5
<1> QED BY <1>5, <1>6

(* The files the reader is given, and the row it is at.                    *)
LEMMA AtRowIsRow ==
  ASSUME ImportType
  PROVE  /\ file.rows \in Seq(Row) /\ Len(file.rows) \in Nat
         /\ Rows = 1..Len(file.rows)
         /\ \A n \in Rows : file.rows[n] \in Row
         /\ line \in Nat /\ line <= Len(file.rows)
         /\ line < Len(file.rows) => line + 1 \in Rows /\ file.rows[line + 1] \in Row
<1>1. file.rows \in Seq(Row)
  BY ImportAssumption DEF ImportType
<1>2. Len(file.rows) \in Nat /\ Rows = 1..Len(file.rows) /\ \A n \in Rows : file.rows[n] \in Row
  BY <1>1 DEF Rows
<1>3. line \in Nat /\ line <= Len(file.rows)
  BY <1>2 DEF ImportType
<1> QED BY <1>1, <1>2, <1>3

(* As many rows were imported as there are listings.                       *)
LEMMA ImportedCount ==
  ASSUME ImportType, RowsRead
  PROVE  IsFiniteSet(Imported) /\ Cardinality(Imported) = Len(listings)
<1>1. /\ Len(listings) \in Nat /\ DOMAIN listings = 1..Len(listings)
      /\ \A i \in 1..Len(listings) : listings[i] \in 1..line
      /\ \A i, j \in 1..Len(listings) : i < j => listings[i] < listings[j]
  BY DEF ImportType, RowsRead
<1> DEFINE D == 1..Len(listings)
           f == [i \in D |-> listings[i]]
<1>2. f \in [D -> Imported]
  BY <1>1 DEF Imported
<1>3. ASSUME NEW i \in D, NEW j \in D, f[i] = f[j] PROVE i = j
  <2>1. line \in Nat
    BY AtRowIsRow
  <2>2. listings[i] = listings[j] /\ listings[i] \in Int /\ listings[j] \in Int
    BY <1>1, <1>3, <2>1
  <2>3. ~(i < j) /\ ~(j < i)
    BY <1>1, <2>2
  <2> QED BY <1>1, <2>3
<1>4. \A x \in Imported : \E i \in D : f[i] = x
  BY <1>1 DEF Imported
<1>5. f \in Bijection(D, Imported)
  <2> HIDE DEF f, D
  <2> QED BY <1>2, <1>3, <1>4 DEF Bijection, Injection, IsInjective, Surjection
<1>6. ExistsBijection(D, Imported)
  BY <1>5 DEF ExistsBijection
<1>7. IsFiniteSet(D) /\ Cardinality(D) = Len(listings)
  BY <1>1, FS_Interval
<1> QED BY <1>6, <1>7, FS_Bijection

(* Taking a row as a listing.                                              *)
LEMMA TakeRow ==
  ASSUME ImportType, AtRow, listings' = Append(listings, line + 1), line' = line + 1
  PROVE  /\ listings' \in Seq(1..line') /\ Len(listings') = Len(listings) + 1
         /\ Imported' = Imported \cup {line + 1}
         /\ listings' # <<>>
         /\ (\A i, j \in DOMAIN listings : i < j => listings[i] < listings[j])
              => (\A i, j \in DOMAIN listings' : i < j => listings'[i] < listings'[j])
<1>1. line \in Nat
  BY AtRowIsRow
<1>2. /\ Len(listings) \in Nat /\ DOMAIN listings = 1..Len(listings)
      /\ \A i \in 1..Len(listings) : listings[i] \in 1..line
  BY DEF ImportType
<1>3. listings \in Seq(1..line') /\ line + 1 \in 1..line'
  <2>1. \A i \in 1..Len(listings) : listings[i] \in 1..(line + 1)
    BY <1>1, <1>2
  <2>2. listings \in [1..Len(listings) -> 1..(line + 1)]
    BY <2>1 DEF ImportType
  <2> QED BY <1>1, <1>2, <2>2, SeqOfFunction
<1> DEFINE L == Append(listings, line + 1)
<1>4. /\ L \in Seq(1..line') /\ Len(L) = Len(listings) + 1 /\ DOMAIN L = 1..(Len(listings) + 1)
      /\ L[Len(listings) + 1] = line + 1
      /\ \A i \in 1..Len(listings) : L[i] = listings[i]
  BY <1>3
<1>5. listings' = L
  OBVIOUS
<1> HIDE DEF L
<1>6. Imported' = Imported \cup {line + 1}
  <2>1. Imported' = {L[i] : i \in 1..(Len(listings) + 1)} /\ Imported = {listings[i] : i \in 1..Len(listings)}
    BY <1>2, <1>4, <1>5 DEF Imported
  <2>2. \A i \in 1..(Len(listings) + 1) : i \in 1..Len(listings) \/ i = Len(listings) + 1
    BY <1>2
  <2>3. Len(listings) + 1 \in 1..(Len(listings) + 1)
        /\ \A i \in 1..Len(listings) : i \in 1..(Len(listings) + 1)
    BY <1>2
  <2> QED BY <1>4, <2>1, <2>2, <2>3
<1>7. listings' # <<>>
  BY <1>2, <1>4, <1>5
<1>8. ASSUME \A i, j \in DOMAIN listings : i < j => listings[i] < listings[j],
             NEW i \in DOMAIN listings', NEW j \in DOMAIN listings', i < j
      PROVE  listings'[i] < listings'[j]
  <2>1. i \in 1..Len(listings) /\ listings'[i] = listings[i] /\ listings[i] \in 1..line
    BY <1>2, <1>4, <1>5, <1>8
  <2>2. CASE j = Len(listings) + 1
    BY <1>1, <1>4, <1>5, <2>1, <2>2
  <2>3. CASE j # Len(listings) + 1
    BY <1>2, <1>4, <1>5, <1>8, <2>1, <2>3
  <2> QED BY <2>2, <2>3
<1> QED BY <1>4, <1>5, <1>6, <1>7, <1>8

(* The rows stay what they are while the reader goes over them.            *)
LEMMA SameFile ==
  ASSUME file' = file
  PROVE  /\ Rows' = Rows
         /\ \A n \in Rows : /\ Parsed(file.rows[n])' = Parsed(file.rows[n])
                            /\ Blank(file.rows[n])' = Blank(file.rows[n])
         /\ \A n \in Nat : Ends(n)' <=> Ends(n)
<1>1. Rows' = Rows
  BY DEF Rows
<1>2. ASSUME NEW n \in Rows
      PROVE  /\ Parsed(file.rows[n])' = Parsed(file.rows[n])
             /\ Blank(file.rows[n])' = Blank(file.rows[n])
  BY DEF Parsed, Parsers, Cell, Blank
<1>3. \A n \in Nat : Ends(n)' <=> Ends(n)
  BY <1>1, <1>2 DEF Ends
<1> QED BY <1>1, <1>2, <1>3

(* The reader starts with nothing read.                                    *)
LEMMA ImportStarts == ImportInit => ImportInv
<1> SUFFICES ASSUME ImportInit PROVE ImportInv
  OBVIOUS
<1>1. file \in Files /\ line = 0 /\ listings = <<>> /\ errors = {} /\ reading = "header"
  BY DEF ImportInit
<1>2. file.rows \in Seq(Row) /\ Len(file.rows) \in Nat
  BY <1>1, ImportAssumption
<1>3. listings \in Seq(1..line) /\ Len(listings) = 0 /\ DOMAIN listings = {}
  BY <1>1
<1>4. ImportType
  BY <1>1, <1>2, <1>3 DEF ImportType
<1>5. RowsRead
  BY <1>1, <1>3, ImportAssumption DEF RowsRead, Imported
<1>6. Stage /\ Unbroken
  BY <1>1 DEF Stage, Unbroken
<1> QED BY <1>4, <1>5, <1>6 DEF ImportInv

(* The reader raises.                                                      *)
LEMMA RaisedKeeps == ASSUME ImportInv, HeaderRaises \/ RowRaises PROVE ImportInv'
<1>0. ImportType /\ RowsRead /\ Stage /\ Unbroken
  BY DEF ImportInv
<1>1. /\ file' = file /\ listings' = listings /\ errors' = errors /\ reading' = "raised"
      /\ \/ reading = "header" /\ line' = line /\ line = 0 /\ 0 \in file.unreadable
         \/ reading = "rows" /\ line' = line + 1 /\ line < Len(file.rows) /\ line + 1 \in file.unreadable
  BY <1>0 DEF HeaderRaises, RowRaises, AtRecord, Stage
<1>2. /\ line \in Nat /\ Len(file.rows) \in Nat /\ Rows = 1..Len(file.rows)
      /\ line' \in 0..Len(file.rows) /\ line' \in Nat /\ line <= line'
      /\ \A n \in 1..line : n \in Rows
  BY <1>0, <1>1, AtRowIsRow
<1>3. /\ listings \in Seq(1..line') /\ Imported' = Imported /\ Imported \subseteq 1..line
  <2>1. /\ Len(listings) \in Nat /\ DOMAIN listings = 1..Len(listings)
        /\ \A i \in 1..Len(listings) : listings[i] \in 1..line
    BY <1>0 DEF ImportType
  <2>2. listings \in [1..Len(listings) -> 1..line']
    BY <1>0, <1>2, <2>1 DEF ImportType
  <2>3. listings \in Seq(1..line')
    BY <1>2, <2>1, <2>2, SeqOfFunction
  <2> QED BY <1>1, <2>1, <2>3 DEF Imported
<1>4. ImportType'
  BY <1>0, <1>1, <1>2, <1>3 DEF ImportType
<1>5. RowsRead'
  <2>1. \A n \in Imported : n \in Rows
    BY <1>2, <1>3
  <2>2. \A n \in Imported' : (~Blank(file.rows[n]) /\ Parsed(file.rows[n]) = "ok")'
    BY <1>0, <1>1, <1>3, <2>1, SameFile DEF RowsRead
  <2> QED BY <1>0, <1>1, <1>3, <2>2 DEF RowsRead
<1>6. Ends(line)'
  <2>1. Ends(line')
    BY <1>1 DEF Ends
  <2> QED BY <1>1, <1>2, <2>1, SameFile DEF Ends
<1>7. Stage' /\ Unbroken'
  BY <1>1, <1>6 DEF Stage, Unbroken
<1> QED BY <1>4, <1>5, <1>7 DEF ImportInv

(* The header of the file is accepted or refused.                          *)
LEMMA HeaderKeeps == ASSUME ImportInv, ReadHeader PROVE ImportInv'
<1>0. ImportType /\ RowsRead /\ Stage /\ Unbroken
  BY DEF ImportInv
<1>1. /\ file' = file /\ line' = line /\ listings' = listings
      /\ reading = "header" /\ line = 0 /\ errors = {}
      /\ \/ errors' = {0} /\ reading' = "done"
         \/ errors' = {} /\ reading' = "rows" /\ ~Ends(0)
  <2>1. /\ file' = file /\ line' = line /\ listings' = listings
        /\ reading = "header" /\ line = 0 /\ errors = {}
        /\ \/ errors' = {0} /\ reading' = "done"
           \/ errors' = {} /\ reading' = "rows" /\ 0 \notin file.unreadable
    BY <1>0 DEF ReadHeader, Stage
  <2>2. 0 \notin Rows
    BY <1>0, AtRowIsRow
  <2> QED BY <2>1, <2>2 DEF Ends
<1>2. ImportType'
  BY <1>0, <1>1, AtRowIsRow DEF ImportType
<1>3. Imported' = Imported /\ Imported = {}
  <2>1. Imported \subseteq 1..line
    BY <1>0 DEF Imported, ImportType
  <2> QED BY <1>1, <2>1 DEF Imported
<1>4. RowsRead'
  BY <1>0, <1>1, <1>3 DEF RowsRead
<1>5. Stage'
  BY <1>1 DEF Stage
<1>6. Unbroken'
  <2>1. \A n \in 0..0 : n = 0
    OBVIOUS
  <2>2. reading' = "rows" => \A n \in 0..line : ~Ends(n)'
    BY <1>1, <2>1, SameFile
  <2> QED BY <1>1, <2>2 DEF Unbroken
<1> QED BY <1>2, <1>4, <1>5, <1>6 DEF ImportInv

(* One more record that does not end the upload.                           *)
LEMMA GoesOn ==
  ASSUME Unbroken, Stage, file' = file, line' = line + 1, line \in Nat, reading = "rows",
         ~Ends(line + 1)
  PROVE  Unbroken'
<1>1. 0 \notin errors
  BY DEF Stage
<1>2. \A n \in 0..line : ~Ends(n)
  BY <1>1 DEF Unbroken
<1>3. \A n \in 0..(line + 1) : n \in Nat /\ (n \in 0..line \/ n = line + 1)
  OBVIOUS
<1>4. \A n \in 0..(line + 1) : ~Ends(n)'
  BY <1>2, <1>3, SameFile
<1> QED BY <1>4 DEF Unbroken

LEMMA BlankNotGarbled ==
  ASSUME NEW row \in Row, Blank(row)
  PROVE  Parsed(row) # "InvalidOperation"
<1> DEFINE p == Parsers(row)
           bad == {i \in 1..6 : p[i] # "ok"}
           least == CHOOSE i \in bad : \A j \in bad : i <= j
<1>1. Cell(row, "title") = "" /\ _require(Cell(row, "title")) = "ValueError"
  BY DEF Blank, Row, Columns, REQUIRED, Cell, _require
<1>2. p[1] = "ValueError"
  BY <1>1 DEF Parsers
<1>3. Parsed(row) = IF bad = {} THEN "ok" ELSE p[least]
  BY DEF Parsed
<1>4. 1 \in bad /\ bad \subseteq 1..6
  BY <1>2
<1> HIDE DEF p
<1>5. least = 1
  <2>1. \A j \in bad : 1 <= j
    OBVIOUS
  <2>2. \A i \in bad : (\A j \in bad : i <= j) => i = 1
    BY <1>4
  <2> QED BY <1>4, <2>1, <2>2
<1> HIDE DEF bad, least
<1> QED BY <1>2, <1>3, <1>4, <1>5

(* A blank row is skipped.                                                 *)
LEMMA BlankKeeps == ASSUME ImportInv, SkipBlank PROVE ImportInv'
<1>0. ImportType /\ RowsRead /\ Stage /\ Unbroken
  BY DEF ImportInv
<1>1. /\ file' = file /\ line' = line + 1 /\ listings' = listings /\ errors' = errors /\ reading' = reading
      /\ reading = "rows" /\ line < Len(file.rows) /\ Blank(file.rows[line + 1])
      /\ line + 1 \notin file.unreadable
  BY DEF SkipBlank, AtRow, AtRecord, NextRow
<1>2. /\ line \in Nat /\ Len(file.rows) \in Nat /\ Rows = 1..Len(file.rows) /\ line + 1 \in Rows
  BY <1>0, <1>1, AtRowIsRow
<1>3. listings \in Seq(1..(line + 1)) /\ Imported \subseteq 1..line
  <2>1. /\ Len(listings) \in Nat /\ DOMAIN listings = 1..Len(listings)
        /\ \A i \in 1..Len(listings) : listings[i] \in 1..line
    BY <1>0 DEF ImportType
  <2>2. listings \in [1..Len(listings) -> 1..(line + 1)]
    BY <1>0, <1>2, <2>1 DEF ImportType
  <2>3. listings \in Seq(1..(line + 1))
    BY <2>1, <2>2, SeqOfFunction
  <2> QED BY <2>1, <2>3 DEF Imported
<1>4. ImportType'
  BY <1>0, <1>1, <1>2, <1>3 DEF ImportType
<1>5. Imported' = Imported
  BY <1>1 DEF Imported
<1>6. /\ \A n \in Imported : Parsed(file.rows[n])' = "ok" /\ ~Blank(file.rows[n])'
      /\ \A n \in 1..(line + 1) : n \in Imported \cup errors \/ Blank(file.rows[n])'
  <2>1. \A n \in 1..line : n \in Rows
    BY <1>1, <1>2
  <2>2. \A n \in Imported : Parsed(file.rows[n])' = "ok" /\ ~Blank(file.rows[n])'
    BY <1>0, <1>1, <1>3, <2>1, SameFile DEF RowsRead
  <2>3. \A n \in 1..line : n \in Imported \cup errors \/ Blank(file.rows[n])
    BY <1>0, <1>1 DEF RowsRead
  <2>4. \A n \in 1..(line + 1) : n \in 1..line \/ n = line + 1
    BY <1>2
  <2>5. \A n \in 1..(line + 1) : n \in Imported \cup errors \/ Blank(file.rows[n])
    BY <1>1, <2>3, <2>4
  <2>6. \A n \in 1..(line + 1) : n \in Rows
    BY <1>2, <2>1, <2>4
  <2> QED BY <1>1, <2>2, <2>5, <2>6, SameFile
<1>7. RowsRead'
  BY <1>0, <1>1, <1>5, <1>6 DEF RowsRead
<1>8. Stage'
  <2>1. \A e \in errors : e \in 1..line
    BY <1>0, <1>1 DEF Stage
  <2>2. \A e \in errors' : e \in 1..line'
    BY <1>1, <1>2, <2>1
  <2> QED BY <1>1, <2>2 DEF Stage
<1>9. ~Ends(line + 1)
  <2>1. file.rows[line + 1] \in Row
    BY <1>0, <1>1, AtRowIsRow
  <2> QED BY <1>1, <2>1, BlankNotGarbled DEF Ends
<1>10. Unbroken'
  BY <1>0, <1>1, <1>2, <1>9, GoesOn
<1> QED BY <1>4, <1>7, <1>8, <1>10 DEF ImportInv

(* A row too many ends the reading, with an error at it.                   *)
LEMMA SurplusKeeps == ASSUME ImportInv, Surplus PROVE ImportInv'
<1>0. ImportType /\ RowsRead /\ Stage /\ Unbroken
  BY DEF ImportInv
<1>1. /\ file' = file /\ line' = line /\ listings' = listings /\ errors' = errors \cup {line + 1}
      /\ reading = "rows" /\ reading' = "done" /\ line < Len(file.rows) /\ Len(listings) >= MAX_ROWS
  BY DEF Surplus, AtRow, AtRecord
<1>2. /\ line \in Nat /\ Len(file.rows) \in Nat /\ Rows = 1..Len(file.rows) /\ line + 1 \in Rows
      /\ Imported \subseteq 1..line /\ Imported' = Imported
  BY <1>0, <1>1, AtRowIsRow DEF Imported, ImportType
<1>3. ImportType'
  BY <1>0, <1>1, <1>2 DEF ImportType
<1>4. line + 1 \notin Imported
  BY <1>2
<1>5. /\ \A n \in Imported : Parsed(file.rows[n])' = "ok" /\ ~Blank(file.rows[n])'
      /\ \A n \in 1..line : n \in Imported \cup errors \/ Blank(file.rows[n])'
  <2>1. \A n \in 1..line : n \in Rows
    BY <1>1, <1>2
  <2> QED BY <1>0, <1>1, <1>2, <2>1, SameFile DEF RowsRead
<1>6. RowsRead'
  BY <1>0, <1>1, <1>2, <1>4, <1>5 DEF RowsRead
<1>7. Len(listings) = MAX_ROWS
  BY <1>0, <1>1, ImportAssumption DEF RowsRead, ImportType
<1>8. Stage'
  BY <1>1, <1>7 DEF Stage
<1>9. Unbroken'
  <2>1. \A n \in 0..line : n \in Nat /\ ~Ends(n)
    BY <1>0, <1>1, <1>2 DEF Stage, Unbroken
  <2> QED BY <1>1, <2>1, SameFile DEF Unbroken
<1> QED BY <1>3, <1>6, <1>8, <1>9 DEF ImportInv

(* A row becomes a listing or an error, or is garbled.                     *)
LEMMA ReadKeeps == ASSUME ImportInv, ReadRow PROVE ImportInv'
<1>0. ImportType /\ RowsRead /\ Stage /\ Unbroken
  BY DEF ImportInv
<1> DEFINE n0 == line + 1
           row == file.rows[n0]
<1>1. /\ file' = file /\ line' = n0 /\ AtRow /\ reading = "rows" /\ line < Len(file.rows)
      /\ Len(listings) < MAX_ROWS /\ ~Blank(row) /\ n0 \notin file.unreadable
  BY DEF ReadRow, AtRow, AtRecord, NextRow
<1>2. /\ line \in Nat /\ Len(file.rows) \in Nat /\ Rows = 1..Len(file.rows) /\ n0 \in Rows /\ row \in Row
      /\ \A n \in 1..line : n \in Rows
      /\ Imported \subseteq 1..line
  <2>1. /\ line \in Nat /\ Len(file.rows) \in Nat /\ Rows = 1..Len(file.rows) /\ n0 \in Rows /\ row \in Row
    BY <1>0, <1>1, AtRowIsRow
  <2>2. Imported \subseteq 1..line
    BY <1>0 DEF Imported, ImportType
  <2>3. \A n \in 1..line : n \in Rows
    BY <1>1, <2>1
  <2> QED BY <2>1, <2>2, <2>3
<1>3. /\ Parsed(row) \in {"ok", "ValueError", "InvalidOperation"}
      /\ Parsed(row) # "InvalidOperation" => ~Ends(n0)
      /\ Parsed(row) = "InvalidOperation" => Ends(n0)
  BY <1>1, <1>2, ParsedCases DEF Ends
<1>4. \A n \in 1..(line + 1) : n \in 1..line \/ n = n0
  BY <1>2
<1>5. /\ \A n \in 1..line : n \in Imported \cup errors \/ Blank(file.rows[n])
      /\ \A e \in errors : e \in 1..line
      /\ n0 \notin errors /\ n0 \notin Imported
  <2>1. /\ \A n \in 1..line : n \in Imported \cup errors \/ Blank(file.rows[n])
        /\ \A e \in errors : e \in 1..line
    BY <1>0, <1>1 DEF RowsRead, Stage
  <2> QED BY <1>2, <2>1
<1>6. \A n \in Rows : Parsed(file.rows[n])' = Parsed(file.rows[n]) /\ Blank(file.rows[n])' = Blank(file.rows[n])
  BY <1>1, SameFile
<1>7. CASE Parsed(row) = "ok"
  <2>1. listings' = Append(listings, n0) /\ errors' = errors /\ reading' = reading
    BY <1>7 DEF ReadRow, NextRow
  <2>2. /\ listings' \in Seq(1..line') /\ Len(listings') = Len(listings) + 1
        /\ Imported' = Imported \cup {n0}
        /\ \A i, j \in DOMAIN listings' : i < j => listings'[i] < listings'[j]
    BY <1>0, <1>1, <2>1, TakeRow DEF RowsRead
  <2>3. ImportType'
    BY <1>0, <1>1, <1>2, <2>1, <2>2 DEF ImportType
  <2>4. \A n \in Imported' : ~Blank(file.rows[n])' /\ Parsed(file.rows[n])' = "ok"
    BY <1>0, <1>1, <1>2, <1>6, <1>7, <2>2 DEF RowsRead
  <2>5. \A n \in 1..line' : n \in Imported' \cup errors' \/ Blank(file.rows[n])'
    BY <1>1, <1>2, <1>4, <1>5, <1>6, <2>1, <2>2
  <2>6. errors' \cap Imported' = {}
    BY <1>0, <1>5, <2>1, <2>2 DEF RowsRead
  <2>7. Len(listings') <= MAX_ROWS
    BY <1>0, <1>1, <2>2, ImportAssumption DEF ImportType
  <2>8. RowsRead'
    <3>1. \A n \in Imported' : (~Blank(file.rows[n]) /\ Parsed(file.rows[n]) = "ok")'
      BY <2>4
    <3> QED BY <2>2, <2>5, <2>6, <2>7, <3>1 DEF RowsRead
  <2>9. Stage'
    <3>1. \A e \in errors' : e \in 1..line'
      BY <1>1, <1>2, <1>5, <2>1
    <3> QED BY <1>1, <2>1, <3>1 DEF Stage
  <2>10. Unbroken'
    BY <1>0, <1>1, <1>2, <1>3, <1>7, GoesOn
  <2> QED BY <2>3, <2>8, <2>9, <2>10 DEF ImportInv
<1>8. CASE Parsed(row) # "ok"
  <2>1. /\ listings' = listings /\ Imported' = Imported
        /\ \/ Parsed(row) = "ValueError" /\ errors' = errors \cup {n0} /\ reading' = reading
           \/ Parsed(row) = "InvalidOperation" /\ errors' = errors /\ reading' = "raised"
    <3>1. \/ Parsed(row) = "ValueError" /\ listings' = listings /\ errors' = errors \cup {n0} /\ reading' = reading
          \/ Parsed(row) = "InvalidOperation" /\ listings' = listings /\ errors' = errors /\ reading' = "raised"
      BY <1>3, <1>8 DEF ReadRow, NextRow
    <3> QED BY <3>1 DEF Imported
  <2>2. listings' \in Seq(1..line')
    <3>1. /\ Len(listings) \in Nat /\ DOMAIN listings = 1..Len(listings)
          /\ \A i \in 1..Len(listings) : listings[i] \in 1..line
      BY <1>0 DEF ImportType
    <3>2. listings \in [1..Len(listings) -> 1..(line + 1)]
      BY <1>0, <1>2, <3>1 DEF ImportType
    <3> QED BY <1>1, <2>1, <3>1, <3>2, SeqOfFunction
  <2>3. ImportType'
    <3>1. errors' \subseteq 0..Len(file.rows)
      <4>1. errors \subseteq 0..Len(file.rows) /\ n0 \in 0..Len(file.rows)
        BY <1>0, <1>2 DEF ImportType
      <4>2. errors' \subseteq errors \cup {n0}
        BY <2>1
      <4> QED BY <4>1, <4>2
    <3>2. line' \in 0..Len(file.rows)
      BY <1>1, <1>2
    <3>3. reading' \in {"header", "rows", "done", "raised"}
      BY <1>1, <2>1
    <3> QED BY <1>0, <1>1, <2>2, <3>1, <3>2, <3>3 DEF ImportType
  <2>4. \A n \in Imported' : (~Blank(file.rows[n]) /\ Parsed(file.rows[n]) = "ok")'
    BY <1>0, <1>1, <1>2, <1>6, <2>1 DEF RowsRead
  <2>5. reading' # "raised" => \A n \in 1..line' : n \in Imported' \cup errors' \/ Blank(file.rows[n])'
    BY <1>1, <1>2, <1>4, <1>5, <1>6, <2>1
  <2>6. errors' \cap Imported' = {}
    BY <1>0, <1>5, <2>1 DEF RowsRead
  <2>7. RowsRead'
    BY <1>0, <2>1, <2>4, <2>5, <2>6 DEF RowsRead
  <2>8. Stage'
    <3>1. CASE Parsed(row) = "ValueError"
      <4>1. errors' = errors \cup {n0} /\ reading' = "rows"
        BY <1>1, <2>1, <3>1
      <4>2. \A e \in errors' : e \in 1..line'
        BY <1>1, <1>2, <1>5, <4>1
      <4> QED BY <4>1, <4>2 DEF Stage
    <3>2. CASE Parsed(row) = "InvalidOperation"
      <4>1. reading' = "raised"
        BY <2>1, <3>2
      <4>2. Ends(line)'
        <5>1. n0 \in Nat /\ Ends(n0) /\ line' = n0
          BY <1>1, <1>2, <1>3, <3>2
        <5> HIDE DEF n0
        <5> QED BY <1>1, <5>1, SameFile DEF Ends
      <4> QED BY <4>1, <4>2 DEF Stage
    <3> QED BY <1>3, <1>8, <3>1, <3>2
  <2>9. Unbroken'
    <3>1. CASE Parsed(row) = "ValueError"
      BY <1>0, <1>1, <1>2, <1>3, <3>1, GoesOn
    <3>2. CASE Parsed(row) = "InvalidOperation"
      BY <2>1, <3>2 DEF Unbroken
    <3> QED BY <1>3, <1>8, <3>1, <3>2
  <2> QED BY <2>3, <2>7, <2>8, <2>9 DEF ImportInv
<1> QED BY <1>7, <1>8

(* The end of the file.                                                    *)
LEMMA FinishKeeps == ASSUME ImportInv, Finish PROVE ImportInv'
<1>0. ImportType /\ RowsRead /\ Stage /\ Unbroken
  BY DEF ImportInv
<1>1. /\ file' = file /\ line' = line /\ listings' = listings /\ reading = "rows" /\ reading' = "done"
      /\ line = Len(file.rows)
      /\ errors' = IF listings = <<>> /\ errors = {} THEN {0} ELSE errors
  BY DEF Finish
<1>2. /\ line \in Nat /\ Len(file.rows) \in Nat /\ Rows = 1..Len(file.rows)
      /\ \A n \in 1..line : n \in Rows
      /\ Imported \subseteq 1..line /\ Imported' = Imported
  BY <1>0, <1>1, AtRowIsRow DEF Imported, ImportType
<1>3. errors \subseteq errors' /\ 0 \notin Imported /\ errors' \subseteq errors \cup {0}
  BY <1>1, <1>2
<1>4. ImportType'
  BY <1>0, <1>1, <1>2, <1>3 DEF ImportType
<1>5. RowsRead'
  <2>1. \A n \in Imported' : (~Blank(file.rows[n]) /\ Parsed(file.rows[n]) = "ok")'
    BY <1>0, <1>1, <1>2, SameFile DEF RowsRead
  <2>2. \A n \in 1..line : n \in Imported \cup errors \/ Blank(file.rows[n])'
    BY <1>0, <1>1, <1>2, SameFile DEF RowsRead
  <2> QED BY <1>0, <1>1, <1>2, <1>3, <2>1, <2>2 DEF RowsRead
<1>6. Stage'
  BY <1>1 DEF Stage
<1>7. Unbroken'
  <2>1. \A n \in 0..line : n \in Nat /\ ~Ends(n)
    BY <1>0, <1>1, <1>2 DEF Stage, Unbroken
  <2> QED BY <1>1, <2>1, SameFile DEF Unbroken
<1> QED BY <1>4, <1>5, <1>6, <1>7 DEF ImportInv

(* What ImportInv says of a file that was read to the end.                 *)
LEMMA ReadThenHolds == ASSUME ImportInv PROVE NothingDropped
<1>0. ImportType /\ RowsRead /\ Stage /\ Unbroken
  BY DEF ImportInv
<1>1. /\ line \in Nat /\ Len(file.rows) \in Nat /\ Rows = 1..Len(file.rows)
      /\ Imported \subseteq 1..line /\ line <= Len(file.rows)
      /\ Len(listings) \in Nat
  BY <1>0, AtRowIsRow DEF Imported, ImportType
<1>2. ASSUME reading = "done", errors = {}
      PROVE  /\ \A n \in 0..Len(file.rows) : ~Ends(n)
             /\ Rows = Imported \cup {n \in Rows : Blank(file.rows[n])}
             /\ Len(listings) \in 1..MAX_ROWS
             /\ \A i, j \in DOMAIN listings : i < j => listings[i] < listings[j]
  <2>1. line = Len(file.rows) /\ listings # <<>>
    BY <1>0, <1>2 DEF Stage
  <2>2. \A n \in Rows : n \in Imported \/ Blank(file.rows[n])
    BY <1>0, <1>1, <1>2, <2>1 DEF RowsRead
  <2>3. Rows = Imported \cup {n \in Rows : Blank(file.rows[n])}
    BY <1>1, <2>1, <2>2
  <2>4. Len(listings) \in 1..MAX_ROWS
    <3>1. Len(listings) # 0
      BY <1>0, <2>1, EmptySeq DEF ImportType
    <3> QED BY <1>0, <1>1, <3>1, ImportAssumption DEF RowsRead
  <2>5. \A n \in 0..Len(file.rows) : ~Ends(n)
    BY <1>0, <1>2, <2>1 DEF Unbroken
  <2> QED BY <1>0, <2>3, <2>4, <2>5 DEF RowsRead
<1>3. ASSUME reading = "done", errors # {}, 0 \notin errors,
             NEW n \in Rows, Parsed(file.rows[n]) = "ValueError", ~Blank(file.rows[n])
      PROVE  n \in errors \/ \E e \in errors : e < n /\ Cardinality({k \in Imported : k < e}) = MAX_ROWS
  <2>1. n \notin Imported
    BY <1>0, <1>3 DEF RowsRead
  <2>2. CASE n <= line
    <3>1. n \in 1..line
      BY <1>1, <2>2
    <3> QED BY <1>0, <1>3, <2>1, <3>1 DEF RowsRead
  <2>3. CASE n > line
    <3>1. line + 1 \in errors /\ Len(listings) = MAX_ROWS
      BY <1>0, <1>1, <1>3, <2>3 DEF Stage
    <3>2. CASE n = line + 1
      BY <3>1, <3>2
    <3>3. CASE n # line + 1
      <4>1. line + 1 < n
        BY <1>1, <2>3, <3>3
      <4>2. {k \in Imported : k < line + 1} = Imported
        <5>1. \A k \in Imported : k < line + 1
          BY <1>1
        <5> QED BY <5>1
      <4>3. Cardinality(Imported) = MAX_ROWS
        BY <1>0, <3>1, ImportedCount
      <4> QED BY <3>1, <4>1, <4>2, <4>3
    <3> QED BY <3>2, <3>3
  <2>4. n <= line \/ n > line
    BY <1>1
  <2> QED BY <2>2, <2>3, <2>4
<1>4. errors \cap Imported = {}
  BY <1>0 DEF RowsRead
<1>5. reading = "raised" => Ends(line)
  BY <1>0 DEF Stage
<1> QED BY <1>2, <1>3, <1>4, <1>5 DEF NothingDropped

(* Every row of an upload is accounted for, and an upload ends without     *)
(* naming a row only at a record that csv.reader or its price's parser     *)
(* raises at, for any files and any limit on their listings                *)
(* (listing_import.py:157-232).                                            *)
THEOREM NoRowDropped == Spec => []NothingDropped
<1>1. Init => ImportInv
  <2>1. ASSUME Init PROVE ImportInv
    <3>1. ImportInit
      BY <2>1 DEF Init
    <3> QED BY <3>1, ImportStarts
  <2> QED BY <2>1
<1>2. ImportInv /\ [Next]_vars => ImportInv'
  <2> SUFFICES ASSUME ImportInv, [Next]_vars PROVE ImportInv'
    OBVIOUS
  <2>1. CASE topic = "import" /\ ImportNext
    BY <2>1, RaisedKeeps, HeaderKeeps, BlankKeeps, SurplusKeeps, ReadKeeps, FinishKeeps DEF ImportNext
  <2>2. CASE UNCHANGED import
    <3>1. file' = file /\ line' = line /\ listings' = listings /\ errors' = errors /\ reading' = reading
      BY <2>2 DEF import
    <3>2. ImportType' /\ Imported' = Imported /\ ImportType
      BY <3>1 DEF ImportInv, ImportType, Imported
    <3>3. /\ Rows' = Rows
          /\ \A n \in Rows : /\ Parsed(file.rows[n])' = Parsed(file.rows[n])
                             /\ Blank(file.rows[n])' = Blank(file.rows[n])
          /\ \A n \in Nat : Ends(n)' <=> Ends(n)
      BY <3>1, SameFile
    <3>4. Imported \subseteq Rows /\ \A n \in 1..line : n \in Rows
      <4>1. Imported \subseteq 1..line
        BY <3>2 DEF Imported, ImportType
      <4>2. \A n \in 1..line : n \in Rows
        BY <3>2, AtRowIsRow
      <4> QED BY <4>1, <4>2
    <3>5. RowsRead'
      BY <3>1, <3>2, <3>3, <3>4 DEF ImportInv, RowsRead
    <3>6. Stage' /\ Unbroken'
      <4>1. line \in Nat /\ \A n \in 0..line : n \in Nat
        BY <3>2, AtRowIsRow
      <4>2. Ends(line)' <=> Ends(line)
        BY <3>1, <4>1, <3>3 DEF Ends
      <4> QED BY <3>1, <3>3, <4>1, <4>2 DEF ImportInv, Stage, Unbroken
    <3> QED BY <3>2, <3>5, <3>6 DEF ImportInv
  <2> QED BY <2>1, <2>2 DEF Next, vars
<1>3. ImportInv => NothingDropped
  BY ReadThenHolds
<1> QED BY <1>1, <1>2, <1>3, PTL DEF Spec

-----------------------------------------------------------------------------
(* Quiet hours. The hour of the day, from the day and the place in it.     *)
LEMMA LocalParts ==
  ASSUME NEW m \in Int, NEW offset \in Int
  PROVE  \E D \in Int, x \in 0..95 :
           /\ m + offset = D * 96 + x
           /\ LocalDay(m, offset) = D /\ LocalHour(m, offset) = x \div 4
<1> DEFINE D == (m + offset) \div 96
           x == (m + offset) % 96
<1>1. D \in Int /\ x \in 0..95 /\ m + offset = D * 96 + x
  OBVIOUS
<1>2. LocalDay(m, offset) = D /\ LocalHour(m, offset) = x \div 4
  BY DEF LocalDay, LocalHour, Day, Hour
<1> HIDE DEF D, x
<1> QED BY <1>1, <1>2

(* A message waits for the end of the quiet hours it falls into and no     *)
(* longer, whichever they are and wherever the lead is.                    *)
LEMMA SendTime ==
  ASSUME NEW due \in Int, NEW offset \in Int, NEW start \in 0..23, NEW end \in 0..23
  PROVE  LET t == next_send_time(due, offset, start, end)
         IN /\ t \in Int /\ t >= due /\ ~is_quiet_hour(t, offset, start, end)
            /\ \A m \in due..(t - 1) : is_quiet_hour(m, offset, start, end)
<1> DEFINE t == next_send_time(due, offset, start, end)
           quiet(m) == is_quiet_hour(m, offset, start, end)
<1>1. CASE ~quiet(due)
  <2>1. t = due
    BY <1>1 DEF next_send_time
  <2> QED BY <1>1, <2>1
<1>2. CASE quiet(due)
  <2>1. PICK D \in Int, x \in 0..95 :
          /\ due + offset = D * 96 + x
          /\ LocalDay(due, offset) = D /\ LocalHour(due, offset) = x \div 4
    BY LocalParts
  <2> DEFINE hour == x \div 4
             candidate == D * 96 + end * 4 - offset
  <2>2. t = IF candidate <= due THEN candidate + 96 ELSE candidate
    BY <1>2, <2>1 DEF next_send_time, Day, Hour
  <2>3. hour \in 0..23 /\ 4 * hour <= x /\ x < 4 * hour + 4
    BY <2>1
  <2>4. IF start <= end THEN start <= hour /\ hour < end ELSE hour >= start \/ hour < end
    BY <1>2, <2>1 DEF is_quiet_hour
  <2>5. candidate \in Int /\ (candidate <= due <=> 4 * end <= x)
    BY <2>1
  <2>6. 4 * end <= x <=> end <= hour
    BY <2>3
  <2> HIDE DEF hour, t
  <2>7. t \in Int /\ t >= due
    BY <2>1, <2>2, <2>5
  <2>b. \A m, E \in Int, z \in 0..95 : m + offset = E * 96 + z => LocalHour(m, offset) = z \div 4
    <3> SUFFICES ASSUME NEW m \in Int, NEW E \in Int, NEW z \in 0..95, m + offset = E * 96 + z
                 PROVE  LocalHour(m, offset) = z \div 4
      OBVIOUS
    <3>1. (m + offset) % 96 = z
      OBVIOUS
    <3> QED BY <3>1 DEF LocalHour, Day, Hour
  <2>c. PICK z \in 0..95 : z = end * 4 /\ z \div 4 = end
    OBVIOUS
  <2>d. PICK E \in Int : E = D + 1
    OBVIOUS
  <2>8. LocalHour(t, offset) = end
    <3>1. CASE candidate <= due
      <4>1. t + offset = E * 96 + z
        BY <2>2, <2>c, <2>d, <3>1
      <4>2. LocalHour(t, offset) = z \div 4
        BY <2>7, <2>b, <4>1
      <4> QED BY <2>c, <4>2
    <3>2. CASE ~(candidate <= due)
      <4>1. t + offset = D * 96 + z
        BY <2>2, <2>c, <3>2
      <4>2. LocalHour(t, offset) = z \div 4
        BY <2>7, <2>b, <4>1
      <4> QED BY <2>c, <4>2
    <3> QED BY <3>1, <3>2
  <2>9. ~quiet(t)
    BY <2>8 DEF is_quiet_hour
  <2>10. ASSUME NEW m \in due..(t - 1) PROVE quiet(m)
    <3>1. m \in Int /\ due <= m /\ m < t
      BY <2>7
    <3>2. CASE m + offset < (D + 1) * 96
      <4> DEFINE y == m + offset - D * 96
      <4>1. y \in 0..95 /\ x <= y /\ m + offset = D * 96 + y
        BY <2>1, <3>1, <3>2
      <4>3. hour <= y \div 4 /\ (~(candidate <= due) => y \div 4 < end)
        BY <2>1, <2>2, <2>3, <2>5, <3>1, <4>1
      <4> HIDE DEF y
      <4>2. LocalHour(m, offset) = y \div 4
        BY <2>b, <3>1, <4>1
      <4>4. y \div 4 \in Int
        BY <4>1
      <4> QED BY <2>3, <2>4, <2>5, <2>6, <4>2, <4>3, <4>4 DEF is_quiet_hour
    <3>3. CASE m + offset >= (D + 1) * 96
      <4>1. candidate <= due
        BY <2>1, <2>2, <3>1, <3>3
      <4> DEFINE y == m + offset - E * 96
      <4>2. y \in 0..95 /\ y < 4 * end /\ m + offset = E * 96 + y
        BY <2>1, <2>2, <2>d, <3>1, <3>3, <4>1
      <4> HIDE DEF y
      <4>3. LocalHour(m, offset) = y \div 4 /\ y \div 4 < end /\ y \div 4 \in Int
        <5>1. LocalHour(m, offset) = y \div 4
          BY <2>b, <3>1, <4>2
        <5>2. y \div 4 < end /\ y \div 4 \in Int
          BY <4>2
        <5> QED BY <5>1, <5>2
      <4>4. start > end
        BY <2>3, <2>4, <2>5, <2>6, <4>1
      <4> QED BY <4>3, <4>4 DEF is_quiet_hour
    <3> QED BY <2>1, <3>1, <3>2, <3>3
  <2> QED BY <2>7, <2>9, <2>10 DEF t
<1> QED BY <1>1, <1>2

-----------------------------------------------------------------------------
(* Offered times. The first start of a window is the first half hour of    *)
(* UTC after its opening and two hours from now.                           *)
LEMMA CursorIs ==
  ASSUME NEW m \in Int, NEW w, w.from \in Int
  PROVE  /\ Cursor(m, w) \in Int /\ Cursor(m, w) % 2 = 0
         /\ Cursor(m, w) >= w.from /\ Cursor(m, w) >= m + 8
         /\ \A x \in Int : x % 2 = 0 /\ x >= w.from /\ x >= m + 8 => x >= Cursor(m, w)
<1> DEFINE top == Max({w.from, m + 8})
<1>1. top \in {w.from, m + 8} /\ top >= w.from /\ top >= m + 8
  <2>1. \E x \in {w.from, m + 8} : \A y \in {w.from, m + 8} : x >= y
    OBVIOUS
  <2>2. top = CHOOSE x \in {w.from, m + 8} : \A y \in {w.from, m + 8} : x >= y
    BY DEF Max
  <2> HIDE DEF top
  <2> QED BY <2>1, <2>2
<1>2. Cursor(m, w) = IF top % 2 = 0 THEN top ELSE top + 2 - (top % 2)
  BY DEF Cursor, AlignUp, HalfHour, MIN_LEAD_TIME, Hour
<1> HIDE DEF top
<1>3. top \in Int
  BY <1>1
<1>4. top % 2 = 0 \/ top % 2 = 1
  BY <1>3
<1>5. CASE top % 2 = 0
  BY <1>1, <1>2, <1>3, <1>5
<1>6. CASE top % 2 = 1
  <2>1. Cursor(m, w) = top + 1 /\ (top + 1) % 2 = 0
    BY <1>2, <1>3, <1>6
  <2>2. ASSUME NEW x \in Int, x % 2 = 0, x >= w.from, x >= m + 8 PROVE x >= top + 1
    BY <1>1, <1>3, <1>6, <2>2
  <2> QED BY <1>1, <1>3, <2>1, <2>2
<1> QED BY <1>4, <1>5, <1>6

(* A window lies within its local day.                                     *)
LEMMA WindowInDay ==
  ASSUME NEW day \in Int, NEW offset \in Int, NEW w \in Windows(day, offset)
  PROVE  /\ w.from \in Int /\ w.to \in Int
         /\ day * 96 <= w.from + offset /\ w.to + offset < day * 96 + 96
<1> DEFINE n == Cardinality(DOMAIN Hours)
           hours == Hours[day % n]
<1>1. n \in Nat \ {0}
  BY SchedulingAssumption, FS_CardinalityType, FS_EmptySet
<1>2. day % n \in DOMAIN Hours
  <2> HIDE DEF n
  <2>1. day % n \in 0..(n - 1)
    BY <1>1
  <2> QED BY <2>1, SchedulingAssumption DEF n
<1>3. hours = <<>> \/ hours \in (0..95) \X (0..95)
  BY <1>2, SchedulingAssumption DEF Day, Hour
<1>4. ~(hours = <<>> \/ hours[1] >= hours[2])
      /\ w = [from |-> day * 96 + hours[1] - offset, to |-> day * 96 + hours[2] - offset]
  BY DEF Windows, Day, Hour
<1> HIDE DEF hours
<1>5. hours[1] \in 0..95 /\ hours[2] \in 0..95
  BY <1>3, <1>4
<1>6. w.from = day * 96 + hours[1] - offset /\ w.to = day * 96 + hours[2] - offset
  BY <1>4
<1> QED BY <1>5, <1>6

(* A start lies in the day of its window, on a half hour, two hours away.  *)
LEMMA StartInDay ==
  ASSUME NEW m \in Int, NEW day \in Int, NEW offset \in Int, NEW kind \in Kinds,
         NEW w \in Windows(day, offset), NEW s \in Starts(m, w, kind)
  PROVE  /\ s \in Int /\ LocalDay(s, offset) = day /\ s % 2 = 0
         /\ s >= m + 8 /\ s >= w.from /\ s <= w.to - SLOT_MINUTES[kind]
         /\ (s - Cursor(m, w)) % SLOT_MINUTES[kind] = 0
<1>1. SLOT_MINUTES[kind] \in {2, 4}
  BY DEF Kinds, SLOT_MINUTES
<1>2. /\ w.from \in Int /\ w.to \in Int
      /\ day * 96 <= w.from + offset /\ w.to + offset < day * 96 + 96
  BY WindowInDay
<1> DEFINE c == Cursor(m, w)
           len == SLOT_MINUTES[kind]
<1>3. c \in Int /\ c % 2 = 0 /\ c >= w.from /\ c >= m + 8
  BY <1>2, CursorIs
<1>4. s \in c..(w.to - len) /\ (s - c) % len = 0
  BY DEF Starts
<1> HIDE DEF c, len
<1>5. len = 2 \/ len = 4
  BY <1>1 DEF len
<1>6. s \in Int /\ s >= c /\ s <= w.to - len
  BY <1>2, <1>3, <1>4, <1>5
<1>7. s % 2 = 0
  BY <1>3, <1>4, <1>5, <1>6
<1>8. LocalDay(s, offset) = day
  <2>1. PICK x \in 0..95 : s + offset = day * 96 + x
    <3>1. s + offset - day * 96 \in 0..95
      BY <1>2, <1>3, <1>5, <1>6
    <3> QED BY <1>6, <3>1
  <2>2. (s + offset) \div 96 = day
    BY <1>6, <2>1
  <2> QED BY <2>2 DEF LocalDay, Day, Hour
<1> QED BY <1>2, <1>3, <1>4, <1>6, <1>7, <1>8 DEF c, len

(* Days follow one another.                                                *)
LEMMA DaysInOrder ==
  ASSUME NEW a \in Int, NEW b \in Int, NEW offset \in Int, a <= b
  PROVE  LocalDay(a, offset) \in Int /\ LocalDay(b, offset) \in Int
         /\ LocalDay(a, offset) <= LocalDay(b, offset)
BY DEF LocalDay, Day, Hour

(* The days a search may look at, by their number from the local today.    *)
Searched(m, offset, kind, days) ==
  UNION {Starts(m, w, kind) :
           w \in UNION {Windows(LocalDay(m, offset) + d, offset) : d \in 0..(days - 1)}}

(* What is found of a week or a month lies in it, in the order of days.    *)
LEMMA SearchedIn ==
  ASSUME NEW m \in Int, NEW offset \in Int, NEW kind \in Kinds, NEW days \in Nat,
         NEW s \in Searched(m, offset, kind, days)
  PROVE  /\ s \in Int /\ s % 2 = 0 /\ s >= m + 8
         /\ LocalDay(s, offset) - LocalDay(m, offset) \in 0..(days - 1)
         /\ \E w \in Windows(LocalDay(s, offset), offset) : s \in Starts(m, w, kind)
<1>1. LocalDay(m, offset) \in Int
  BY DaysInOrder
<1>2. PICK d \in 0..(days - 1) :
        \E w \in Windows(LocalDay(m, offset) + d, offset) : s \in Starts(m, w, kind)
  BY DEF Searched
<1>3. PICK w \in Windows(LocalDay(m, offset) + d, offset) : s \in Starts(m, w, kind)
  BY <1>2
<1>4. LocalDay(m, offset) + d \in Int
  BY <1>1
<1>5. s \in Int /\ LocalDay(s, offset) = LocalDay(m, offset) + d /\ s % 2 = 0 /\ s >= m + 8
  BY <1>3, <1>4, StartInDay
<1> QED BY <1>1, <1>3, <1>5

(* A start of a searched day is found.                                     *)
LEMMA InSearched ==
  ASSUME NEW m \in Int, NEW offset \in Int, NEW kind \in Kinds, NEW days \in Nat, NEW day \in Int,
         day - LocalDay(m, offset) \in 0..(days - 1),
         NEW w \in Windows(day, offset), NEW s \in Starts(m, w, kind)
  PROVE  s \in Searched(m, offset, kind, days)
<1>1. LocalDay(m, offset) \in Int
  BY DaysInOrder
<1>2. PICK d \in 0..(days - 1) : d = day - LocalDay(m, offset)
  OBVIOUS
<1>3. day = LocalDay(m, offset) + d
  BY <1>1, <1>2
<1>4. w \in Windows(LocalDay(m, offset) + d, offset)
  BY <1>3
<1> QED BY <1>4 DEF Searched

(* A week is a search of seven days.                                       *)
LEMMA WeekIsSearched ==
  \A m, offset, kind : Week(m, offset, kind) = Searched(m, offset, kind, 7)
<1>1. 7 - 1 = 6
  OBVIOUS
<1> QED BY <1>1 DEF Week, Searched

(* It has finitely many starts.                                            *)
LEMMA WeekFinite ==
  ASSUME NEW m \in Int, NEW offset \in Int, NEW kind \in Kinds
  PROVE  IsFiniteSet(Week(m, offset, kind))
<1> DEFINE top == (LocalDay(m, offset) + 7) * 96 - offset
<1>1. LocalDay(m, offset) \in Int
  BY DaysInOrder
<1>2. top \in Int /\ IsFiniteSet(m..top)
  BY <1>1, FS_Interval
<1>3. ASSUME NEW s \in Week(m, offset, kind) PROVE s \in m..top
  <2>1. s \in Searched(m, offset, kind, 7)
    BY <1>3, WeekIsSearched
  <2>2. s \in Int /\ s >= m + 8 /\ LocalDay(s, offset) - LocalDay(m, offset) \in 0..6
    BY <2>1, SearchedIn
  <2>3. LocalDay(s, offset) = (s + offset) \div 96
    BY DEF LocalDay, Day, Hour
  <2>4. s + offset < (LocalDay(s, offset) + 1) * 96
    BY <2>2, <2>3
  <2>5. LocalDay(s, offset) \in Int
    BY <2>2, DaysInOrder
  <2> QED BY <1>1, <2>2, <2>4, <2>5
<1>4. Week(m, offset, kind) \in SUBSET (m..top)
  BY <1>3
<1> QED BY <1>2, <1>4, FS_Subset

(* A start that was offered is a start of the later search of its day, if  *)
(* it is still two hours away and its grid did not move.                   *)
LEMMA StillAStart ==
  ASSUME NEW at \in Int, NEW m \in Int, NEW offset \in Int, NEW kind \in Kinds, NEW day \in Int,
         NEW w \in Windows(day, offset), NEW s \in Starts(at, w, kind), s >= m + 8,
         kind = "CALL" \/ (Cursor(m, w) - Cursor(at, w)) % SLOT_MINUTES[kind] = 0
  PROVE  s \in Starts(m, w, kind)
<1> DEFINE c == Cursor(at, w)
           e == Cursor(m, w)
           len == SLOT_MINUTES[kind]
<1>1. /\ s \in Int /\ s % 2 = 0 /\ s >= w.from /\ s <= w.to - len /\ (s - c) % len = 0
  BY StartInDay
<1>2. w.from \in Int /\ w.to \in Int
  BY WindowInDay
<1>3. c \in Int /\ e \in Int /\ e % 2 = 0 /\ s >= e
  BY <1>1, <1>2, CursorIs
<1>4. (kind = "CALL" /\ len = 2) \/ (kind = "SITE_VISIT" /\ len = 4)
  BY DEF Kinds, SLOT_MINUTES
<1>5. kind = "CALL" \/ (e - c) % len = 0
  OBVIOUS
<1> HIDE DEF c, e, len
<1>6. (s - e) % len = 0
  <2>1. CASE kind = "CALL" /\ len = 2
    BY <1>1, <1>3, <2>1
  <2>2. CASE kind = "SITE_VISIT" /\ len = 4
    <3>1. (e - c) % 4 = 0 /\ (s - c) % 4 = 0
      BY <1>1, <1>5, <2>2
    <3>2. (s - e) % 4 = 0
      BY <1>1, <1>3, <3>1
    <3> QED BY <2>2, <3>2
  <2> QED BY <1>4, <2>1, <2>2
<1>7. s \in e..(w.to - len)
  BY <1>1, <1>2, <1>3, <1>4
<1> QED BY <1>6, <1>7 DEF Starts, e, len

(* A week has at most as many times as book_appointment looks through.     *)
FewTimes ==
  \A m \in Nat, offset \in Zones, kind \in Kinds : Cardinality(Week(m, offset, kind)) <= 200

(* Time zones are offsets.                                                 *)
LEMMA ZonesAreOffsets == Zones \subseteq Int
<1>1. Zones \subseteq (-12 * Hour)..(14 * Hour)
  BY SchedulingAssumption
<1>2. \A a, b \in Int : a..b \subseteq Int
  OBVIOUS
<1>3. -12 * Hour \in Int /\ 14 * Hour \in Int
  BY DEF Hour
<1> QED BY <1>1, <1>2, <1>3

(* find_available_slots finds a free start that has few others before it.  *)
LEMMA FoundAmongFew ==
  ASSUME NEW m \in Nat, NEW offset \in Zones, NEW kind \in Kinds, NEW busy, FewTimes,
         NEW s \in Week(m, offset, kind), ~Overlaps(Interval(s, kind), busy)
  PROVE  s \in find_available_slots(m, offset, kind, 30, 200, busy)
<1>0. m \in Int /\ offset \in Int
  BY ZonesAreOffsets
<1> DEFINE S == {x \in Searched(m, offset, kind, 30) : ~Overlaps(Interval(x, kind), busy)}
           B == {x \in S : x < s}
<1>1. /\ s \in Int /\ LocalDay(s, offset) - LocalDay(m, offset) \in 0..6
      /\ \E w \in Windows(LocalDay(s, offset), offset) : s \in Starts(m, w, kind)
  <2>1. s \in Searched(m, offset, kind, 7)
    BY WeekIsSearched
  <2>2. 7 \in Nat /\ 7 - 1 = 6
    OBVIOUS
  <2> QED BY <1>0, <2>1, <2>2, SearchedIn
<1>2. LocalDay(s, offset) \in Int /\ LocalDay(m, offset) \in Int
  BY <1>0, <1>1, DaysInOrder
<1>3. s \in S
  <2>1. PICK w \in Windows(LocalDay(s, offset), offset) : s \in Starts(m, w, kind)
    BY <1>1
  <2>2. LocalDay(s, offset) - LocalDay(m, offset) \in 0..(30 - 1)
    BY <1>1, <1>2
  <2>3. s \in Searched(m, offset, kind, 30)
    BY <1>0, <1>2, <2>1, <2>2, InSearched
  <2> QED BY <2>3
<1>4. ASSUME NEW x \in B PROVE x \in Week(m, offset, kind) \ {s}
  <2>1. x \in Searched(m, offset, kind, 30) /\ x < s
    OBVIOUS
  <2>2. /\ x \in Int /\ LocalDay(x, offset) - LocalDay(m, offset) \in 0..29
        /\ \E w \in Windows(LocalDay(x, offset), offset) : x \in Starts(m, w, kind)
    <3>1. 30 \in Nat /\ 30 - 1 = 29
      OBVIOUS
    <3> QED BY <1>0, <2>1, <3>1, SearchedIn
  <2>3. LocalDay(x, offset) \in Int /\ LocalDay(x, offset) <= LocalDay(s, offset)
    BY <1>0, <1>1, <2>1, <2>2, DaysInOrder
  <2>4. LocalDay(x, offset) - LocalDay(m, offset) \in 0..(7 - 1)
    BY <1>1, <1>2, <2>2, <2>3
  <2>5. PICK w \in Windows(LocalDay(x, offset), offset) : x \in Starts(m, w, kind)
    BY <2>2
  <2>6. x \in Searched(m, offset, kind, 7)
    BY <1>0, <2>3, <2>4, <2>5, InSearched
  <2> QED BY <1>1, <2>1, <2>2, <2>6, WeekIsSearched
<1>5. Cardinality(B) < 200
  <2>1. IsFiniteSet(Week(m, offset, kind))
    BY <1>0, WeekFinite
  <2>2. IsFiniteSet(Week(m, offset, kind) \ {s})
        /\ Cardinality(Week(m, offset, kind) \ {s}) = Cardinality(Week(m, offset, kind)) - 1
    BY <2>1, FS_RemoveElement
  <2>3. B \in SUBSET (Week(m, offset, kind) \ {s})
    BY <1>4
  <2>4. IsFiniteSet(B) /\ Cardinality(B) <= Cardinality(Week(m, offset, kind) \ {s})
    BY <2>2, <2>3, FS_Subset
  <2>5. Cardinality(Week(m, offset, kind)) <= 200
    BY DEF FewTimes
  <2>6. Cardinality(Week(m, offset, kind)) \in Nat /\ Cardinality(B) \in Nat
    BY <2>1, <2>4, FS_CardinalityType
  <2> HIDE DEF B
  <2> QED BY <2>2, <2>4, <2>5, <2>6
<1>6. find_available_slots(m, offset, kind, 30, 200, busy) = first(200, S)
  BY DEF find_available_slots, Searched
<1> HIDE DEF S
<1>7. s \in first(200, S)
  BY <1>3, <1>5 DEF first
<1> QED BY <1>6, <1>7

(* What was offered stays bookable until it is near or taken.              *)
LEMMA OffersKept == ASSUME TimesInv, FewTimes PROVE OffersHold
<1>1. /\ now \in Nat /\ zone \in Zones /\ zone \in Int /\ offer.kind \in Kinds
      /\ offer.at \in Int /\ offer.at <= now /\ now \in Int
  BY ZonesAreOffsets DEF TimesInv
<1> SUFFICES ASSUME NEW answers \in BOOLEAN, NEW s \in offer.starts,
                    s >= now + MIN_LEAD_TIME,
                    ~Overlaps(Interval(s, offer.kind), Busy(taken, answers)),
                    offer.kind = "CALL" \/ SameGrid(s)
             PROVE  s \in Bookable(offer.kind, answers)
  BY DEF OffersHold
<1>2. s >= now + 8
  BY DEF MIN_LEAD_TIME, Hour
<1>3. s \in Searched(offer.at, zone, offer.kind, 7)
  BY WeekIsSearched DEF TimesInv
<1>4. /\ s \in Int /\ LocalDay(s, zone) - LocalDay(offer.at, zone) \in 0..6
      /\ \E w \in Windows(LocalDay(s, zone), zone) : s \in Starts(offer.at, w, offer.kind)
  <2>1. 7 \in Nat /\ 7 - 1 = 6
    OBVIOUS
  <2> QED BY <1>1, <1>3, <2>1, SearchedIn
<1>5. PICK w \in Windows(LocalDay(s, zone), zone) : s \in Starts(offer.at, w, offer.kind)
  BY <1>4
<1>6. LocalDay(s, zone) \in Int
  BY <1>1, <1>4, DaysInOrder
<1>7. s \in Starts(now, w, offer.kind)
  <2>1. offer.kind = "CALL" \/ (Cursor(now, w) - Cursor(offer.at, w)) % SLOT_MINUTES[offer.kind] = 0
    BY <1>5 DEF SameGrid
  <2> QED BY <1>1, <1>2, <1>5, <1>6, <2>1, StillAStart
<1>8. LocalDay(s, zone) - LocalDay(now, zone) \in 0..(7 - 1)
  <2>1. now <= s
    BY <1>1, <1>2, <1>4
  <2>2. /\ LocalDay(now, zone) \in Int /\ LocalDay(now, zone) <= LocalDay(s, zone)
    BY <1>1, <1>4, <2>1, DaysInOrder
  <2>3. LocalDay(offer.at, zone) \in Int /\ LocalDay(offer.at, zone) <= LocalDay(now, zone)
    BY <1>1, DaysInOrder
  <2> QED BY <1>4, <1>6, <2>2, <2>3
<1>9. s \in Week(now, zone, offer.kind)
  BY <1>1, <1>5, <1>6, <1>7, <1>8, InSearched, WeekIsSearched
<1> QED BY <1>1, <1>9, FoundAmongFew DEF Bookable

(* The times the assistant offers can be booked while they are free, and   *)
(* its messages wait for the end of the quiet hours and no longer, for any *)
(* working hours, time zones and quiet hours that leave a week no more     *)
(* than 200 times (scheduling.py:136-171, quiet_hours.py:30-42).           *)
THEOREM TimesGiven == ASSUME FewTimes PROVE Spec => []TimesHold
<1>1. Init => TimesInv
  <2>1. ASSUME Init PROVE TimesInv
    <3>1. now = 0 /\ zone \in Zones /\ offer = [kind |-> "CALL", at |-> now, starts |-> {}]
      BY <2>1 DEF Init, TimesInit
    <3> QED BY <3>1 DEF TimesInv, Kinds
  <2> QED BY <2>1
<1>2. TimesInv /\ [Next]_vars => TimesInv'
  <2> SUFFICES ASSUME TimesInv, [Next]_vars PROVE TimesInv'
    OBVIOUS
  <2>1. CASE Wait
    <3>1. now' = now + 1 /\ zone' = zone /\ offer' = offer
      BY <2>1 DEF Wait
    <3> QED BY <3>1 DEF TimesInv
  <2>2. ASSUME NEW kind \in Kinds, check_availability(kind) PROVE TimesInv'
    <3>1. now' = now /\ zone' = zone
      BY <2>2 DEF check_availability
    <3>2. PICK answers \in BOOLEAN :
            offer' = [kind |-> kind, at |-> now,
                      starts |-> find_available_slots(now, zone, kind, 7, 6, Busy(taken, answers))]
      BY <2>2 DEF check_availability
    <3>3. find_available_slots(now, zone, kind, 7, 6, Busy(taken, answers)) \subseteq Week(now, zone, kind)
      <4>1. \A n, S : first(n, S) \subseteq S
        BY DEF first
      <4>2. \A s \in find_available_slots(now, zone, kind, 7, 6, Busy(taken, answers)) :
              s \in Searched(now, zone, kind, 7)
        BY <4>1 DEF find_available_slots, Searched
      <4> QED BY <4>2, WeekIsSearched
    <3>4. offer'.kind = kind /\ offer'.at = now /\ offer'.starts \subseteq Week(now, zone, kind)
      BY <3>2, <3>3
    <3> QED BY <3>1, <3>4 DEF TimesInv
  <2>3. ASSUME NEW kind \in Kinds, BookAnother(kind) PROVE TimesInv'
    BY <2>3 DEF BookAnother, TimesInv
  <2>4. CASE UNCHANGED times
    BY <2>4 DEF times, TimesInv
  <2> QED BY <2>1, <2>2, <2>3, <2>4 DEF Next, TimesNext, vars
<1>3. TimesInv => TimesHold
  <2> SUFFICES ASSUME TimesInv PROVE TimesHold
    OBVIOUS
  <2>1. OffersHold
    BY OffersKept
  <2>2. ASSUME NEW due \in {now, now + 12 * Hour}, NEW q \in Quiet
        PROVE  LET t == next_send_time(due, zone, q[1], q[2])
               IN /\ t >= due /\ ~is_quiet_hour(t, zone, q[1], q[2])
                  /\ \A m \in due..(t - 1) : is_quiet_hour(m, zone, q[1], q[2])
    <3>1. due \in Int /\ zone \in Int /\ q[1] \in 0..23 /\ q[2] \in 0..23
      BY SchedulingAssumption, ZonesAreOffsets DEF TimesInv
    <3> QED BY <3>1, SendTime
  <2> QED BY <2>1, <2>2 DEF TimesHold, NudgesWait
<1> QED BY <1>1, <1>2, <1>3, PTL DEF Spec
=============================================================================
