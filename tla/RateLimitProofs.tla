--------------------------- MODULE RateLimitProofs ---------------------------
(***************************************************************************)
(* For every window, limit, number of checks in flight and number of       *)
(* faults: a refusal always rests on a key that will expire, while Redis   *)
(* works it is earned by the events of one window, and no window's length  *)
(* admits more than two budgets. The last two rest on the age of the key   *)
(* (KeyYoung) and on the budgets of the keys before it (Burst).            *)
(***************************************************************************)
EXTENDS RateLimit, FiniteSetTheorems, TLAPS

(* What the arithmetic of the constants gives the steps below.             *)
LEMMA Windows == window \in Nat \ {0} /\ max_events \in Nat \ {0} /\ MaxFaults \in Nat /\ 0 \in Ages
BY RateLimitAssumption DEF Ages

(* The calls a check may make are the ones it has a program counter for.   *)
LEMMA NextCalls ==
  ASSUME NEW n \in Nat
  PROVE  AfterIncr(n) \in PCs /\ AfterTTL(n) \in PCs
BY DEF AfterIncr, AfterTTL, PCs

(***************************************************************************)
(* The variables keep their types, and only a key that exists has an       *)
(* expiry, of at most one window.                                          *)
(***************************************************************************)
THEOREM TypeCorrect == Spec => []TypeOK
<1>1. Init => TypeOK
  <2> SUFFICES ASSUME Init PROVE TypeOK
    OBVIOUS
  <2>1. recent \in [Ages -> Tally]
    BY DEF Init, Quiet, Tally
  <2>2. refused \in BOOLEAN
    BY Zenon DEF Init
  <2>3. count = 0 /\ ttl = 0 /\ faults = 0 /\ 0 \in 0..window /\ 0 \in 0..MaxFaults
    BY Windows DEF Init
  <2>4. caller \in [Callers -> PCs]
    BY DEF Init, PCs
  <2> QED
    BY <2>1, <2>2, <2>3, <2>4 DEF TypeOK
<1>2. TypeOK /\ [Next]_vars => TypeOK'
  <2> SUFFICES ASSUME TypeOK, [Next]_vars PROVE TypeOK'
    OBVIOUS
  <2> USE Windows
  <2>1. ASSUME NEW c \in Callers, Incr(c) PROVE TypeOK'
    <3>1. AfterIncr(count + 1) \in PCs
      BY NextCalls DEF TypeOK
    <3> DEFINE admitted == IF AfterIncr(count + 1) = "idle" THEN 1 ELSE 0
    <3>2. admitted \in Nat
      OBVIOUS
    <3>3. recent' = [recent EXCEPT ![0].counted = @ + 1, ![0].admitted = @ + admitted]
      BY <2>1 DEF Incr, Note
    <3> HIDE DEF admitted
    <3>4. recent' \in [Ages -> Tally]
      <4>1. recent[0] \in Tally
        BY DEF TypeOK
      <4>2. [recent[0] EXCEPT !.counted = @ + 1, !.admitted = @ + admitted] \in Tally
        <5>1. \A t \in Tally : [t EXCEPT !.counted = @ + 1] \in Tally
          BY DEF Tally
        <5>2. \A t \in Tally : [t EXCEPT !.admitted = @ + admitted] \in Tally
          BY <3>2 DEF Tally
        <5> QED
          BY <4>1, <5>1, <5>2
      <4>3. recent' = [recent EXCEPT ![0] = [recent[0] EXCEPT !.counted = @ + 1,
                                                              !.admitted = @ + admitted]]
        BY <3>3, <4>1 DEF TypeOK, Tally
      <4> QED
        BY <4>2, <4>3 DEF TypeOK
    <3> QED
      BY <2>1, <3>1, <3>4 DEF Incr, INCR, Goto, TypeOK
  <2>2. ASSUME NEW c \in Callers, SetExpiry(c) PROVE TypeOK'
    <3>1. recent' \in [Ages -> Tally]
      BY <2>2 DEF SetExpiry, Note, TypeOK, Tally
    <3> QED
      BY <2>2, <3>1 DEF SetExpiry, EXPIRE, Goto, TypeOK, PCs
  <2>3. ASSUME NEW c \in Callers, ReadTTL(c) PROVE TypeOK'
    <3>1. AfterTTL(ttl) \in PCs
      BY NextCalls DEF TypeOK
    <3> QED
      BY <2>3, <3>1 DEF ReadTTL, Goto, TypeOK
  <2>4. ASSUME NEW c \in Callers, Repair(c) PROVE TypeOK'
    BY <2>4 DEF Repair, Goto, TypeOK, PCs
  <2>5. ASSUME NEW c \in Callers, CallFails(c) PROVE TypeOK'
    <3>1. recent' \in [Ages -> Tally]
      BY <2>5 DEF CallFails, TypeOK, Tally
    <3>2. faults' \in 0..MaxFaults
      BY <2>5 DEF CallFails, Fault, TypeOK
    <3>3. /\ count' \in Nat /\ ttl' \in 0..window /\ (count' = 0 => ttl' = 0)
          /\ refused' \in BOOLEAN
      <4>1. CASE UNCHANGED <<count, ttl, refused>>
        BY <4>1 DEF TypeOK
      <4>2. CASE INCR
        BY <4>2 DEF INCR, TypeOK
      <4>3. CASE EXPIRE
        BY <4>3 DEF EXPIRE, TypeOK
      <4> QED
        BY <2>5, <4>1, <4>2, <4>3 DEF CallFails, Executes, At, TypeOK, PCs
    <3> QED
      BY <2>5, <3>1, <3>2, <3>3 DEF CallFails, Goto, TypeOK, PCs
  <2>6. ASSUME NEW c \in Callers, Dies(c) PROVE TypeOK'
    <3>1. recent' \in [Ages -> Tally]
      BY <2>6 DEF Dies, TypeOK, Tally
    <3> QED
      BY <2>6, <3>1 DEF Dies, Fault, Goto, TypeOK, PCs
  <2>7. CASE Reset
    <3>1. recent' \in [Ages -> Tally]
      BY <2>7 DEF Reset, TypeOK, Tally
    <3>2. refused' \in BOOLEAN
      BY <2>7, Zenon DEF Reset, DEL
    <3> QED
      BY <2>7, <3>1, <3>2 DEF Reset, DEL, TypeOK
  <2>8. CASE Tick
    <3>1. recent' \in [Ages -> Tally]
      BY <2>8 DEF Tick, TypeOK, Tally, Quiet, Ages
    <3>2. CASE Expires
      <4>1. DEL /\ UNCHANGED <<caller, faults>>
        BY <2>8, <3>2 DEF Tick
      <4>2. refused' \in BOOLEAN
        BY <4>1, Zenon DEF DEL
      <4> QED
        BY <3>1, <4>1, <4>2 DEF DEL, TypeOK
    <3>3. CASE ~Expires
      BY <2>8, <3>1, <3>3 DEF Tick, Expires, TypeOK
    <3> QED
      BY <3>2, <3>3
  <2>9. CASE UNCHANGED vars
    BY <2>9 DEF vars, TypeOK
  <2> QED
    BY <2>1, <2>2, <2>3, <2>4, <2>5, <2>6, <2>7, <2>8, <2>9 DEF Next, Step
<1> QED
  BY <1>1, <1>2, PTL DEF Spec

(***************************************************************************)
(* Whatever call an earlier check died at, failed at or is still to make,  *)
(* the key a check was refused against has an expiry (ratelimit.py:        *)
(* 98-104): the safety half of Readmitted.                                 *)
(***************************************************************************)
THEOREM RefusedKeyExpires == Spec => []RefusedEnds
<1>1. Init => RefusedEnds
  BY DEF Init, RefusedEnds
<1>2. TypeOK /\ RefusedEnds /\ [Next]_vars => RefusedEnds'
  <2> SUFFICES ASSUME TypeOK, RefusedEnds, [Next]_vars PROVE RefusedEnds'
    OBVIOUS
  <2> USE Windows DEF RefusedEnds
  <2>1. ASSUME NEW c \in Callers, Incr(c) PROVE RefusedEnds'
    BY <2>1 DEF Incr, INCR
  <2>2. ASSUME NEW c \in Callers, SetExpiry(c) PROVE RefusedEnds'
    BY <2>2 DEF SetExpiry, EXPIRE, TypeOK
  <2>3. ASSUME NEW c \in Callers, ReadTTL(c) PROVE RefusedEnds'
    BY <2>3 DEF ReadTTL, AfterTTL, TypeOK
  <2>4. ASSUME NEW c \in Callers, Repair(c) PROVE RefusedEnds'
    BY <2>4 DEF Repair, TypeOK
  <2>5. ASSUME NEW c \in Callers, CallFails(c) PROVE RefusedEnds'
    <3>1. CASE UNCHANGED <<count, ttl, refused>>
      BY <3>1
    <3>2. CASE INCR
      BY <3>2 DEF INCR
    <3>3. CASE EXPIRE
      BY <3>3 DEF EXPIRE, TypeOK
    <3> QED
      BY <2>5, <3>1, <3>2, <3>3 DEF CallFails, Executes, At, TypeOK, PCs
  <2>6. ASSUME NEW c \in Callers, Dies(c) PROVE RefusedEnds'
    BY <2>6 DEF Dies
  <2>7. CASE Reset
    BY <2>7 DEF Reset, DEL
  <2>8. CASE Tick
    <3>1. CASE Expires
      <4>1. ~refused'
        BY <2>8, <3>1, Zenon DEF Tick, DEL
      <4> QED
        BY <4>1, Zenon
    <3>2. CASE ~Expires
      <4>1. refused' = refused
        BY <2>8, <3>2, Zenon DEF Tick
      <4>2. refused => ttl > 0 /\ ttl # 1 /\ ttl \in Nat
        BY <3>2 DEF Expires, TypeOK
      <4>3. refused => ttl' = ttl - 1
        BY <2>8, <3>2, <4>2 DEF Tick
      <4> QED
        BY <4>1, <4>2, <4>3
    <3> QED
      BY <3>1, <3>2
  <2>9. CASE UNCHANGED vars
    BY <2>9 DEF vars
  <2> QED
    BY <2>1, <2>2, <2>3, <2>4, <2>5, <2>6, <2>7, <2>8, <2>9 DEF Next, Step
<1> QED
  BY <1>1, <1>2, TypeCorrect, PTL DEF Spec

-----------------------------------------------------------------------------
(* The sums the bounds are about: what the ticks of ages 0 to n saw.       *)
LEMMA SumFinite ==
  ASSUME NEW f \in [Ages -> Nat], NEW n \in Ages
  PROVE  /\ IsFiniteSet(Events(f, n)) /\ Sum(f, n) \in Nat
         /\ \A p : p \in Events(f, n) <=> \E a \in 0..n : \E k \in 1..f[a] : p = <<a, k>>
<1>0. n \in Nat /\ 0..n \subseteq Ages
  BY Windows DEF Ages
<1> DEFINE D == 0..n
           M == [a \in D |-> {a} \X (1..f[a])]
           T == {M[a] : a \in D}
<1>1. IsFiniteSet(D)
  <2>1. 0 \in Int /\ n \in Int
    BY <1>0
  <2> QED BY <2>1, FS_Interval
<1>2. IsFiniteSet(T)
  <2> HIDE DEF D
  <2>1. M \in Surjection(D, T)
    BY DEF Surjection
  <2> QED BY <1>1, <2>1, FS_Surjection
<1>3. ASSUME NEW a \in D PROVE IsFiniteSet({a} \X (1..f[a]))
  <2>1. f[a] \in Int /\ 1 \in Int
    BY <1>0
  <2>2. IsFiniteSet({a}) /\ IsFiniteSet(1..f[a])
    BY <2>1, FS_Singleton, FS_Interval
  <2> QED BY <2>2, FS_Product
<1>4. \A X \in T : IsFiniteSet(X)
  BY <1>3
<1>5. Events(f, n) = UNION T
  BY DEF Events
<1>6. IsFiniteSet(Events(f, n))
  <2> HIDE DEF T
  <2> QED BY <1>2, <1>4, <1>5, FS_UNION
<1>7. \A p : p \in Events(f, n) <=> \E a \in 0..n : \E k \in 1..f[a] : p = <<a, k>>
  BY DEF Events
<1> QED BY <1>6, <1>7, FS_CardinalityType DEF Sum

(* Ticks that have seen nothing.                                           *)
LEMMA SumQuiet ==
  ASSUME NEW f, NEW n \in Ages, \A a \in 0..n : f[a] = 0
  PROVE  Sum(f, n) = 0
<1>1. \A a \in 0..n : 1..f[a] = {}
  OBVIOUS
<1>2. Events(f, n) = {}
  BY <1>1 DEF Events
<1> QED BY <1>2, FS_EmptySet DEF Sum

(* Longer ago is more.                                                     *)
LEMMA SumGrows ==
  ASSUME NEW f \in [Ages -> Nat], NEW n \in Ages, NEW m \in Ages, n <= m
  PROVE  Sum(f, n) <= Sum(f, m)
<1>1. 0..n \subseteq 0..m
  BY Windows DEF Ages
<1>2. Events(f, n) \subseteq Events(f, m)
  BY <1>1 DEF Events
<1> QED BY <1>2, SumFinite, FS_Subset DEF Sum

(* The current tick sees one event more, or none.                          *)
LEMMA SumAdds ==
  ASSUME NEW f \in [Ages -> Nat], NEW g \in [Ages -> Nat], NEW d \in {0, 1}, NEW n \in Ages,
         g[0] = f[0] + d, \A a \in Ages : a # 0 => g[a] = f[a]
  PROVE  Sum(g, n) = Sum(f, n) + d
<1>0. n \in Nat /\ 0..n \subseteq Ages /\ f[0] \in Nat /\ 0 \in 0..n
  BY Windows DEF Ages
<1>1. CASE d = 0
  <2>1. \A a \in Ages : g[a] = f[a]
    BY <1>0, <1>1
  <2>2. Events(g, n) = Events(f, n)
    BY <1>0, <2>1 DEF Events
  <2> QED BY <1>1, <2>2, SumFinite DEF Sum
<1>2. CASE d = 1
  <2> DEFINE x == <<0, f[0] + 1>>
  <2>1. ASSUME NEW p PROVE p \in Events(g, n) <=> p \in Events(f, n) \cup {x}
    <3>1. ASSUME p \in Events(g, n) PROVE p \in Events(f, n) \cup {x}
      <4>1a. PICK a \in 0..n : \E k \in 1..g[a] : p = <<a, k>>
        BY <3>1, SumFinite
      <4>1. PICK k \in 1..g[a] : p = <<a, k>>
        BY <4>1a
      <4>2. CASE a = 0
        <5>1. k \in 1..f[0] \/ k = f[0] + 1
          BY <1>0, <1>2, <4>1, <4>2
        <5> QED BY <1>0, <4>1, <4>2, <5>1, SumFinite
      <4>3. CASE a # 0
        BY <1>0, <4>1, <4>3, SumFinite
      <4> QED BY <4>2, <4>3
    <3>2. ASSUME p \in Events(f, n) PROVE p \in Events(g, n)
      <4>1a. PICK a \in 0..n : \E k \in 1..f[a] : p = <<a, k>>
        BY <3>2, SumFinite
      <4>1. PICK k \in 1..f[a] : p = <<a, k>>
        BY <4>1a
      <4>2. k \in 1..g[a]
        <5>1. f[a] \in Nat /\ (g[a] = f[a] \/ g[a] = f[a] + 1)
          BY <1>0, <1>2
        <5> QED BY <5>1
      <4> QED BY <4>1, <4>2, SumFinite
    <3>3. x \in Events(g, n)
      <4>1. f[0] + 1 \in 1..g[0]
        BY <1>0, <1>2
      <4> QED BY <1>0, <4>1, SumFinite
    <3> QED BY <3>1, <3>2, <3>3
  <2>2. x \notin Events(f, n)
    <3> SUFFICES ASSUME NEW a \in 0..n, NEW k \in 1..f[a], x = <<a, k>> PROVE FALSE
      BY SumFinite
    <3>1. a = 0 /\ k = f[0] + 1
      OBVIOUS
    <3> QED BY <1>0, <3>1
  <2> HIDE DEF x
  <2>3. Events(g, n) = Events(f, n) \cup {x}
    BY <2>1
  <2>4. Cardinality(Events(f, n) \cup {x}) = Cardinality(Events(f, n)) + 1
    BY <2>2, SumFinite, FS_AddElement
  <2> QED BY <1>2, <2>3, <2>4 DEF Sum
<1> QED BY <1>1, <1>2

(* A tick passes.                                                          *)
LEMMA SumShifts ==
  ASSUME NEW f \in [Ages -> Nat], NEW g \in [Ages -> Nat], NEW n \in Ages \ {0},
         g[0] = 0, \A a \in Ages \ {0} : g[a] = f[a - 1]
  PROVE  Sum(g, n) = Sum(f, n - 1)
<1>0. /\ n \in Nat /\ n >= 1 /\ n - 1 \in Ages /\ 0..n \subseteq Ages /\ 0..(n - 1) \subseteq Ages
      /\ \A a \in 0..(n - 1) : a \in Nat /\ a + 1 \in 0..n /\ a + 1 # 0
      /\ \A a \in 0..n : a # 0 => a - 1 \in 0..(n - 1) /\ (a - 1) + 1 = a
  BY Windows DEF Ages
<1> DEFINE S == Events(f, n - 1)
           T == Events(g, n)
           h == [p \in S |-> <<p[1] + 1, p[2]>>]
<1>s. \A p : p \in S <=> \E a \in 0..(n - 1) : \E k \in 1..f[a] : p = <<a, k>>
  BY <1>0, SumFinite
<1>t. \A p : p \in T <=> \E a \in 0..n : \E k \in 1..g[a] : p = <<a, k>>
  BY <1>0, SumFinite
<1>f. IsFiniteSet(S)
  BY <1>0, SumFinite
<1> HIDE DEF S, T
<1>1. ASSUME NEW p \in S PROVE h[p] \in T
  <2>1a. PICK a \in 0..(n - 1) : \E k \in 1..f[a] : p = <<a, k>>
    BY <1>s
  <2>1. PICK k \in 1..f[a] : p = <<a, k>>
    BY <2>1a
  <2>2. a + 1 \in 0..n /\ g[a + 1] = f[a]
    <3>1. a + 1 \in Ages \ {0} /\ (a + 1) - 1 = a
      BY <1>0
    <3> QED BY <1>0, <3>1
  <2>3. h[p] = <<a + 1, k>>
    BY <2>1
  <2> QED BY <1>t, <2>2, <2>3
<1>2. ASSUME NEW p \in S, NEW q \in S, h[p] = h[q] PROVE p = q
  <2>1a. PICK a \in 0..(n - 1) : \E k \in 1..f[a] : p = <<a, k>>
    BY <1>s
  <2>1. PICK k \in 1..f[a] : p = <<a, k>>
    BY <2>1a
  <2>2a. PICK b \in 0..(n - 1) : \E j \in 1..f[b] : q = <<b, j>>
    BY <1>s
  <2>2. PICK j \in 1..f[b] : q = <<b, j>>
    BY <2>2a
  <2>3. a + 1 = b + 1 /\ k = j
    BY <1>2, <2>1, <2>2
  <2> QED BY <1>0, <2>1, <2>2, <2>3
<1>3. ASSUME NEW q \in T PROVE \E p \in S : h[p] = q
  <2>1a. PICK a \in 0..n : \E k \in 1..g[a] : q = <<a, k>>
    BY <1>t
  <2>1. PICK k \in 1..g[a] : q = <<a, k>>
    BY <2>1a
  <2>2. a # 0
    BY <2>1
  <2>3. a \in Ages \ {0} /\ g[a] = f[a - 1] /\ a - 1 \in 0..(n - 1) /\ (a - 1) + 1 = a
    BY <1>0, <2>2
  <2>4. <<a - 1, k>> \in S
    BY <1>s, <2>1, <2>3
  <2>5. h[<<a - 1, k>>] = q
    BY <2>1, <2>3, <2>4
  <2> QED BY <2>4, <2>5
<1>4. h \in [S -> T]
  BY <1>1
<1> HIDE DEF h
<1>5. h \in Bijection(S, T)
  BY <1>2, <1>3, <1>4 DEF Bijection, Injection, IsInjective, Surjection
<1>6. ExistsBijection(S, T)
  BY <1>5 DEF ExistsBijection
<1>7. Cardinality(T) = Cardinality(S)
  BY <1>f, <1>6, FS_Bijection
<1> QED BY <1>7 DEF Sum, S, T

-----------------------------------------------------------------------------
(* The four notes of a tick, and what a step adds to the sums of them.     *)
LEMMA SumsTyped ==
  ASSUME TypeOK, NEW n \in Ages
  PROVE  CountedUpTo(n) \in Nat /\ AdmittedUpTo(n) \in Nat /\ FaultsUpTo(n) \in Nat /\ ResetsUpTo(n) \in Nat
<1>1. /\ [a \in Ages |-> recent[a].counted] \in [Ages -> Nat]
      /\ [a \in Ages |-> recent[a].admitted] \in [Ages -> Nat]
      /\ [a \in Ages |-> recent[a].faults] \in [Ages -> Nat]
      /\ [a \in Ages |-> recent[a].resets] \in [Ages -> Nat]
  BY DEF TypeOK, Tally
<1> QED BY <1>1, SumFinite DEF CountedUpTo, AdmittedUpTo, FaultsUpTo, ResetsUpTo

LEMMA SumsAdd ==
  ASSUME TypeOK, TypeOK', NEW n \in Ages,
         NEW dc \in {0, 1}, NEW da \in {0, 1}, NEW df \in {0, 1}, NEW dr \in {0, 1},
         \A a \in Ages : a # 0 => recent'[a] = recent[a],
         recent'[0].counted = recent[0].counted + dc,
         recent'[0].admitted = recent[0].admitted + da,
         recent'[0].faults = recent[0].faults + df,
         recent'[0].resets = recent[0].resets + dr
  PROVE  /\ CountedUpTo(n)' = CountedUpTo(n) + dc
         /\ AdmittedUpTo(n)' = AdmittedUpTo(n) + da
         /\ FaultsUpTo(n)' = FaultsUpTo(n) + df
         /\ ResetsUpTo(n)' = ResetsUpTo(n) + dr
<1> USE Windows
<1>1. CountedUpTo(n)' = CountedUpTo(n) + dc
  <2> DEFINE f == [a \in Ages |-> recent[a].counted]
             g == [a \in Ages |-> recent'[a].counted]
  <2>1. f \in [Ages -> Nat] /\ g \in [Ages -> Nat]
    BY DEF TypeOK, Tally
  <2>2. g[0] = f[0] + dc /\ \A a \in Ages : a # 0 => g[a] = f[a]
    OBVIOUS
  <2>3. CountedUpTo(n)' = Sum(g, n) /\ CountedUpTo(n) = Sum(f, n)
    BY DEF CountedUpTo
  <2> HIDE DEF f, g
  <2> QED BY <2>1, <2>2, <2>3, SumAdds
<1>2. AdmittedUpTo(n)' = AdmittedUpTo(n) + da
  <2> DEFINE f == [a \in Ages |-> recent[a].admitted]
             g == [a \in Ages |-> recent'[a].admitted]
  <2>1. f \in [Ages -> Nat] /\ g \in [Ages -> Nat]
    BY DEF TypeOK, Tally
  <2>2. g[0] = f[0] + da /\ \A a \in Ages : a # 0 => g[a] = f[a]
    OBVIOUS
  <2>3. AdmittedUpTo(n)' = Sum(g, n) /\ AdmittedUpTo(n) = Sum(f, n)
    BY DEF AdmittedUpTo
  <2> HIDE DEF f, g
  <2> QED BY <2>1, <2>2, <2>3, SumAdds
<1>3. FaultsUpTo(n)' = FaultsUpTo(n) + df
  <2> DEFINE f == [a \in Ages |-> recent[a].faults]
             g == [a \in Ages |-> recent'[a].faults]
  <2>1. f \in [Ages -> Nat] /\ g \in [Ages -> Nat]
    BY DEF TypeOK, Tally
  <2>2. g[0] = f[0] + df /\ \A a \in Ages : a # 0 => g[a] = f[a]
    OBVIOUS
  <2>3. FaultsUpTo(n)' = Sum(g, n) /\ FaultsUpTo(n) = Sum(f, n)
    BY DEF FaultsUpTo
  <2> HIDE DEF f, g
  <2> QED BY <2>1, <2>2, <2>3, SumAdds
<1>4. ResetsUpTo(n)' = ResetsUpTo(n) + dr
  <2> DEFINE f == [a \in Ages |-> recent[a].resets]
             g == [a \in Ages |-> recent'[a].resets]
  <2>1. f \in [Ages -> Nat] /\ g \in [Ages -> Nat]
    BY DEF TypeOK, Tally
  <2>2. g[0] = f[0] + dr /\ \A a \in Ages : a # 0 => g[a] = f[a]
    OBVIOUS
  <2>3. ResetsUpTo(n)' = Sum(g, n) /\ ResetsUpTo(n) = Sum(f, n)
    BY DEF ResetsUpTo
  <2> HIDE DEF f, g
  <2> QED BY <2>1, <2>2, <2>3, SumAdds
<1> QED BY <1>1, <1>2, <1>3, <1>4

(* When a tick passes, the sums move one age up and begin again at zero.   *)
LEMMA SumsShift ==
  ASSUME TypeOK, TypeOK', Tick
  PROVE  /\ CountedUpTo(0)' = 0 /\ AdmittedUpTo(0)' = 0 /\ FaultsUpTo(0)' = 0 /\ ResetsUpTo(0)' = 0
         /\ \A n \in Ages \ {0} :
              /\ n - 1 \in Ages
              /\ CountedUpTo(n)' = CountedUpTo(n - 1)
              /\ AdmittedUpTo(n)' = AdmittedUpTo(n - 1)
              /\ FaultsUpTo(n)' = FaultsUpTo(n - 1)
              /\ ResetsUpTo(n)' = ResetsUpTo(n - 1)
<1> DEFINE Moved(f, g) == /\ f \in [Ages -> Nat] /\ g \in [Ages -> Nat]
                          /\ g[0] = 0 /\ \A a \in Ages \ {0} : g[a] = f[a - 1]
<1>0. /\ \A a \in Ages \ {0} : a - 1 \in Ages /\ recent'[a] = recent[a - 1]
      /\ recent'[0] = Quiet
      /\ recent \in [Ages -> Tally] /\ recent' \in [Ages -> Tally]
  BY Windows DEF Tick, TypeOK, Ages
<1>1. ASSUME NEW f, NEW g, Moved(f, g)
      PROVE  Sum(g, 0) = 0 /\ \A n \in Ages \ {0} : Sum(g, n) = Sum(f, n - 1)
  <2>1. \A a \in 0..0 : g[a] = 0
    BY <1>1
  <2>2. Sum(g, 0) = 0
    BY <2>1, Windows, SumQuiet
  <2> QED BY <1>1, <2>2, SumShifts
<1>2. Moved([a \in Ages |-> recent[a].counted], [a \in Ages |-> recent'[a].counted])
  BY <1>0, Windows DEF Tally, Quiet
<1>3. Moved([a \in Ages |-> recent[a].admitted], [a \in Ages |-> recent'[a].admitted])
  BY <1>0, Windows DEF Tally, Quiet
<1>4. Moved([a \in Ages |-> recent[a].faults], [a \in Ages |-> recent'[a].faults])
  BY <1>0, Windows DEF Tally, Quiet
<1>5. Moved([a \in Ages |-> recent[a].resets], [a \in Ages |-> recent'[a].resets])
  BY <1>0, Windows DEF Tally, Quiet
<1> HIDE DEF Moved
<1>6. CountedUpTo(0)' = 0 /\ \A n \in Ages \ {0} : CountedUpTo(n)' = CountedUpTo(n - 1)
  BY <1>1, <1>2 DEF CountedUpTo
<1>7. AdmittedUpTo(0)' = 0 /\ \A n \in Ages \ {0} : AdmittedUpTo(n)' = AdmittedUpTo(n - 1)
  BY <1>1, <1>3 DEF AdmittedUpTo
<1>8. FaultsUpTo(0)' = 0 /\ \A n \in Ages \ {0} : FaultsUpTo(n)' = FaultsUpTo(n - 1)
  BY <1>1, <1>4 DEF FaultsUpTo
<1>9. ResetsUpTo(0)' = 0 /\ \A n \in Ages \ {0} : ResetsUpTo(n)' = ResetsUpTo(n - 1)
  BY <1>1, <1>5 DEF ResetsUpTo
<1> QED BY <1>0, <1>6, <1>7, <1>8, <1>9

-----------------------------------------------------------------------------
(* The age of the key against the events it counted. While Redis works, a  *)
(* key was created no longer ago than its expiry tells, by an event whose  *)
(* check still owes the EXPIRE of a key without one, and a check that owes *)
(* a key its expiry sent all its calls in the current tick.                *)
Young == (\E c \in Callers : At(c, "expire") \/ At(c, "repair")) => count <= CountedUpTo(0)
Owed == count > 0 /\ ttl = 0 => \E c \in Callers : At(c, "expire")
Aged == ttl > 0 => count <= CountedUpTo(window - ttl)
KeyYoung == faults = 0 => Young /\ Owed /\ Aged

(* The age of a key with an expiry is one of the ages the notes go back.   *)
LEMMA KeyAge ==
  ASSUME TypeOK, ttl > 0
  PROVE  window - ttl \in Ages
BY Windows DEF TypeOK, Ages

(* A step that gives the key at most as many events as it notes.           *)
LEMMA StaysYoung ==
  ASSUME TypeOK, TypeOK', NEW dc \in {0, 1}, count' <= count + dc,
         \A n \in Ages : CountedUpTo(n)' = CountedUpTo(n) + dc
  PROVE  /\ count <= CountedUpTo(0) => count' <= CountedUpTo(0)'
         /\ ttl' = ttl /\ Aged => Aged'
         /\ ttl' = window /\ count <= CountedUpTo(0) => Aged'
<1> USE Windows
<1>1. \A n \in Ages : count <= CountedUpTo(n) => count' <= CountedUpTo(n)'
  <2> SUFFICES ASSUME NEW n \in Ages, count <= CountedUpTo(n) PROVE count' <= CountedUpTo(n)'
    OBVIOUS
  <2>1. CountedUpTo(n) \in Nat /\ count \in Nat /\ count' \in Nat
    BY SumsTyped DEF TypeOK
  <2> HIDE DEF TypeOK
  <2> QED BY <2>1
<1>2. ASSUME ttl' = ttl, Aged PROVE Aged'
  <2> SUFFICES ASSUME ttl' > 0 PROVE count' <= CountedUpTo(window - ttl)'
    BY <1>2 DEF Aged
  <2>1. window - ttl \in Ages /\ count <= CountedUpTo(window - ttl)
    BY <1>2, KeyAge DEF Aged
  <2>2. PICK n \in Ages : n = window - ttl /\ n = window - ttl' /\ count <= CountedUpTo(n)
    BY <1>2, <2>1
  <2> QED BY <1>1, <2>1, <1>2 DEF CountedUpTo
<1>3. ASSUME ttl' = window, count <= CountedUpTo(0) PROVE Aged'
  <2>1. count' <= CountedUpTo(0)'
    BY <1>1, <1>3
  <2>2. window - ttl' = 0
    BY <1>3
  <2> QED BY <2>1, <2>2 DEF Aged, CountedUpTo
<1> QED BY <1>1, <1>2, <1>3

(* A step that notes nothing.                                              *)
LEMMA SumsStay ==
  ASSUME UNCHANGED recent
  PROVE  \A n \in Ages : /\ CountedUpTo(n)' = CountedUpTo(n) /\ AdmittedUpTo(n)' = AdmittedUpTo(n)
                         /\ FaultsUpTo(n)' = FaultsUpTo(n) /\ ResetsUpTo(n)' = ResetsUpTo(n)
BY DEF CountedUpTo, AdmittedUpTo, FaultsUpTo, ResetsUpTo

(* What an Incr, a Reset and a fault note.                                 *)
LEMMA IncrNotes ==
  ASSUME TypeOK, TypeOK', NEW c \in Callers, Incr(c)
  PROVE  \A n \in Ages :
           /\ CountedUpTo(n)' = CountedUpTo(n) + 1
           /\ AdmittedUpTo(n)' = AdmittedUpTo(n) + (IF AfterIncr(count + 1) = "idle" THEN 1 ELSE 0)
           /\ FaultsUpTo(n)' = FaultsUpTo(n) /\ ResetsUpTo(n)' = ResetsUpTo(n)
<1> DEFINE admitted == IF AfterIncr(count + 1) = "idle" THEN 1 ELSE 0
<1>1. admitted \in {0, 1}
  OBVIOUS
<1>2. recent' = [recent EXCEPT ![0].counted = @ + 1, ![0].admitted = @ + admitted]
  BY DEF Incr, Note
<1> HIDE DEF admitted
<1>3. /\ recent \in [Ages -> Tally] /\ recent[0] \in Tally /\ 0 \in Ages
      /\ \A t \in Tally : t.counted \in Nat /\ t.admitted \in Nat /\ t.faults \in Nat /\ t.resets \in Nat
  BY Windows DEF TypeOK, Tally
<1>4. /\ \A a \in Ages : a # 0 => recent'[a] = recent[a]
      /\ recent'[0].counted = recent[0].counted + 1
      /\ recent'[0].admitted = recent[0].admitted + admitted
      /\ recent'[0].faults = recent[0].faults
      /\ recent'[0].resets = recent[0].resets
  BY <1>2, <1>3 DEF Tally
<1> SUFFICES ASSUME NEW n \in Ages
             PROVE  /\ CountedUpTo(n)' = CountedUpTo(n) + 1
                    /\ AdmittedUpTo(n)' = AdmittedUpTo(n) + admitted
                    /\ FaultsUpTo(n)' = FaultsUpTo(n) /\ ResetsUpTo(n)' = ResetsUpTo(n)
  BY DEF admitted
<1>5. recent'[0].faults = recent[0].faults + 0 /\ recent'[0].resets = recent[0].resets + 0
  BY <1>3, <1>4
<1>6. /\ CountedUpTo(n)' = CountedUpTo(n) + 1 /\ AdmittedUpTo(n)' = AdmittedUpTo(n) + admitted
      /\ FaultsUpTo(n)' = FaultsUpTo(n) + 0 /\ ResetsUpTo(n)' = ResetsUpTo(n) + 0
  BY <1>1, <1>4, <1>5, SumsAdd
<1> QED BY <1>6, SumsTyped

LEMMA SetExpiryNotes ==
  ASSUME TypeOK, TypeOK', NEW c \in Callers, SetExpiry(c)
  PROVE  \A n \in Ages :
           /\ CountedUpTo(n)' = CountedUpTo(n) /\ AdmittedUpTo(n)' = AdmittedUpTo(n) + 1
           /\ FaultsUpTo(n)' = FaultsUpTo(n) /\ ResetsUpTo(n)' = ResetsUpTo(n)
<1>2. recent' = [recent EXCEPT ![0].counted = @ + 0, ![0].admitted = @ + 1]
  BY DEF SetExpiry, Note
<1>3. /\ recent \in [Ages -> Tally] /\ recent[0] \in Tally /\ 0 \in Ages
      /\ \A t \in Tally : t.counted \in Nat /\ t.admitted \in Nat /\ t.faults \in Nat /\ t.resets \in Nat
  BY Windows DEF TypeOK, Tally
<1>4. /\ \A a \in Ages : a # 0 => recent'[a] = recent[a]
      /\ recent'[0].counted = recent[0].counted + 0
      /\ recent'[0].admitted = recent[0].admitted + 1
      /\ recent'[0].faults = recent[0].faults + 0
      /\ recent'[0].resets = recent[0].resets + 0
  BY <1>2, <1>3 DEF Tally
<1> SUFFICES ASSUME NEW n \in Ages
             PROVE  /\ CountedUpTo(n)' = CountedUpTo(n) /\ AdmittedUpTo(n)' = AdmittedUpTo(n) + 1
                    /\ FaultsUpTo(n)' = FaultsUpTo(n) /\ ResetsUpTo(n)' = ResetsUpTo(n)
  OBVIOUS
<1>6. /\ CountedUpTo(n)' = CountedUpTo(n) + 0 /\ AdmittedUpTo(n)' = AdmittedUpTo(n) + 1
      /\ FaultsUpTo(n)' = FaultsUpTo(n) + 0 /\ ResetsUpTo(n)' = ResetsUpTo(n) + 0
  BY <1>4, SumsAdd
<1> QED BY <1>6, SumsTyped

LEMMA ResetNotes ==
  ASSUME TypeOK, TypeOK', Reset
  PROVE  \A n \in Ages :
           /\ CountedUpTo(n)' = CountedUpTo(n) /\ AdmittedUpTo(n)' = AdmittedUpTo(n)
           /\ FaultsUpTo(n)' = FaultsUpTo(n) /\ ResetsUpTo(n)' = ResetsUpTo(n) + 1
<1>2. recent' = [recent EXCEPT ![0].resets = @ + 1]
  BY DEF Reset
<1>3. /\ recent \in [Ages -> Tally] /\ recent[0] \in Tally /\ 0 \in Ages
      /\ \A t \in Tally : t.counted \in Nat /\ t.admitted \in Nat /\ t.faults \in Nat /\ t.resets \in Nat
  BY Windows DEF TypeOK, Tally
<1>4. /\ \A a \in Ages : a # 0 => recent'[a] = recent[a]
      /\ recent'[0].counted = recent[0].counted + 0
      /\ recent'[0].admitted = recent[0].admitted + 0
      /\ recent'[0].faults = recent[0].faults + 0
      /\ recent'[0].resets = recent[0].resets + 1
  BY <1>2, <1>3 DEF Tally
<1> SUFFICES ASSUME NEW n \in Ages
             PROVE  /\ CountedUpTo(n)' = CountedUpTo(n) /\ AdmittedUpTo(n)' = AdmittedUpTo(n)
                    /\ FaultsUpTo(n)' = FaultsUpTo(n) /\ ResetsUpTo(n)' = ResetsUpTo(n) + 1
  OBVIOUS
<1>6. /\ CountedUpTo(n)' = CountedUpTo(n) + 0 /\ AdmittedUpTo(n)' = AdmittedUpTo(n) + 0
      /\ FaultsUpTo(n)' = FaultsUpTo(n) + 0 /\ ResetsUpTo(n)' = ResetsUpTo(n) + 1
  BY <1>4, SumsAdd
<1> QED BY <1>6, SumsTyped

(* A failed call admits its event and is a fault, a death is a fault only. *)
LEMMA FaultNotes ==
  ASSUME TypeOK, TypeOK', NEW c \in Callers, CallFails(c) \/ Dies(c)
  PROVE  \A n \in Ages :
           /\ AdmittedUpTo(n)' = AdmittedUpTo(n) + 1
                \/ AdmittedUpTo(n)' = AdmittedUpTo(n)
           /\ FaultsUpTo(n)' = FaultsUpTo(n) + 1 /\ ResetsUpTo(n)' = ResetsUpTo(n)
<1>3. /\ recent \in [Ages -> Tally] /\ recent[0] \in Tally /\ 0 \in Ages
      /\ \A t \in Tally : t.counted \in Nat /\ t.admitted \in Nat /\ t.faults \in Nat /\ t.resets \in Nat
  BY Windows DEF TypeOK, Tally
<1>4. PICK dc \in {0, 1}, da \in {0, 1} :
        /\ \A a \in Ages : a # 0 => recent'[a] = recent[a]
        /\ recent'[0].counted = recent[0].counted + dc
        /\ recent'[0].admitted = recent[0].admitted + da
        /\ recent'[0].faults = recent[0].faults + 1
        /\ recent'[0].resets = recent[0].resets + 0
  <2>1. CASE CallFails(c)
    <3> DEFINE dc == IF At(c, "idle") THEN 1 ELSE 0
    <3>1. recent' = [recent EXCEPT ![0].counted = @ + dc, ![0].admitted = @ + 1, ![0].faults = @ + 1]
      BY <2>1 DEF CallFails
    <3>2. dc \in {0, 1}
      OBVIOUS
    <3> HIDE DEF dc
    <3> QED BY <1>3, <3>1, <3>2 DEF Tally
  <2>2. CASE Dies(c)
    <3>1. recent' = [recent EXCEPT ![0].faults = @ + 1]
      BY <2>2 DEF Dies
    <3> QED BY <1>3, <3>1 DEF Tally
  <2> QED BY <2>1, <2>2
<1> SUFFICES ASSUME NEW n \in Ages
             PROVE  /\ AdmittedUpTo(n)' = AdmittedUpTo(n) + 1 \/ AdmittedUpTo(n)' = AdmittedUpTo(n)
                    /\ FaultsUpTo(n)' = FaultsUpTo(n) + 1 /\ ResetsUpTo(n)' = ResetsUpTo(n)
  OBVIOUS
<1>6. /\ AdmittedUpTo(n)' = AdmittedUpTo(n) + da
      /\ FaultsUpTo(n)' = FaultsUpTo(n) + 1 /\ ResetsUpTo(n)' = ResetsUpTo(n) + 0
  BY <1>4, SumsAdd
<1> QED BY <1>6, SumsTyped

(***************************************************************************)
(* While Redis works, a subject is refused only after more than max_events *)
(* of its events within one window, however checks, resets and the expiry  *)
(* of the key fall between one another (ratelimit.py:87-106).              *)
(***************************************************************************)
THEOREM RefusalsEarned == Spec => []RefusalEarned
<1>1. Init => KeyYoung
  <2> SUFFICES ASSUME Init PROVE Young /\ Owed /\ Aged
    BY DEF KeyYoung
  <2>1. count = 0 /\ ttl = 0 /\ \A c \in Callers : ~At(c, "expire") /\ ~At(c, "repair")
    BY DEF Init, At
  <2> QED BY <2>1 DEF Young, Owed, Aged
<1>2. TypeOK /\ TypeOK' /\ KeyYoung /\ [Next]_vars => KeyYoung'
  <2> SUFFICES ASSUME TypeOK, TypeOK', KeyYoung, [Next]_vars, faults' = 0
               PROVE  Young' /\ Owed' /\ Aged'
    BY DEF KeyYoung
  <2> USE Windows
  <2>0. faults \in Nat /\ count \in Nat /\ count' \in Nat /\ ttl \in Nat /\ ttl' \in Nat /\ (count = 0 => ttl = 0)
    BY DEF TypeOK
  <2>y. ASSUME faults = 0 PROVE Young /\ Owed /\ Aged
    BY <2>y DEF KeyYoung
  <2>e. \A c, d \in Callers : \A pc : Goto(c, pc) /\ d # c => caller'[d] = caller[d]
    BY DEF TypeOK, Goto
  <2>c. \A c \in Callers : \A pc : Goto(c, pc) => caller'[c] = pc
    BY DEF TypeOK, Goto
  <2>1. ASSUME NEW c \in Callers, Incr(c) PROVE Young' /\ Owed' /\ Aged'
    <3>1. /\ caller[c] = "idle" /\ count' = count + 1 /\ ttl' = ttl /\ faults = 0
          /\ Goto(c, AfterIncr(count + 1))
      BY <2>1 DEF Incr, INCR, At
    <3>2. Young /\ Owed /\ Aged
      BY <2>y, <3>1
    <3>3. \A n \in Ages : CountedUpTo(n)' = CountedUpTo(n) + 1
      BY <2>1, IncrNotes
    <3>4. /\ count <= CountedUpTo(0) => count' <= CountedUpTo(0)'
          /\ Aged'
      BY <3>1, <3>2, <3>3, <2>0, StaysYoung
    <3>5. CASE count = 0
      <4>1. caller'[c] = "expire"
        BY <2>c, <3>1, <3>5 DEF AfterIncr
      <4>2. count <= CountedUpTo(0)
        BY <3>5, SumsTyped
      <4> QED BY <3>4, <4>1, <4>2 DEF Young, Owed, At
    <3>6. CASE count # 0
      <4>1. caller'[c] \in {"idle", "ttl"}
        BY <2>0, <2>c, <3>1, <3>6 DEF AfterIncr
      <4>2. \A d \in Callers : caller'[d] \in {"expire", "repair"} => d # c /\ caller'[d] = caller[d]
        BY <2>e, <3>1, <4>1
      <4>3. Young'
        BY <3>2, <3>4, <4>2 DEF Young, At
      <4>4. Owed'
        <5>1. \A d \in Callers : caller[d] = "expire" => caller'[d] = "expire"
          BY <2>e, <3>1
        <5>2. count > 0
          BY <2>0, <3>6
        <5> QED BY <3>1, <3>2, <5>1, <5>2 DEF Owed, At
      <4> QED BY <3>4, <4>3, <4>4
    <3> QED BY <3>5, <3>6
  <2>2. ASSUME NEW c \in Callers, SetExpiry(c) \/ Repair(c) PROVE Young' /\ Owed' /\ Aged'
    <3>1. /\ caller[c] \in {"expire", "repair"} /\ count' = count /\ faults = 0
          /\ ttl' = (IF count = 0 THEN 0 ELSE window)
      BY <2>2 DEF SetExpiry, EXPIRE, Repair, At
    <3>2. Young /\ Owed /\ Aged
      BY <2>y, <3>1
    <3>3. count <= CountedUpTo(0)
      BY <3>1, <3>2 DEF Young, At
    <3>4. \A n \in Ages : CountedUpTo(n)' = CountedUpTo(n) /\ CountedUpTo(n) \in Nat
      <4>1. CASE SetExpiry(c)
        BY <4>1, SetExpiryNotes, SumsTyped
      <4>2. CASE Repair(c)
        BY <4>2, SumsStay, SumsTyped DEF Repair
      <4> QED BY <2>2, <4>1, <4>2
    <3>5. count' <= CountedUpTo(0)' /\ (ttl' = window => Aged')
      <4>1. \A n \in Ages : CountedUpTo(n)' = CountedUpTo(n) + 0
        BY <3>4
      <4>2. count' <= count + 0
        BY <2>0, <3>1
      <4> QED BY <3>3, <4>1, <4>2, StaysYoung
    <3>6. Aged'
      BY <3>1, <3>5 DEF Aged
    <3> QED BY <2>0, <3>1, <3>5, <3>6 DEF Young, Owed
  <2>3. ASSUME NEW c \in Callers, ReadTTL(c) PROVE Young' /\ Owed' /\ Aged'
    <3>1. /\ caller[c] = "ttl" /\ UNCHANGED <<count, ttl, recent, faults>> /\ faults = 0
          /\ Goto(c, AfterTTL(ttl))
      BY <2>3 DEF ReadTTL, At
    <3>2. Young /\ Owed /\ Aged
      BY <2>y, <3>1
    <3>3. CountedUpTo(0)' = CountedUpTo(0)
      BY <3>1, SumsStay
    <3>4. Aged'
      <4>1. \A n \in Ages : CountedUpTo(n)' = CountedUpTo(n) + 0
        BY <3>1, SumsStay, SumsTyped
      <4>2. count' <= count + 0
        BY <2>0, <3>1
      <4> QED BY <3>1, <3>2, <4>1, <4>2, StaysYoung
    <3>5. \A d \in Callers : caller[d] = "expire" <=> caller'[d] = "expire"
      BY <2>c, <2>e, <3>1 DEF AfterTTL
    <3>6. Owed'
      BY <3>1, <3>2, <3>5 DEF Owed, At
    <3>7. Young'
      <4> SUFFICES ASSUME NEW d \in Callers, caller'[d] \in {"expire", "repair"}
                   PROVE  count <= CountedUpTo(0)
        BY <3>1, <3>3 DEF Young, At
      <4>1. CASE d # c
        BY <2>e, <3>1, <3>2, <4>1 DEF Young, At
      <4>2. CASE d = c
        <5>1. ttl = 0
          BY <2>0, <2>c, <3>1, <4>2 DEF AfterTTL
        <5>2. CASE count = 0
          BY <5>2, SumsTyped
        <5>3. CASE count # 0
          <6>1. \E b \in Callers : At(b, "expire")
            BY <2>0, <3>2, <5>1, <5>3 DEF Owed
          <6> QED BY <3>2, <6>1 DEF Young
        <5> QED BY <5>2, <5>3
      <4> QED BY <4>1, <4>2
    <3> QED BY <3>4, <3>6, <3>7
  <2>4. ASSUME NEW c \in Callers, CallFails(c) \/ Dies(c) PROVE FALSE
    BY <2>0, <2>4 DEF CallFails, Dies, Fault
  <2>5. CASE Reset
    <3>1. count' = 0 /\ ttl' = 0
      BY <2>5 DEF Reset, DEL
    <3>2. CountedUpTo(0)' \in Nat
      BY <2>5, ResetNotes, SumsTyped
    <3> QED BY <3>1, <3>2 DEF Young, Owed, Aged
  <2>6. CASE Tick
    <3>1. /\ caller' = caller /\ faults = 0
          /\ \A c \in Callers : ~At(c, "expire") /\ ~At(c, "repair")
      BY <2>6 DEF Tick
    <3>2. Young /\ Owed /\ Aged
      BY <2>y, <3>1
    <3>3. Young'
      BY <3>1 DEF Young, At
    <3>4. CASE Expires
      <4>1. count' = 0 /\ ttl' = 0
        BY <2>6, <3>4 DEF Tick, DEL
      <4> QED BY <3>3, <4>1 DEF Owed, Aged
    <3>5. CASE ~Expires
      <4>1. count' = count /\ ttl' = (IF ttl = 0 THEN 0 ELSE ttl - 1) /\ ttl # 1
        BY <2>6, <3>5 DEF Tick, Expires
      <4>2. CASE ttl = 0
        <5>1. count = 0
          BY <2>0, <3>1, <3>2, <4>2 DEF Owed
        <5> QED BY <3>3, <4>1, <4>2, <5>1 DEF Owed, Aged
      <4>3. CASE ttl # 0
        <5>1. ttl > 0 /\ ttl' > 0 /\ window - ttl' # 0 /\ (window - ttl') - 1 = window - ttl
          BY <2>0, <4>1, <4>3 DEF TypeOK
        <5>2. PICK n \in Ages : n = window - ttl'
          <6>1. ttl' \in 0..window
            BY DEF TypeOK
          <6>2. \A w \in Nat : \A t \in 0..w : t > 0 => w - t \in 0..(w - 1)
            OBVIOUS
          <6>3. window - ttl' \in Ages
            BY <5>1, <6>1, <6>2, Zenon DEF Ages
          <6> QED BY <6>3
        <5>3. CountedUpTo(n)' = CountedUpTo(n - 1)
          BY <2>6, <5>1, <5>2, SumsShift
        <5>4. n - 1 = window - ttl
          BY <5>1, <5>2
        <5>5. count <= CountedUpTo(window - ttl)
          BY <3>2, <5>1 DEF Aged
        <5>6. count' <= CountedUpTo(n)'
          BY <4>1, <5>3, <5>4, <5>5
        <5>7. Aged'
          BY <5>2, <5>6 DEF Aged, CountedUpTo
        <5> QED BY <3>3, <5>1, <5>7 DEF Owed
      <4> QED BY <4>2, <4>3
    <3> QED BY <3>4, <3>5
  <2>7. CASE UNCHANGED vars
    <3>1. UNCHANGED <<count, ttl, caller, recent, faults>>
      BY <2>7 DEF vars
    <3>2. Young /\ Owed /\ Aged
      BY <2>y, <3>1
    <3> QED BY <3>1, <3>2 DEF Young, Owed, Aged, At, CountedUpTo
  <2> QED BY <2>1, <2>2, <2>3, <2>4, <2>5, <2>6, <2>7 DEF Next, Step
<1>3. TypeOK /\ KeyYoung => RefusalEarned
  <2> SUFFICES ASSUME TypeOK, KeyYoung, faults = 0 PROVE count <= Counted
    BY DEF RefusalEarned
  <2>0. count \in Nat /\ ttl \in Nat /\ window - 1 \in Ages /\ 0 \in Ages /\ Young /\ Owed /\ Aged
    BY Windows DEF TypeOK, Ages, KeyYoung
  <2>1. \A n \in Ages : CountedUpTo(n) \in Nat /\ n <= window - 1 /\ CountedUpTo(n) <= Counted
    <3> SUFFICES ASSUME NEW n \in Ages
                 PROVE  CountedUpTo(n) \in Nat /\ n <= window - 1 /\ CountedUpTo(n) <= Counted
      OBVIOUS
    <3>1. n <= window - 1
      BY Windows DEF Ages
    <3>2. [a \in Ages |-> recent[a].counted] \in [Ages -> Nat]
      BY DEF TypeOK, Tally
    <3>3. CountedUpTo(n) <= Counted
      BY <2>0, <3>1, <3>2, SumGrows DEF Counted, CountedUpTo
    <3> QED BY <3>1, <3>3, SumsTyped
  <2>2. Counted \in Nat
    BY <2>0, <2>1 DEF Counted
  <2>3. CASE ttl > 0
    <3>1. window - ttl \in Ages /\ count <= CountedUpTo(window - ttl)
      BY <2>0, <2>3, KeyAge DEF Aged
    <3> QED BY <2>0, <2>1, <2>2, <3>1
  <2>4. CASE count = 0
    BY <2>2, <2>4
  <2>5. CASE ttl = 0 /\ count > 0
    <3>1. count <= CountedUpTo(0)
      BY <2>0, <2>5 DEF Young, Owed
    <3> QED BY <2>0, <2>1, <2>2, <3>1
  <2> QED BY <2>0, <2>3, <2>4, <2>5
<1> QED
  BY <1>1, <1>2, <1>3, TypeCorrect, PTL DEF Spec

-----------------------------------------------------------------------------
(* Budgets. A key spends at most one, Spent so far. What the ticks of ages *)
(* 0 to n admitted, with the first event a check still has to admit after  *)
(* its EXPIRE, is covered by the budget spent on the key that is there, by *)
(* k budgets spent on keys before it, by one event for each fault and one  *)
(* budget for each reset. One earlier key is enough for every age, and none*)
(* is needed for the ticks the key has lived through: the clock of a key   *)
(* starts before its second event, and nothing but a reset ends it early.  *)
Starting == {c \in Callers : At(c, "expire")}
Spent == IF count <= max_events THEN count ELSE max_events
Budgets(k, n) ==
  AdmittedUpTo(n) + Cardinality(Starting)
    <= Spent + k * max_events + FaultsUpTo(n) + ResetsUpTo(n) * max_events
TwoLives == \A n \in Ages : Budgets(1, n)
OneLife == ttl > 0 => \A n \in Ages : n < window - ttl => Budgets(0, n)
Burst == IsFiniteSet(Starting) /\ TwoLives /\ OneLife

(* The checks that owe an EXPIRE, when one check moves.                    *)
LEMMA StartingMoves ==
  ASSUME TypeOK, NEW c \in Callers, NEW pc, Goto(c, pc), IsFiniteSet(Starting)
  PROVE  /\ IsFiniteSet(Starting)' /\ Cardinality(Starting) \in Nat /\ Cardinality(Starting)' \in Nat
         /\ ~At(c, "expire") /\ pc = "expire" => Cardinality(Starting)' = Cardinality(Starting) + 1
         /\ ~At(c, "expire") /\ pc # "expire" => Cardinality(Starting)' = Cardinality(Starting)
         /\ At(c, "expire") /\ pc # "expire" => Cardinality(Starting)' = Cardinality(Starting) - 1
<1>1. caller'[c] = pc /\ \A d \in Callers : d # c => caller'[d] = caller[d]
  BY DEF TypeOK, Goto
<1>2. c \in Starting <=> At(c, "expire")
  BY DEF Starting
<1>3. ~At(c, "expire") /\ pc = "expire" => Starting' = Starting \cup {c}
  BY <1>1 DEF Starting, At
<1>4. ~At(c, "expire") /\ pc # "expire" => Starting' = Starting
  BY <1>1 DEF Starting, At
<1>5. At(c, "expire") /\ pc # "expire" => Starting' = Starting \ {c}
  BY <1>1 DEF Starting, At
<1>6. At(c, "expire") /\ pc = "expire" => Starting' = Starting
  BY <1>1 DEF Starting, At
<1>7. PICK S : S = Starting
  OBVIOUS
<1>8. /\ IsFiniteSet(S) /\ Cardinality(S) \in Nat
      /\ IsFiniteSet(S \cup {c}) /\ Cardinality(S \cup {c}) \in Nat
      /\ IsFiniteSet(S \ {c}) /\ Cardinality(S \ {c}) \in Nat
      /\ c \notin S => Cardinality(S \cup {c}) = Cardinality(S) + 1
      /\ c \in S => Cardinality(S \ {c}) = Cardinality(S) - 1
  BY <1>7, FS_AddElement, FS_RemoveElement, FS_CardinalityType
<1>9. PICK T : T = Starting'
  OBVIOUS
<1>10. Starting' \in {S, S \cup {c}, S \ {c}}
  BY <1>3, <1>4, <1>5, <1>6, <1>7
<1>11. IsFiniteSet(T) /\ Cardinality(T) \in Nat
  BY <1>8, <1>9, <1>10
<1> QED BY <1>2, <1>3, <1>4, <1>5, <1>7, <1>8, <1>9, <1>11

(* The budget a key has spent grows with its counter, up to the limit.     *)
LEMMA SpentGrows ==
  ASSUME TypeOK
  PROVE  /\ Spent \in Nat /\ Spent <= max_events
         /\ TypeOK' => Spent' \in Nat /\ Spent' <= max_events
         /\ count' = count => Spent' = Spent
         /\ count' = count + 1 => Spent <= Spent'
         /\ count' = count + 1 /\ count' <= max_events => Spent' = Spent + 1
         /\ count = 0 => Spent = 0
<1>1. count \in Nat /\ (TypeOK' => count' \in Nat)
  BY DEF TypeOK
<1> HIDE DEF TypeOK
<1> QED BY <1>1, Windows DEF Spent

(* A step that admits no more than the faults, resets, budget spent and    *)
(* EXPIREs sent make up for.                                               *)
LEMMA BudgetHolds ==
  ASSUME TypeOK, TypeOK', NEW n \in Ages, NEW k \in {0, 1},
         Cardinality(Starting) \in Nat, Cardinality(Starting)' \in Nat,
         NEW da \in {0, 1}, NEW df \in {0, 1}, NEW dr \in {0, 1},
         AdmittedUpTo(n)' = AdmittedUpTo(n) + da,
         FaultsUpTo(n)' = FaultsUpTo(n) + df,
         ResetsUpTo(n)' = ResetsUpTo(n) + dr,
         da + Cardinality(Starting)' + Spent
           <= Cardinality(Starting) + Spent' + df + (IF dr = 1 THEN max_events ELSE 0),
         Budgets(k, n)
  PROVE  Budgets(k, n)'
<1> DEFINE A == AdmittedUpTo(n)
           F == FaultsUpTo(n)
           R == ResetsUpTo(n)
           P == Cardinality(Starting)
           Q == Cardinality(Starting)'
           B == k * max_events
           RB == R * max_events
           dB == IF dr = 1 THEN max_events ELSE 0
<1>1. A \in Nat /\ F \in Nat /\ R \in Nat
  BY SumsTyped
<1>2. Spent \in Nat /\ Spent' \in Nat /\ max_events \in Nat
  BY SpentGrows, Windows
<1>3. \A x, m \in Nat : x * m \in Nat /\ (x + 1) * m = x * m + m /\ (x + 0) * m = x * m
  OBVIOUS
<1>4. B \in Nat /\ RB \in Nat /\ dB \in Nat /\ ResetsUpTo(n)' * max_events = RB + dB
  <2>1. k \in Nat
    OBVIOUS
  <2>2. B \in Nat /\ RB \in Nat
    BY <1>1, <1>2, <1>3, <2>1
  <2>3. dB \in Nat
    BY <1>2
  <2>4. (R + dr) * max_events = RB + dB
    <3>1. CASE dr = 0
      <4>1. (R + 0) * max_events = RB
        BY <1>1, <1>2, <1>3
      <4> QED BY <2>2, <3>1, <4>1
    <3>2. CASE dr = 1
      <4>1. (R + 1) * max_events = RB + max_events
        BY <1>1, <1>2, <1>3
      <4> QED BY <3>2, <4>1
    <3> QED BY <3>1, <3>2
  <2> QED BY <2>2, <2>3, <2>4
<1>5. A + P <= Spent + B + F + RB
  BY DEF Budgets
<1>6. /\ da \in Nat /\ df \in Nat /\ da + Q + Spent <= P + Spent' + df + dB
      /\ P \in Nat /\ Q \in Nat
  OBVIOUS
<1>7. Budgets(k, n)' <=> (A + da) + Q <= Spent' + B + (F + df) + (RB + dB)
  BY <1>4 DEF Budgets
<1> HIDE DEF A, F, R, P, Q, B, RB, dB
<1>8. (A + da) + Q <= Spent' + B + (F + df) + (RB + dB)
  <2> DEFINE Adds(a, d, q, p, s, u, b, f, e, r, x) ==
               a + p <= s + b + f + r /\ d + q + s <= p + u + e + x
                 => (a + d) + q <= u + b + (f + e) + (r + x)
  <2>1. \A a, d, q, p, s, u, b, f, e, r, x \in Nat : Adds(a, d, q, p, s, u, b, f, e, r, x)
    OBVIOUS
  <2> HIDE DEF Adds
  <2>2. Adds(A, da, Q, P, Spent, Spent', B, F, df, RB, dB)
    BY <1>1, <1>2, <1>4, <1>6, <2>1
  <2> QED BY <1>5, <1>6, <2>2 DEF Adds
<1> QED BY <1>7, <1>8

(***************************************************************************)
(* The burst at a window boundary is all there is: in the length of any    *)
(* window at most two budgets are admitted, one event more for each Redis  *)
(* error and one budget more for each reset, whatever the number of checks *)
(* in flight (ratelimit.py:14-25).                                         *)
(***************************************************************************)
THEOREM BurstBounded == Spec => []BurstBound
<1>1. Init => Burst
  <2> SUFFICES ASSUME Init PROVE Burst
    OBVIOUS
  <2>1. /\ count = 0 /\ ttl = 0 /\ recent = [a \in Ages |-> Quiet]
        /\ \A c \in Callers : ~At(c, "expire")
    BY DEF Init, At
  <2>2. Starting = {}
    BY <2>1 DEF Starting
  <2>3. IsFiniteSet(Starting) /\ Cardinality(Starting) = 0
    BY <2>2, FS_EmptySet
  <2>4. ASSUME NEW n \in Ages PROVE Budgets(1, n)
    <3>1. 0..n \subseteq Ages
      BY Windows DEF Ages
    <3>2. AdmittedUpTo(n) = 0 /\ FaultsUpTo(n) = 0 /\ ResetsUpTo(n) = 0
      BY <2>1, <3>1, SumQuiet DEF AdmittedUpTo, FaultsUpTo, ResetsUpTo, Quiet
    <3>3. Spent = 0
      BY <2>1, Windows DEF Spent
    <3>4. 1 * max_events \in Nat /\ 0 * max_events = 0
      BY Windows
    <3> QED BY <2>3, <3>2, <3>3, <3>4 DEF Budgets
  <2> QED BY <2>1, <2>3, <2>4 DEF Burst, TwoLives, OneLife
<1>2. TypeOK /\ TypeOK' /\ Burst /\ [Next]_vars => Burst'
  <2> SUFFICES ASSUME TypeOK, TypeOK', Burst, [Next]_vars PROVE Burst'
    OBVIOUS
  <2> USE Windows
  <2>0. /\ count \in Nat /\ count' \in Nat /\ ttl \in Nat /\ ttl' \in Nat /\ (count = 0 => ttl = 0)
        /\ ttl \in 0..window /\ ttl' \in 0..window /\ caller \in [Callers -> PCs]
    BY DEF TypeOK
  <2>b. IsFiniteSet(Starting) /\ TwoLives /\ OneLife
    BY DEF Burst
  <2>v. ASSUME ttl' \in {0, window} PROVE OneLife'
    <3>1. CASE ttl' = 0
      BY <3>1 DEF OneLife
    <3>2. CASE ttl' = window
      <4>1. window - ttl' = 0 /\ \A n \in Ages : ~(n < 0)
        BY <3>2 DEF Ages
      <4> QED BY <4>1 DEF OneLife
    <3> QED BY <2>v, <3>1, <3>2
  (* A step after which every age keeps its budgets.                       *)
  <2>k. ASSUME IsFiniteSet(Starting)', \A n \in Ages : \A k \in {0, 1} : Budgets(k, n) => Budgets(k, n)',
               ttl' = ttl \/ ttl' \in {0, window}
        PROVE  Burst'
    <3>1. TwoLives'
      BY <2>b, <2>k DEF TwoLives
    <3>2. OneLife'
      <4>1. CASE ttl' = ttl
        BY <2>b, <2>k, <4>1 DEF OneLife
      <4> QED BY <2>k, <2>v, <4>1
    <3> QED BY <2>k, <3>1, <3>2 DEF Burst
  <2>1. ASSUME NEW c \in Callers, Incr(c) PROVE Burst'
    <3> DEFINE da == IF AfterIncr(count + 1) = "idle" THEN 1 ELSE 0
    <3>1. /\ At(c, "idle") /\ ~At(c, "expire") /\ count' = count + 1 /\ ttl' = ttl
          /\ Goto(c, AfterIncr(count + 1))
      BY <2>1 DEF Incr, INCR, At
    <3>2. /\ IsFiniteSet(Starting)' /\ Cardinality(Starting) \in Nat /\ Cardinality(Starting)' \in Nat
          /\ AfterIncr(count + 1) = "expire" => Cardinality(Starting)' = Cardinality(Starting) + 1
          /\ AfterIncr(count + 1) # "expire" => Cardinality(Starting)' = Cardinality(Starting)
      BY <2>b, <3>1, StartingMoves
    <3>3. /\ AfterIncr(count + 1) = "expire" => count + 1 = 1
          /\ AfterIncr(count + 1) = "idle" => count + 1 # 1 /\ count + 1 <= max_events
          /\ AfterIncr(count + 1) \in {"expire", "idle", "ttl"}
      BY <2>0 DEF AfterIncr
    <3>4. /\ Spent \in Nat /\ Spent' \in Nat /\ Spent <= Spent'
          /\ count + 1 <= max_events => Spent' = Spent + 1
      BY <2>0, <3>1, SpentGrows
    <3>5. da \in {0, 1} /\ da + Cardinality(Starting)' + Spent <= Cardinality(Starting) + Spent' + 0 + 0
      BY <2>0, <3>2, <3>3, <3>4
    <3>6. \A n \in Ages : /\ AdmittedUpTo(n)' = AdmittedUpTo(n) + da
                          /\ FaultsUpTo(n)' = FaultsUpTo(n) /\ ResetsUpTo(n)' = ResetsUpTo(n)
      BY <2>1, IncrNotes
    <3> HIDE DEF da
    <3>7. ASSUME NEW n \in Ages, NEW k \in {0, 1}, Budgets(k, n) PROVE Budgets(k, n)'
      <4>1. FaultsUpTo(n)' = FaultsUpTo(n) + 0 /\ ResetsUpTo(n)' = ResetsUpTo(n) + 0
        BY <3>6, SumsTyped
      <4>2. da + Cardinality(Starting)' + Spent
              <= Cardinality(Starting) + Spent' + 0 + (IF 0 = 1 THEN max_events ELSE 0)
        BY <3>5
      <4> QED BY <3>2, <3>5, <3>6, <3>7, <4>1, <4>2, BudgetHolds
    <3> QED BY <2>k, <3>1, <3>2, <3>7
  <2>2. ASSUME NEW c \in Callers, SetExpiry(c) PROVE Burst'
    <3>1. /\ At(c, "expire") /\ count' = count /\ ttl' \in {0, window} /\ Goto(c, "idle")
      BY <2>2 DEF SetExpiry, EXPIRE
    <3>2. /\ IsFiniteSet(Starting)' /\ Cardinality(Starting) \in Nat /\ Cardinality(Starting)' \in Nat
          /\ Cardinality(Starting)' = Cardinality(Starting) - 1
      BY <2>b, <3>1, StartingMoves
    <3>3. Spent \in Nat /\ Spent' = Spent
      BY <3>1, SpentGrows
    <3>4. 1 + Cardinality(Starting)' + Spent
            <= Cardinality(Starting) + Spent' + 0 + (IF 0 = 1 THEN max_events ELSE 0)
      BY <3>2, <3>3
    <3>5. ASSUME NEW n \in Ages, NEW k \in {0, 1}, Budgets(k, n) PROVE Budgets(k, n)'
      <4>1. /\ AdmittedUpTo(n)' = AdmittedUpTo(n) + 1
            /\ FaultsUpTo(n)' = FaultsUpTo(n) + 0 /\ ResetsUpTo(n)' = ResetsUpTo(n) + 0
        BY <2>2, SetExpiryNotes, SumsTyped
      <4> QED BY <3>2, <3>4, <3>5, <4>1, BudgetHolds
    <3> QED BY <2>k, <3>1, <3>2, <3>5
  <2>3. ASSUME NEW c \in Callers, ReadTTL(c) \/ Repair(c) PROVE Burst'
    <3>1. PICK pc \in PCs : /\ Goto(c, pc) /\ pc # "expire" /\ ~At(c, "expire")
                            /\ count' = count /\ (ttl' = ttl \/ ttl' \in {0, window})
                            /\ UNCHANGED recent
      <4>1. CASE ReadTTL(c)
        BY <4>1 DEF ReadTTL, At, AfterTTL, PCs
      <4>2. CASE Repair(c)
        BY <4>2 DEF Repair, At, PCs
      <4> QED BY <2>3, <4>1, <4>2
    <3>2. /\ IsFiniteSet(Starting)' /\ Cardinality(Starting) \in Nat /\ Cardinality(Starting)' \in Nat
          /\ Cardinality(Starting)' = Cardinality(Starting)
      BY <2>b, <3>1, StartingMoves
    <3>3. Spent \in Nat /\ Spent' = Spent
      BY <3>1, SpentGrows
    <3>4. 0 + Cardinality(Starting)' + Spent
            <= Cardinality(Starting) + Spent' + 0 + (IF 0 = 1 THEN max_events ELSE 0)
      BY <3>2, <3>3
    <3>5. ASSUME NEW n \in Ages, NEW k \in {0, 1}, Budgets(k, n) PROVE Budgets(k, n)'
      <4>1. /\ AdmittedUpTo(n)' = AdmittedUpTo(n) + 0
            /\ FaultsUpTo(n)' = FaultsUpTo(n) + 0 /\ ResetsUpTo(n)' = ResetsUpTo(n) + 0
        BY <3>1, SumsStay, SumsTyped
      <4> QED BY <3>2, <3>4, <3>5, <4>1, BudgetHolds
    <3> QED BY <2>k, <3>1, <3>2, <3>5
  <2>4. ASSUME NEW c \in Callers, CallFails(c) \/ Dies(c) PROVE Burst'
    <3>1. /\ Goto(c, "idle") /\ (count' = count \/ count' = count + 1)
          /\ (ttl' = ttl \/ ttl' \in {0, window})
      <4>1. CASE CallFails(c)
        <5>1. CASE UNCHANGED <<count, ttl, refused>>
          BY <4>1, <5>1 DEF CallFails
        <5>2. CASE INCR
          BY <4>1, <5>2 DEF CallFails, INCR
        <5>3. CASE EXPIRE
          BY <4>1, <5>3 DEF CallFails, EXPIRE
        <5>4. caller[c] \in PCs
          BY <2>0
        <5> QED BY <4>1, <5>1, <5>2, <5>3, <5>4 DEF CallFails, Executes, At, PCs
      <4>2. CASE Dies(c)
        BY <4>2 DEF Dies
      <4> QED BY <2>4, <4>1, <4>2
    <3>2. /\ IsFiniteSet(Starting)' /\ Cardinality(Starting) \in Nat /\ Cardinality(Starting)' \in Nat
          /\ Cardinality(Starting)' <= Cardinality(Starting)
      BY <2>b, <3>1, StartingMoves
    <3>3. Spent \in Nat /\ Spent' \in Nat /\ Spent <= Spent'
      BY <3>1, SpentGrows
    <3>4. \A da \in {0, 1} : da + Cardinality(Starting)' + Spent
            <= Cardinality(Starting) + Spent' + 1 + (IF 0 = 1 THEN max_events ELSE 0)
      BY <3>2, <3>3
    <3>5. ASSUME NEW n \in Ages, NEW k \in {0, 1}, Budgets(k, n) PROVE Budgets(k, n)'
      <4>1. PICK da \in {0, 1} : AdmittedUpTo(n)' = AdmittedUpTo(n) + da
        BY <2>4, FaultNotes, SumsTyped
      <4>2. FaultsUpTo(n)' = FaultsUpTo(n) + 1 /\ ResetsUpTo(n)' = ResetsUpTo(n) + 0
        BY <2>4, FaultNotes, SumsTyped
      <4> QED BY <3>2, <3>4, <3>5, <4>1, <4>2, BudgetHolds
    <3> QED BY <2>k, <3>1, <3>2, <3>5
  <2>5. CASE Reset
    <3>1. count' = 0 /\ ttl' = 0 /\ caller' = caller
      BY <2>5 DEF Reset, DEL
    <3>2. IsFiniteSet(Starting)' /\ Cardinality(Starting) \in Nat /\ Starting' = Starting
      BY <2>b, <3>1, FS_CardinalityType DEF Starting, At
    <3>3. Spent \in Nat /\ Spent <= max_events /\ Spent' \in Nat
      BY SpentGrows
    <3>4. 0 + Cardinality(Starting)' + Spent
            <= Cardinality(Starting) + Spent' + 0 + (IF 1 = 1 THEN max_events ELSE 0)
      BY <3>2, <3>3
    <3>5. ASSUME NEW n \in Ages, NEW k \in {0, 1}, Budgets(k, n) PROVE Budgets(k, n)'
      <4>1. /\ AdmittedUpTo(n)' = AdmittedUpTo(n) + 0
            /\ FaultsUpTo(n)' = FaultsUpTo(n) + 0 /\ ResetsUpTo(n)' = ResetsUpTo(n) + 1
        BY <2>5, ResetNotes, SumsTyped
      <4> QED BY <3>2, <3>4, <3>5, <4>1, BudgetHolds
    <3> QED BY <2>k, <3>1, <3>2, <3>5
  <2>6. CASE Tick
    <3>1. /\ caller' = caller /\ \A c \in Callers : ~At(c, "expire") /\ ~At(c, "repair")
          /\ Expires => count' = 0 /\ ttl' = 0
          /\ ~Expires => count' = count /\ ttl' = (IF ttl = 0 THEN 0 ELSE ttl - 1)
      BY <2>6 DEF Tick, DEL
    <3>2. Starting = {} /\ Starting' = {}
      BY <3>1 DEF Starting, At
    <3>3. /\ IsFiniteSet(Starting) /\ Cardinality(Starting) = 0
          /\ IsFiniteSet(Starting)' /\ Cardinality(Starting)' = 0
      BY <3>2, FS_EmptySet
    <3>4. /\ Spent \in Nat /\ Spent' \in Nat /\ Spent <= max_events
          /\ ~Expires => Spent' = Spent
      BY <3>1, SpentGrows
    <3>5. \A n \in Ages : ResetsUpTo(n) * max_events \in Nat
      <4>1. \A x, m \in Nat : x * m \in Nat
        OBVIOUS
      <4> QED BY <4>1, SumsTyped
    <3>6. 1 * max_events = max_events /\ 0 * max_events = 0
      OBVIOUS
    (* The current tick is new, an older one kept its budgets, with one    *)
    (* life more when the key expired.                                     *)
    <3>7. \A k \in {0, 1} : Budgets(k, 0)'
      <4> SUFFICES ASSUME NEW k \in {0, 1} PROVE Budgets(k, 0)'
        OBVIOUS
      <4>1. AdmittedUpTo(0)' = 0 /\ FaultsUpTo(0)' = 0 /\ ResetsUpTo(0)' = 0
        BY <2>6, SumsShift
      <4>2. k * max_events \in Nat
        BY <3>6
      <4> QED BY <3>3, <3>4, <3>6, <4>1, <4>2 DEF Budgets
    <3>8. ASSUME NEW n \in Ages \ {0}
          PROVE  /\ n - 1 \in Ages
                 /\ \A k \in {0, 1} : ~Expires /\ Budgets(k, n - 1) => Budgets(k, n)'
                 /\ Expires /\ Budgets(0, n - 1) => Budgets(1, n)'
      <4>1. PICK m \in Ages : m = n - 1
        BY <2>6, SumsShift
      <4>2. /\ AdmittedUpTo(n)' = AdmittedUpTo(m) /\ FaultsUpTo(n)' = FaultsUpTo(m)
            /\ ResetsUpTo(n)' = ResetsUpTo(m)
        BY <2>6, <4>1, SumsShift
      <4>3. \A k \in {0, 1} : ~Expires /\ Budgets(k, m) => Budgets(k, n)'
        BY <3>3, <3>4, <4>2 DEF Budgets
      <4>4. ASSUME Budgets(0, m) PROVE Budgets(1, n)'
        <5> DEFINE A == AdmittedUpTo(m)
                   F == FaultsUpTo(m)
                   RB == ResetsUpTo(m) * max_events
        <5>1. A \in Nat /\ F \in Nat /\ RB \in Nat
          BY <3>5, SumsTyped
        <5>2. A + 0 <= Spent + 0 + F + RB
          BY <3>3, <3>6, <4>4 DEF Budgets
        <5>3. Budgets(1, n)' <=> A + 0 <= Spent' + max_events + F + RB
          BY <3>3, <3>6, <4>2 DEF Budgets
        <5> HIDE DEF A, F, RB
        <5>4. A + 0 <= Spent' + max_events + F + RB
          <6> DEFINE Adds(a, s, u, b, f, r) ==
                       s <= b /\ a + 0 <= s + 0 + f + r => a + 0 <= u + b + f + r
          <6>1. \A a, s, u, b, f, r \in Nat : Adds(a, s, u, b, f, r)
            OBVIOUS
          <6> HIDE DEF Adds
          <6>2. Adds(A, Spent, Spent', max_events, F, RB)
            BY <3>4, <5>1, <6>1
          <6> QED BY <3>4, <5>2, <6>2 DEF Adds
        <5> QED BY <5>3, <5>4
      <4> QED BY <4>1, <4>3, <4>4
    <3>9. TwoLives'
      <4> SUFFICES ASSUME NEW n \in Ages PROVE Budgets(1, n)'
        BY DEF TwoLives
      <4>1. CASE n = 0
        BY <3>7, <4>1
      <4>2. CASE n # 0 /\ ~Expires
        BY <2>b, <3>8, <4>2 DEF TwoLives
      <4>3. CASE n # 0 /\ Expires
        <5>1. ttl > 0 /\ ttl = 1
          BY <4>3 DEF Expires
        <5>2. n - 1 \in Ages /\ n - 1 < window - 1
          BY <3>8, <4>3 DEF Ages
        <5>3. Budgets(0, n - 1)
          BY <2>b, <5>1, <5>2 DEF OneLife
        <5> QED BY <3>8, <4>3, <5>3
      <4> QED BY <4>1, <4>2, <4>3
    <3>10. OneLife'
      <4> SUFFICES ASSUME ttl' > 0, NEW n \in Ages, n < window - ttl' PROVE Budgets(0, n)'
        BY DEF OneLife
      <4>1. CASE n = 0
        BY <3>7, <4>1
      <4>2. CASE n # 0
        <5>1. ~Expires /\ ttl > 0 /\ ttl' = ttl - 1
          BY <2>0, <3>1
        <5>2. n - 1 \in Ages /\ n - 1 < window - ttl
          <6>1. n \in Nat
            BY DEF Ages
          <6> QED BY <2>0, <3>8, <4>2, <5>1, <6>1
        <5>3. Budgets(0, n - 1)
          BY <2>b, <5>1, <5>2 DEF OneLife
        <5> QED BY <3>8, <4>2, <5>1, <5>3
      <4> QED BY <4>1, <4>2
    <3> QED BY <3>3, <3>9, <3>10 DEF Burst
  <2>7. CASE UNCHANGED vars
    <3>1. UNCHANGED <<count, ttl, caller, recent>>
      BY <2>7 DEF vars
    <3>2. Starting' = Starting /\ Spent' = Spent
      BY <3>1 DEF Starting, Spent, At
    <3>3. \A n \in Ages : \A k \in {0, 1} : Budgets(k, n) => Budgets(k, n)'
      BY <3>1, <3>2, SumsStay DEF Budgets
    <3> QED BY <2>b, <2>k, <3>1, <3>2, <3>3
  <2> QED BY <2>1, <2>2, <2>3, <2>4, <2>5, <2>6, <2>7 DEF Next, Step
<1>3. TypeOK /\ Burst => BurstBound
  <2> SUFFICES ASSUME TypeOK, Burst PROVE BurstBound
    OBVIOUS
  <2>1. window - 1 \in Ages
    BY Windows DEF Ages
  <2> DEFINE A == AdmittedUpTo(window - 1)
             F == FaultsUpTo(window - 1)
             RB == ResetsUpTo(window - 1) * max_events
             P == Cardinality(Starting)
  <2>2. A \in Nat /\ F \in Nat /\ ResetsUpTo(window - 1) \in Nat
    BY <2>1, SumsTyped
  <2>3. RB \in Nat
    <3>1. \A x, m \in Nat : x * m \in Nat
      OBVIOUS
    <3> QED BY <2>2, <3>1, Windows
  <2>4. P \in Nat
    BY FS_CardinalityType DEF Burst
  <2>5. Spent \in Nat /\ Spent <= max_events /\ max_events \in Nat
    BY SpentGrows, Windows
  <2>6. A + P <= Spent + 1 * max_events + F + RB
    BY <2>1 DEF Burst, TwoLives, Budgets
  <2>7. BurstBound <=> A <= 2 * max_events + F + RB
    BY DEF BurstBound, Admitted, Faults, Resets
  <2> HIDE DEF A, F, RB, P
  <2>8. A <= 2 * max_events + F + RB
    <3> DEFINE Adds(a, p, s, b, f, r) ==
                 s <= b /\ a + p <= s + b + f + r => a <= 2 * b + f + r
    <3>1. \A a, p, s, b, f, r \in Nat : Adds(a, p, s, b, f, r)
      OBVIOUS
    <3>2. A + P <= Spent + max_events + F + RB
      BY <2>5, <2>6
    <3> HIDE DEF Adds
    <3>3. Adds(A, P, Spent, max_events, F, RB)
      BY <2>2, <2>3, <2>4, <2>5, <3>1
    <3> QED BY <2>5, <3>2, <3>3 DEF Adds
  <2> QED BY <2>7, <2>8
<1> QED
  BY <1>1, <1>2, <1>3, TypeCorrect, PTL DEF Spec
=============================================================================
