--------------------------- MODULE MCLeadLifecycle ---------------------------
(* Small instances of LeadLifecycle for TLC.                               *)
EXTENDS LeadLifecycle, TLC

CONSTANTS t1, t2, d1, p1, p2

(* "How much is it?", "stop by the site", "please stop", "band karo bhai". *)
Question == <<"other", "other", "other", "other">>
StopBy == <<"bare", "other", "other", "other">>
PleaseStop == <<"filler", "bare">>
BandKaro == <<"phrase", "other">>

EitherText == [i \in 1..Messages |-> {Question, StopBy, PleaseStop, BandKaro}]
StopSecond == [i \in 1..Messages |-> IF i = 2 THEN {Question, PleaseStop} ELSE {Question}]
NoStop == [i \in 1..Messages |-> {Question, StopBy}]

SessionSymmetry == Permutations(Turns) \cup Permutations(Passes)
=============================================================================
