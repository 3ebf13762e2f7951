----------------------------- MODULE MCRateLimit -----------------------------
(* Small instances of RateLimit for TLC. The liveness property keeps the    *)
(* checks from being interchangeable, so there is no symmetry.             *)
EXTENDS RateLimit

CONSTANTS c1, c2, c3
=============================================================================
