------------------------------ MODULE MCBooking ------------------------------
(* Small instances of Booking for TLC: a turn in the process of the        *)
(* callback and one in a worker, and an agent who reconnects with another  *)
(* Google account.                                                         *)
EXTENDS Booking

CONSTANTS t1, t2, api, worker

MCProcessOf == [t \in Turns |-> IF t = t1 THEN api ELSE worker]
MCAccountOf == <<"first", "second">>
=============================================================================
