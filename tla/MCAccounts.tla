----------------------------- MODULE MCAccounts -----------------------------
(* Small instances of Accounts for TLC.                                    *)
EXTENDS Accounts

CONSTANTS r1, r2, r3

(* A request that writes much, one that competes with it, and one that     *)
(* uses what they leave.                                                   *)
MCKinds == [r \in Requests |->
  CASE r = r1 -> {"signup", "password", "replace"}
    [] r = r2 -> {"signup", "login", "password", "replace"}
    [] r = r3 -> {"logout", "settings", "status", "import", "delete", "get"}]
=============================================================================
