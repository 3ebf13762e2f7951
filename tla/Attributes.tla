------------------------------ MODULE Attributes ------------------------------
(***************************************************************************)
(* Objects and tables as functions from their attributes, or rows, to      *)
(* values, of which an assignment replaces some and adds others.           *)
(***************************************************************************)

(* f with what g assigns.                                                  *)
Override(f, g) ==
  [x \in DOMAIN f \cup DOMAIN g |-> IF x \in DOMAIN g THEN g[x] ELSE f[x]]
=============================================================================
