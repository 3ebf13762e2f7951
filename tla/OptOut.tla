-------------------------------- MODULE OptOut --------------------------------
(***************************************************************************)
(* agent/optout.py: whether a message asks us to stop. A text is a         *)
(* sequence of words, a word its class: "phrase" where the letters of one  *)
(* of the multi-word phrases occur (inside longer words too: the code      *)
(* looks for a substring), "bare" for a word that means stop on its own,   *)
(* "filler" for politeness, "other" for the rest. Case, punctuation and    *)
(* spacing are normalised away.                                            *)
(***************************************************************************)
EXTENDS Sequences

Word == {"phrase", "bare", "filler", "other"}

(* A bare word has to be the whole message but for politeness.             *)
is_opt_out(text) ==
  \/ \E i \in DOMAIN text : text[i] = "phrase"
  \/ LET remainder == SelectSeq(text, LAMBDA word : word # "filler")
     IN  remainder = <<"bare">>
=============================================================================
