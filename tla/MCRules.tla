------------------------------- MODULE MCRules -------------------------------
(* A small instance of Rules for TLC.                                      *)
EXTENDS Rules, TLC

(* A morning, an evening that opens at a quarter past, and a week off; the *)
(* agent's own calendar has an hour on the first day.                      *)
MCHours ==
  [d \in 0..6 |-> CASE d = 0 -> <<9 * Hour, 12 * Hour>> [] d = 1 -> <<17 * Hour + 1, 20 * Hour>>
                    [] OTHER -> <<>>]
MCCalendar == {[from |-> 4 * Hour, to |-> 5 * Hour]}
MCQuiet == {<<21, 9>>, <<9, 17>>, <<0, 6>>, <<9, 9>>}

MCInventory == {[price |-> 100, sellable |-> TRUE], [price |-> 60, sellable |-> FALSE]}

Good == [title |-> "text", city |-> "text", price |-> "lakh", property_type |-> "alias",
         status |-> "", bhk |-> "digits"]
MCRows ==
  {Good, [column \in DOMAIN Good |-> ""], [Good EXCEPT !.city = ""], [Good EXCEPT !.price = "words"],
   [Good EXCEPT !.price = "garbled crore"], [Good EXCEPT !.price = "nan", !.title = ""],
   [Good EXCEPT !.status = "other"], [Good EXCEPT !.bhk = "words"], [Good EXCEPT !.price = "zero lakh"]}
MCFiles ==
  [size : {"fits"}, columns : {DOMAIN Good, REQUIRED}, rows : UNION {[1..n -> MCRows] : n \in 0..3},
   unreadable : {{}}]
    \cup [size : {"large", "fits"}, columns : {REQUIRED \ {"city"}}, rows : {<<Good>>},
          unreadable : {{}, {0}, {1}}]
    \cup [size : {"fits"}, columns : {REQUIRED}, rows : [1..3 -> {Good, [Good EXCEPT !.price = "words"]}],
          unreadable : SUBSET (0..3)]
=============================================================================
