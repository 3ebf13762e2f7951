-------------------------------- MODULE Rules --------------------------------
(***************************************************************************)
(* The rules turns and requests apply, side by side: the times of          *)
(* Scheduling, the ranking of Scoring and the reader of ListingImport.     *)
(* They share no state, so a behaviour is about one of them.               *)
(***************************************************************************)
EXTENDS Scheduling, Scoring, ListingImport

VARIABLE topic  \* the one it is about

vars == <<topic, times, profile, import>>

Init ==
  /\ topic \in {"times", "profile", "import"}
  /\ TimesInit /\ (topic # "times" => zone = Min(Zones))
  /\ ProfileInit
  /\ ImportInit /\ (topic # "import" => file = CHOOSE f \in Files : TRUE)

Next ==
  \/ topic = "times" /\ TimesNext /\ UNCHANGED <<topic, profile, import>>
  \/ topic = "profile" /\ ProfileNext /\ UNCHANGED <<topic, times, import>>
  \/ topic = "import" /\ ImportNext /\ UNCHANGED <<topic, times, profile>>

Spec == Init /\ [][Next]_vars
=============================================================================
