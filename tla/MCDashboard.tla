---------------------------- MODULE MCDashboard ----------------------------
(* Values for the constants of Dashboard. *)
EXTENDS Dashboard, TLC

CONSTANTS e1, s1

OneEvent == e1 :> s1

AllOrNothing == {Events, {}}

OneRank == e1 :> 1

\* The rules cite every event.
EveryEvent == [S \in SUBSET {e1} |-> S]
=============================================================================
