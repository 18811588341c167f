---------------------------- MODULE MCUiRefresh -----------------------------
(***************************************************************************)
(* A page with one device and two refreshes under way.  The form, the      *)
(* dialog and the scan button meet in the refreshes and the server only,   *)
(* so the user of the run has one of them in hand at a time.               *)
(***************************************************************************)
EXTENDS UiRefresh

InHand == {x \in {"form", "dialog", "button"} :
             \/ x = "form" /\ chosen # None
             \/ x = "dialog" /\ dialog # None
             \/ x = "button" /\ button # "ready"}

OneAtATimeSpec ==
  Init /\ [][Next /\ Cardinality(InHand') <= 1]_vars /\ Fairness
=============================================================================
