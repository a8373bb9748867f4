------------------------------ MODULE MCAlerts ------------------------------
(* Instances of Alerts for TLC; the .cfg files choose the constants. *)
EXTENDS Alerts, TLC
Symmetric == Permutations(Aircraft)
=============================================================================
