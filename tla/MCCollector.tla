---------------------------- MODULE MCCollector ----------------------------
(* Instances of Collector for TLC; the .cfg files choose the constants. *)
EXTENDS CollectorLog, TLC
Symmetric == Permutations(Aircraft)
=============================================================================
