----------------------------- MODULE MCRollups -----------------------------
(* Instances of Rollups for TLC; the .cfg files choose the constants. *)
EXTENDS Rollups
=============================================================================
