------------------------------- MODULE MCVdl2 -------------------------------
(* The VDL2 ingest on a small instance: a short text and one that contains it. *)
EXTENDS Vdl2Ingest

MCBodies == {{1}, {1, 2}}
=============================================================================
