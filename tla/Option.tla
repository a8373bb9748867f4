------------------------------- MODULE Option -------------------------------
(***************************************************************************)
(* What is not there: None in Python, NULL in SQL.                          *)
(***************************************************************************)
CONSTANT None
=============================================================================
