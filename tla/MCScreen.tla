----------------------------- MODULE MCScreen -----------------------------
(***************************************************************************)
(* Small instances of Screen for TLC.                                      *)
(***************************************************************************)
EXTENDS Screen
=============================================================================
