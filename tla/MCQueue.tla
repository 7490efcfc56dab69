------------------------------ MODULE MCQueue ------------------------------
(***************************************************************************)
(* Small instances of Queue for TLC: one writing and one reading thread.   *)
(***************************************************************************)
EXTENDS Queue

ASSUME LibraryUse == OneThreadPerEnd
=============================================================================
