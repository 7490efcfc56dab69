------------------------------ MODULE MCSerial ------------------------------
(***************************************************************************)
(* Small instances of Serial for TLC.                                      *)
(***************************************************************************)
EXTENDS Serial

CONSTANTS b1

MCText == <<b1>>
=============================================================================
