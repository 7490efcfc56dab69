------------------------------ MODULE MCAtapi ------------------------------
(***************************************************************************)
(* Small instances of Atapi for TLC.                                       *)
(***************************************************************************)
EXTENDS Atapi
=============================================================================
