------------------------------ MODULE MCPorts ------------------------------
(***************************************************************************)
(* Small instances of Ports for TLC.                                       *)
(***************************************************************************)
EXTENDS Ports, TLC

SerialSymmetry == Permutations(Serial)
=============================================================================
