----------------------------- MODULE MCMachine -----------------------------
(***************************************************************************)
(* Small instances of Machine for TLC.                                     *)
(***************************************************************************)
EXTENDS Machine, TLC

VmSymmetry == Permutations(Vm)
=============================================================================
