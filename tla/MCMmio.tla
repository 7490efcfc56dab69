------------------------------- MODULE MCMmio -------------------------------
(***************************************************************************)
(* Small instances of Mmio for TLC: regions that overlap, that touch, that *)
(* are empty and that end before they begin, and a table they do not all   *)
(* fit in.                                                                 *)
(***************************************************************************)
EXTENDS Mmio

MCRegion(base, high, write, read) ==
  [base |-> base, high |-> high, write |-> write, read |-> read]

MCRegions ==
  {MCRegion(0, 2, TRUE, FALSE), MCRegion(1, 4, TRUE, TRUE),
   MCRegion(4, 5, TRUE, FALSE), MCRegion(2, 3, FALSE, TRUE),
   MCRegion(3, 3, TRUE, FALSE), MCRegion(3, 1, TRUE, FALSE)}

\* No action reads reply: states that differ in it alone are explored once.
MCView == <<memory, slots, rows, held>>
=============================================================================
