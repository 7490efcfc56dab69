------------------------------- MODULE MCBoot -------------------------------
(***************************************************************************)
(* Small instances of Boot for TLC: every range of an address space of     *)
(* Space words, in every order.                                            *)
(***************************************************************************)
EXTENDS Boot

\* No action reads reply: states that differ in it alone are explored once.
MCView == <<memory, slots, loader, readed, ram>>
=============================================================================
