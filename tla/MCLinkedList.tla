---------------------------- MODULE MCLinkedList ----------------------------
(***************************************************************************)
(* Small instances of LinkedList for TLC.                                  *)
(***************************************************************************)
EXTENDS LinkedList
=============================================================================
