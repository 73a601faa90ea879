------------------------------- MODULE MCDLQ --------------------------------
(***************************************************************************)
(* Instances of DLQ for TLC.  Storable events are interchangeable, so the  *)
(* runs permute them.                                                      *)
(***************************************************************************)
EXTENDS DLQ

CONSTANTS e1, e2, e3, e4, e5

Symmetry == Permutations(Event \ Unstorable)
=============================================================================
