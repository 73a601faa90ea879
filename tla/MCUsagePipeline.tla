-------------------------- MODULE MCUsagePipeline ---------------------------
(* Instances of UsagePipeline for TLC; storable events are interchangeable. *)
EXTENDS UsagePipeline

CONSTANTS e1, e2, e3, e4

Symmetry == Permutations(Event \ Unstorable)
=============================================================================
