----------------------------- MODULE MCMetering ------------------------------
(* An instance of Metering for TLC; prices and requests are interchangeable. *)
EXTENDS Metering, TLC

CONSTANTS p1, p2, r1, r2

Symmetry == Permutations(Price) \cup Permutations(Req)
=============================================================================
