---------------------------- MODULE MCApiProcess -----------------------------
(* An instance of ApiProcess for TLC. *)
EXTENDS ApiProcess, TLC

CONSTANTS i1, i2, r1, r2, l1, l2

\* A short month between longer ones.
ShortSecond == [m \in 1 .. MaxMonth + 1 |-> IF m = 2 THEN 1 ELSE 2]

Symmetry == Permutations(Ip) \cup Permutations(Req) \cup Permutations(Lim)
=============================================================================
