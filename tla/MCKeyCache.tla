----------------------------- MODULE MCKeyCache ------------------------------
(* Instances of KeyCache for TLC. *)
EXTENDS KeyCache, TLC

CONSTANTS k1, p1, openai, google, s1, none, c1, c2

OneProject == [k \in Key |-> p1]

Symmetry == Permutations(Conn)
=============================================================================
