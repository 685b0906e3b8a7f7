------------------------------ MODULE MCFiles -------------------------------
(* One upload with up to two objects, two requests of two users.               *)
EXTENDS Files, TLC

CONSTANTS k1, u1, u2, r1, r2

OneKey == {k1}
TwoUsers == {u1, u2}
TwoRequests == {r1, r2}

Symmetry == Permutations(TwoUsers) \cup Permutations(TwoRequests)

=============================================================================
