------------------------- MODULE MCRefreshSessions -------------------------
(* Up to three tokens on two devices, two requests at a time.                  *)
EXTENDS RefreshSessions, TLC

CONSTANTS x1, x2, x3, d1, d2, r1, r2

ThreeRows == {x1, x2, x3}
OneDevice == {d1}
TwoDevices == {d1, d2}
TwoRequests == {r1, r2}

Symmetry == Permutations(ThreeRows) \cup Permutations(TwoDevices) \cup Permutations(TwoRequests)

=============================================================================
