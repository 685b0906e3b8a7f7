----------------------------- MODULE MCLibrary ------------------------------
(* Two users, one collection, one torrent, two requests.                       *)
EXTENDS Library, TLC

CONSTANTS u1, u2, c1, t1, n1, n2, r1, r2

TwoUsers == {u1, u2}
OneCollection == {c1}
OneTorrent == {t1}
TwoNames == {n1, n2}
TwoRequests == {r1, r2}

Symmetry == Permutations(TwoUsers) \cup Permutations(TwoNames) \cup Permutations(TwoRequests)

=============================================================================
