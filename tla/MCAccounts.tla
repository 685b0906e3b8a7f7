----------------------------- MODULE MCAccounts -----------------------------
(* Two tokens on one device, a two-factor token of each kind, two requests.    *)
EXTENDS Accounts, TLC

CONSTANTS x1, x2, d1, r1, r2, t1, t2

TwoRows == {x1, x2}
OneDevice == {d1}
TwoRequests == {r1, r2}
TwoTokens == {t1, t2}
OneToken == {t1}

Symmetry == Permutations(TwoRows) \cup Permutations(TwoRequests)

\* What a request that has its answer presented, found and stamped is read by no action
\* and by none of the invariants.
View ==
    <<rowVars, lock, epoch, lockVars, guardVars, checked, overtaken,
      [r \in Request |->
          IF Free(r) THEN <<>>
          ELSE <<phase[r], kind[r], subject[r], dev[r], stamp[r], victims[r]>>],
      [r \in Request |-> IF Idle(r) THEN 0 ELSE since[r]]>>

=============================================================================
