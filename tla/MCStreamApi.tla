---------------------------- MODULE MCStreamApi ----------------------------
(* Two torrents of which one is too large, and two requests.                   *)
EXTENDS StreamApi

CONSTANTS small, large, r1, r2

TwoTorrents == {small, large}
LargeOne == {large}
TwoRequests == {r1, r2}

\* Of an answered request, only the answer that NotReadyOnlyUnresolvable is about, and what
\* it had read: no action and no other property reads what such a request was about.
View ==
    <<dbVars, engineVars,
      [r \in Request |-> IF ~Free(r) THEN <<phase[r], kind[r], target[r], seen[r]>>
                         ELSE IF phase[r] = "notReady" THEN <<seen[r]>> ELSE <<>>]>>

=============================================================================
