--------------------------- MODULE MCTimedEngine ---------------------------
(* The engine with its clocks: two torrents that contend for one place, and a  *)
(* session and a stream that share an addition, a handle or a removal.         *)
EXTENDS TimedEngine

CONSTANTS h1, h2, s1, r1

TwoHashes == {h1, h2}
OneSession == {s1}
OneStream == {r1}
AnyFault == {"client", "torrent", "remove"}

\* Which torrent an answered request had asked for, and with what answer, is read by no action
\* and by none of the properties, but for the one that NeverNotActive excludes.
View ==
    <<engineVars, clientVars,
      [r \in Request |-> IF Free(r) THEN <<phase[r] = "none", phase[r] = "notFound">>
                                    ELSE <<phase[r], target[r]>>],
      peerTimer, detached, clock>>

=============================================================================
