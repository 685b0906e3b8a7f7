---------------------------- MODULE TimedEngine ----------------------------
(***************************************************************************)
(* TorrentEngine with a clock on each request: for how long it has waited  *)
(* for its answer and then, if it is a stream, for how long it has been    *)
(* streaming. The clocks are history variables: no action reads them.      *)
(***************************************************************************)
EXTENDS TorrentEngine

VARIABLE clock

timedVars == <<vars, clock>>

Waiting(r) == phase[r] \in {"adding", "added", "waiting", "peered"}
Streaming(r) == phase[r] = "streaming"

TimedInit == Init /\ clock = [r \in Request |-> 0]

\* A turn of the event loop takes no time. The clocks of those it answers go back to zero,
\* and so does the clock of one that begins to stream.
TimedTurn ==
    /\ Turn
    /\ clock' = [r \in Request |->
                    IF Waiting(r)' \/ (Streaming(r) /\ Streaming(r)') THEN clock[r] ELSE 0]

\* The clocks stop when nothing depends on them any more: that of a wait just over the two
\* timeouts, that of a stream just over the threshold, as a handle's idle time.
LongerWait(time) == IF time > AddTimeout + PeerTimeout THEN time ELSE time + 1

TimedTick ==
    /\ Tick
    /\ clock' = [r \in Request |->
                    IF Waiting(r) THEN LongerWait(clock[r])
                    ELSE IF Streaming(r) THEN Older(clock[r]) ELSE 0]

TimedNext == TimedTurn \/ TimedTick

TimedSpec == TimedInit /\ [][TimedNext]_timedVars /\ EventLoop

-----------------------------------------------------------------------------

\* The timers of torrentEngine.ts:111 and 161: a session is answered within the 45 s of the
\* addition that it asked for or joined, and a stream is answered or on its way within the
\* 15 s for a peer on top of that, whatever torrents, peers and other requests do meanwhile.
AnsweredInTime ==
    \A r \in Request : Waiting(r) =>
        clock[r] <= AddTimeout + (IF r \in StreamRequest THEN PeerTimeout ELSE 0)

\* getFile touches the handle and the stream that follows does not, so that the cleanup may
\* take a torrent from under a stream; but never before the stream has run for longer than
\* the 30 minutes of the threshold.
CleanupSparesYoungStreams ==
    [][\A r \in Request : Streaming(r) /\ r \notin detached /\ target[r] \in removing' \ removing
                             => clock[r] > IdleThreshold]_timedVars

=============================================================================
