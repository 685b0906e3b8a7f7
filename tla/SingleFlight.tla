---------------------------- MODULE SingleFlight ----------------------------
(***************************************************************************)
(* What TorrentEngine.getOrAdd promises its callers, with no timers, no    *)
(* WebTorrent and no capacity: a key is absent, being loaded, or held;     *)
(* concurrent callers of one key share one load, and the load answers all  *)
(* of them in the same step, with the held key or with a failure.          *)
(***************************************************************************)
EXTENDS Naturals

CONSTANTS Key, Caller, Nobody

VARIABLES
    held,      \* keys that are ready: a call on one is answered at once
    loading,   \* keys whose load is in flight
    awaits     \* awaits[c]: the key whose load c waits for, or Nobody

vars == <<held, loading, awaits>>

Init ==
    /\ held = {}
    /\ loading = {}
    /\ awaits = [c \in Caller |-> Nobody]

\* The first caller of a key that is neither held nor in flight starts the load.
Start(c, k) ==
    /\ awaits[c] = Nobody
    /\ k \notin held \cup loading
    /\ loading' = loading \cup {k}
    /\ awaits' = [awaits EXCEPT ![c] = k]
    /\ UNCHANGED held

\* A caller that finds the load in flight waits for the same load.
Join(c, k) ==
    /\ awaits[c] = Nobody
    /\ k \in loading
    /\ awaits' = [awaits EXCEPT ![c] = k]
    /\ UNCHANGED <<held, loading>>

\* The callers that wait for k, and no other, are answered.
Release(k) == awaits' = [c \in Caller |-> IF awaits[c] = k THEN Nobody ELSE awaits[c]]

Complete(k) ==
    /\ k \in loading
    /\ loading' = loading \ {k}
    /\ held' = held \cup {k}
    /\ Release(k)

Fail(k) ==
    /\ k \in loading
    /\ loading' = loading \ {k}
    /\ Release(k)
    /\ UNCHANGED held

\* A held key may be given up; nobody waits for it.
Evict(k) ==
    /\ k \in held
    /\ held' = held \ {k}
    /\ UNCHANGED <<loading, awaits>>

Next ==
    \E k \in Key :
        \/ Complete(k)
        \/ Fail(k)
        \/ Evict(k)
        \/ \E c \in Caller : Start(c, k) \/ Join(c, k)

\* The steps alone, and with the promise that every load ends one way or the other.
Safety == Init /\ [][Next]_vars

Spec == Safety /\ \A k \in Key : WF_vars(Complete(k) \/ Fail(k))

=============================================================================
