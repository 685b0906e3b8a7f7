---------------------------- MODULE TorrentEngine ----------------------------
(***************************************************************************)
(* The engine of src/src/services/torrent/torrentEngine.ts, the WebTorrent *)
(* client under it (external: only the calls and events the engine uses),  *)
(* and the requests of stream.controller.ts that call it, each as the      *)
(* sequence of continuations its awaits cut it into:                       *)
(*                                                                         *)
(*   session: getOrAdd -> answer                                           *)
(*   stream:  getOrAdd -> waitForPeers -> getFile -> pipe to the response  *)
(*                                                                         *)
(* Time is the countdown of the code's four timers. A timer that is due    *)
(* fires before time passes again, and so do the continuations of settled  *)
(* promises (microtasks), which no other event comes between; WebTorrent's *)
(* events come at any moment apart from that.                              *)
(***************************************************************************)
EXTENDS Integers, FiniteSets

CONSTANTS
    Hash,              \* info hashes
    SessionRequest,    \* slots for GET /torrents/:id/stream requests
    StreamRequest,     \* slots for GET /stream/:token/:fileIndex requests
    MaxConcurrent,     \* env.torrent.maxConcurrent
    AddTimeout,        \* 45 s timer of getOrAdd
    PeerTimeout,       \* 15 s timer of waitForPeers
    IdleThreshold,     \* 30 min without access
    CleanupInterval,   \* 5 min between two sweeps
    NoHash,            \* no info hash: what a request awaits that awaits nothing
    Faults             \* which of the faults below WebTorrent may show

ASSUME LimitAssumption == MaxConcurrent \in Nat

ASSUME TimingAssumption ==
    /\ {AddTimeout, PeerTimeout, IdleThreshold, CleanupInterval} \subseteq Nat \ {0}
    /\ PeerTimeout < IdleThreshold

ASSUME FaultAssumption == Faults \subseteq {"client", "torrent", "remove"}

ASSUME RequestAssumption == SessionRequest \cap StreamRequest = {}

ASSUME HashAssumption == NoHash \notin Hash

Request == SessionRequest \cup StreamRequest

VARIABLES
    torrents,     \* keys of the Map `torrents`: the hashes with a handle
    idle,         \* idle[h]: time since lastAccessedAt, up to IdleThreshold + 1
    pending,      \* pending[h]: the promise under h in the Map `pending`, or "none"
    addTimer,     \* addTimer[h]: what is left of the in-flight addition's timer
    removing,     \* hashes whose client.remove has not called back yet
    sweepTimer,   \* what is left until the next cleanup
    clientUp,     \* the WebTorrent client has not failed for good
    client,       \* client[h]: h's torrent in WebTorrent
    peers,        \* peers[h]: its numPeers > 0
    duplicate,    \* in-flight additions of a hash WebTorrent already has
    phase,        \* phase[r]: how far request r is, or its answer
    target,       \* target[r]: the hash r asks for
    peerTimer,    \* peerTimer[r]: what is left of r's waitForPeers timer
    detached      \* requests holding a torrent object that WebTorrent destroyed

engineVars == <<torrents, idle, pending, addTimer, removing, sweepTimer>>
clientVars == <<clientUp, client, peers, duplicate>>
requestVars == <<phase, target, peerTimer, detached>>
vars == <<engineVars, clientVars, requestVars>>

Answered == {"ok", "unavailable", "notFound", "badRequest", "failed", "cut"}
Free(r) == phase[r] \in Answered \cup {"none"}

\* The continuations of settled promises have run: only then does the event loop
\* turn to the next request, event, callback or timer.
Drained == \A r \in Request : phase[r] \notin {"added", "peered"}

Init ==
    /\ torrents = {}
    /\ idle = [h \in Hash |-> 0]
    /\ pending = [h \in Hash |-> "none"]
    /\ addTimer = [h \in Hash |-> 0]
    /\ removing = {}
    /\ sweepTimer = CleanupInterval
    /\ clientUp = TRUE
    /\ client = [h \in Hash |-> "absent"]
    /\ peers = [h \in Hash |-> FALSE]
    /\ duplicate = {}
    /\ phase = [r \in Request |-> "none"]
    /\ target \in [Request -> Hash]
    /\ peerTimer = [r \in Request |-> 0]
    /\ detached = {}

-----------------------------------------------------------------------------
(* Requests in groups: who awaits an addition, who holds a torrent object. *)

Adders(h) == {r \in Request : phase[r] = "adding" /\ target[r] = h}
Holders(S) == {r \in Request : phase[r] \in {"waiting", "streaming"} /\ target[r] \in S}
PeerWaiters(h) ==
    {r \in Request : phase[r] = "waiting" /\ target[r] = h /\ r \notin detached}

Move(S, p) == phase' = [r \in Request |-> IF r \in S THEN p ELSE phase[r]]
Enter(r, h, p) ==
    /\ phase' = [phase EXCEPT ![r] = p]
    /\ target' = [target EXCEPT ![r] = h]

\* Mutant of Settle: it answers whoever awaits an addition of any hash.
SettleEveryone(h, p) ==
    /\ pending' = [pending EXCEPT ![h] = "none"]
    /\ addTimer' = [addTimer EXCEPT ![h] = 0]
    /\ duplicate' = duplicate \ {h}
    /\ Move(UNION {Adders(k) : k \in Hash}, p)

\* The in-flight promise of h settles: its timer and its entry in `pending` go,
\* and every request that awaits it continues in phase p.
Settle(h, p) ==
    /\ pending' = [pending EXCEPT ![h] = "none"]
    /\ addTimer' = [addTimer EXCEPT ![h] = 0]
    /\ duplicate' = duplicate \ {h}
    /\ Move(Adders(h), p)

-----------------------------------------------------------------------------
(* getOrAdd, as the first step of a request r for hash h. *)

\* Mutant of GetOrAddHit: lastAccessedAt is not updated.
GetOrAddHitUntouched(r, h) ==
    /\ Drained
    /\ Free(r)
    /\ h \in torrents
    /\ Enter(r, h, "added")
    /\ UNCHANGED <<engineVars, clientVars, peerTimer, detached>>

\* The handle exists: it is touched and returned.
GetOrAddHit(r, h) ==
    /\ Drained
    /\ Free(r)
    /\ h \in torrents
    /\ idle' = [idle EXCEPT ![h] = 0]
    /\ Enter(r, h, "added")
    /\ UNCHANGED <<torrents, pending, addTimer, removing, sweepTimer, clientVars,
                   peerTimer, detached>>

\* Mutant of AtCapacity: one torrent too many.
AtCapacityOffByOne == Cardinality(torrents) > MaxConcurrent

AtCapacity == Cardinality(torrents) >= MaxConcurrent

\* The limit is tested before `pending`, and counts handles only.
GetOrAddBusy(r, h) ==
    /\ Drained
    /\ Free(r)
    /\ h \notin torrents
    /\ AtCapacity
    /\ Enter(r, h, "unavailable")
    /\ UNCHANGED <<engineVars, clientVars, peerTimer, detached>>

\* A promise is there already: r awaits it, and fails at once if it is rejected.
GetOrAddPending(r, h) ==
    /\ Drained
    /\ Free(r)
    /\ h \notin torrents
    /\ ~AtCapacity
    /\ pending[h] # "none"
    /\ Enter(r, h, IF pending[h] = "inflight" THEN "adding" ELSE "failed")
    /\ UNCHANGED <<engineVars, clientVars, peerTimer, detached>>

\* client.add: a second torrent of a hash WebTorrent has is bound to be refused.
ClientAdd(h) ==
    IF client[h] = "absent"
      THEN client' = [client EXCEPT ![h] = "adding"] /\ UNCHANGED duplicate
      ELSE duplicate' = duplicate \cup {h} /\ UNCHANGED client

GetOrAddStart(r, h) ==
    /\ Drained
    /\ Free(r)
    /\ h \notin torrents
    /\ ~AtCapacity
    /\ pending[h] = "none"
    /\ clientUp
    /\ ClientAdd(h)
    /\ pending' = [pending EXCEPT ![h] = "inflight"]
    /\ addTimer' = [addTimer EXCEPT ![h] = AddTimeout]
    /\ Enter(r, h, "adding")
    /\ UNCHANGED <<torrents, idle, removing, sweepTimer, clientUp, peers,
                   peerTimer, detached>>

\* client.add of a failed client throws inside the executor: the promise is
\* rejected, with no timer and no listener, and goes into `pending` all the same.
GetOrAddThrows(r, h) ==
    /\ Drained
    /\ Free(r)
    /\ h \notin torrents
    /\ ~AtCapacity
    /\ pending[h] = "none"
    /\ ~clientUp
    /\ pending' = [pending EXCEPT ![h] = "rejected"]
    /\ Enter(r, h, "failed")
    /\ UNCHANGED <<torrents, idle, addTimer, removing, sweepTimer, clientVars,
                   peerTimer, detached>>

\* The 45 s timer: listeners and entry go, the torrent stays in the client.
AddTimesOut(h) ==
    /\ Drained
    /\ pending[h] = "inflight"
    /\ addTimer[h] = 0
    /\ Settle(h, "failed")
    /\ UNCHANGED <<torrents, idle, removing, sweepTimer, clientUp, client, peers,
                   target, peerTimer, detached>>

-----------------------------------------------------------------------------
(* WebTorrent's events, and the listeners the engine has on them. *)

\* The listeners of h's addition are on the torrent the client is loading.
Listening(h) == pending[h] = "inflight" /\ h \notin duplicate

\* Mutant of TorrentReady: the promise is resolved, the Map entry forgotten.
TorrentReadyUnregistered(h) ==
    /\ Drained
    /\ Listening(h)
    /\ client[h] = "adding"
    /\ client' = [client EXCEPT ![h] = "ready"]
    /\ Settle(h, "added")
    /\ UNCHANGED <<torrents, idle, removing, sweepTimer, clientUp, peers, target,
                   peerTimer, detached>>

\* "ready": metadata is there, with or without a peer connected by now.
TorrentReady(h) ==
    /\ Drained
    /\ Listening(h)
    /\ client[h] = "adding"
    /\ client' = [client EXCEPT ![h] = "ready"]
    /\ \E b \in BOOLEAN : peers' = [peers EXCEPT ![h] = b]
    /\ torrents' = torrents \cup {h}
    /\ idle' = [idle EXCEPT ![h] = 0]
    /\ Settle(h, "added")
    /\ UNCHANGED <<removing, sweepTimer, clientUp, target, peerTimer, detached>>

\* "ready" of a torrent whose addition timed out: the listener is off.
OrphanReady(h) ==
    /\ Drained
    /\ ~Listening(h)
    /\ client[h] = "adding"
    /\ client' = [client EXCEPT ![h] = "ready"]
    /\ UNCHANGED <<engineVars, clientUp, peers, duplicate, requestVars>>

\* The second torrent of one hash is destroyed with an error.
DuplicateRefused(h) ==
    /\ Drained
    /\ h \in duplicate
    /\ Settle(h, "failed")
    /\ UNCHANGED <<torrents, idle, removing, sweepTimer, clientUp, client, peers,
                   target, peerTimer, detached>>

\* "error": the torrent is destroyed. Its addition fails if it still runs;
\* requests that wait for a wire fail; a handle that exists stays in the Map.
TorrentError(h) ==
    /\ Drained
    /\ "torrent" \in Faults
    /\ client[h] # "absent"
    /\ client' = [client EXCEPT ![h] = "absent"]
    /\ Move(PeerWaiters(h) \cup (IF Listening(h) THEN Adders(h) ELSE {}), "failed")
    /\ peerTimer' = [r \in Request |-> IF r \in PeerWaiters(h) THEN 0 ELSE peerTimer[r]]
    /\ detached' = detached \cup (Holders({h}) \ PeerWaiters(h))
    /\ pending' = [pending EXCEPT ![h] = IF Listening(h) THEN "none" ELSE @]
    /\ addTimer' = [addTimer EXCEPT ![h] = IF Listening(h) THEN 0 ELSE @]
    /\ UNCHANGED <<torrents, idle, removing, sweepTimer, clientUp, peers, duplicate, target>>

\* A fatal client error destroys every torrent, without events on the torrents;
\* the engine logs it and keeps the client.
ClientError ==
    /\ Drained
    /\ "client" \in Faults
    /\ clientUp
    /\ clientUp' = FALSE
    /\ client' = [h \in Hash |-> "absent"]
    /\ duplicate' = {}
    /\ detached' = detached \cup Holders(Hash)
    /\ UNCHANGED <<engineVars, peers, phase, target, peerTimer>>

\* "wire": a peer connected; the requests that wait for one on this torrent go on.
Wire(h) ==
    /\ Drained
    /\ client[h] = "ready"
    /\ peers' = [peers EXCEPT ![h] = TRUE]
    /\ Move(PeerWaiters(h), "peered")
    /\ peerTimer' = [r \in Request |-> IF r \in PeerWaiters(h) THEN 0 ELSE peerTimer[r]]
    /\ UNCHANGED <<engineVars, clientUp, client, duplicate, target, detached>>

PeersLost(h) ==
    /\ Drained
    /\ peers[h]
    /\ peers' = [peers EXCEPT ![h] = FALSE]
    /\ UNCHANGED <<engineVars, clientUp, client, duplicate, requestVars>>

-----------------------------------------------------------------------------
(* The rest of a request, one action per continuation. *)

Answer(r, a) ==
    /\ phase' = [phase EXCEPT ![r] = a]
    /\ peerTimer' = [peerTimer EXCEPT ![r] = 0]
    /\ detached' = detached \ {r}

\* A session reads the handle it got and answers. Whether it is refused for the torrent's size
\* or fails to save what it read (stream.controller.ts:39-57) is in StreamApi: the engine is
\* not touched, and "ok" stands for each of these answers.
SessionAnswer(r) ==
    /\ r \in SessionRequest
    /\ phase[r] = "added"
    /\ Answer(r, "ok")
    /\ UNCHANGED <<engineVars, clientVars, target>>

\* waitForPeers: no handle is a 404, a connected peer is enough, otherwise wait
\* on the handle's torrent, which may be a destroyed one.
WaitForPeers(r) ==
    /\ r \in StreamRequest
    /\ phase[r] = "added"
    /\ \/ /\ target[r] \notin torrents
          /\ Answer(r, "notFound")
       \/ /\ target[r] \in torrents
          /\ peers[target[r]]
          /\ phase' = [phase EXCEPT ![r] = "peered"]
          /\ UNCHANGED <<peerTimer, detached>>
       \/ /\ target[r] \in torrents
          /\ ~peers[target[r]]
          /\ phase' = [phase EXCEPT ![r] = "waiting"]
          /\ peerTimer' = [peerTimer EXCEPT ![r] = PeerTimeout]
          /\ detached' = IF client[target[r]] = "ready" THEN detached ELSE detached \cup {r}
    /\ UNCHANGED <<engineVars, clientVars, target>>

\* Mutant of PeerTimesOut: the wait starts over and never rejects.
PeerTimesOutRestarting(r) ==
    /\ Drained
    /\ phase[r] = "waiting"
    /\ peerTimer[r] = 0
    /\ peerTimer' = [peerTimer EXCEPT ![r] = PeerTimeout]
    /\ UNCHANGED <<engineVars, clientVars, phase, target, detached>>

PeerTimesOut(r) ==
    /\ Drained
    /\ phase[r] = "waiting"
    /\ peerTimer[r] = 0
    /\ Answer(r, "unavailable")
    /\ UNCHANGED <<engineVars, clientVars, target>>

\* Mutant of GetFile: the handle is not touched when its stream begins.
GetFileUntouched(r) ==
    /\ phase[r] = "peered"
    /\ \/ /\ target[r] \notin torrents
          /\ Answer(r, "notFound")
       \/ /\ target[r] \in torrents
          /\ phase' = [phase EXCEPT ![r] = "streaming"]
          /\ detached' = IF client[target[r]] = "ready" THEN detached ELSE detached \cup {r}
          /\ UNCHANGED peerTimer
    /\ UNCHANGED <<engineVars, clientVars, target>>

\* getFile: no handle is a 404, a bad index a 400 that does not touch the handle.
GetFile(r) ==
    /\ phase[r] = "peered"
    /\ \/ /\ target[r] \notin torrents
          /\ Answer(r, "notFound")
          /\ UNCHANGED idle
       \/ /\ target[r] \in torrents
          /\ Answer(r, "badRequest")
          /\ UNCHANGED idle
       \/ /\ target[r] \in torrents
          /\ idle' = [idle EXCEPT ![target[r]] = 0]
          /\ phase' = [phase EXCEPT ![r] = "streaming"]
          /\ detached' = IF client[target[r]] = "ready" THEN detached ELSE detached \cup {r}
          /\ UNCHANGED peerTimer
    /\ UNCHANGED <<torrents, pending, addTimer, removing, sweepTimer, clientVars, target>>

\* The pipe ends: the client got its bytes, or the torrent was destroyed under it.
StreamEnds(r) ==
    /\ Drained
    /\ phase[r] = "streaming"
    /\ Answer(r, IF r \in detached THEN "cut" ELSE "ok")
    /\ UNCHANGED <<engineVars, clientVars, target>>

-----------------------------------------------------------------------------
(* The cleanup interval, and remove. *)

\* Mutant of Sweep: the Map entry is deleted before client.remove has called back.
SweepDeletingEarly ==
    LET gone == {h \in torrents : idle[h] > IdleThreshold /\ client[h] # "absent"}
    IN  /\ Drained
        /\ sweepTimer = 0
        /\ sweepTimer' = CleanupInterval
        /\ removing' = removing \cup gone
        /\ torrents' = torrents \ gone
        /\ client' = [h \in Hash |-> IF h \in gone THEN "absent" ELSE client[h]]
        /\ detached' = detached \cup Holders(gone)
        /\ UNCHANGED <<idle, pending, addTimer, clientUp, peers, duplicate,
                       phase, target, peerTimer>>

\* Mutant of Sweep: a torrent that a request still reads from is spared.
SweepSparingStreams ==
    LET expired == {h \in torrents : idle[h] > IdleThreshold /\ Holders({h}) = {}}
        gone    == {h \in expired : client[h] # "absent"}
    IN  /\ Drained
        /\ sweepTimer = 0
        /\ sweepTimer' = CleanupInterval
        /\ removing' = removing \cup gone
        /\ client' = [h \in Hash |-> IF h \in gone THEN "absent" ELSE client[h]]
        /\ UNCHANGED <<torrents, idle, pending, addTimer, clientUp, peers, duplicate,
                       requestVars>>

\* lastAccessedAt < now - 30 min, for every handle, in one run of the callback.
\* client.remove drops the torrent and destroys its store before it calls back;
\* for a torrent the client does not have, its callback only reports an error.
Sweep ==
    LET expired == {h \in torrents : idle[h] > IdleThreshold}
        gone    == {h \in expired : client[h] # "absent"}
    IN  /\ Drained
        /\ sweepTimer = 0
        /\ sweepTimer' = CleanupInterval
        /\ removing' = removing \cup gone
        /\ client' = [h \in Hash |-> IF h \in gone THEN "absent" ELSE client[h]]
        /\ detached' = detached \cup Holders(gone)
        /\ UNCHANGED <<torrents, idle, pending, addTimer, clientUp, peers, duplicate,
                       phase, target, peerTimer>>

\* The callback of client.remove deletes the Map entry, whoever used it meanwhile.
RemoveDone(h) ==
    /\ Drained
    /\ h \in removing
    /\ removing' = removing \ {h}
    /\ torrents' = torrents \ {h}
    /\ idle' = [idle EXCEPT ![h] = 0]
    /\ UNCHANGED <<pending, addTimer, sweepTimer, clientVars, requestVars>>

\* The store could not be destroyed: the promise is rejected, the entry stays.
RemoveFails(h) ==
    /\ Drained
    /\ "remove" \in Faults
    /\ h \in removing
    /\ removing' = removing \ {h}
    /\ UNCHANGED <<torrents, idle, pending, addTimer, sweepTimer, clientVars, requestVars>>

-----------------------------------------------------------------------------
(* Time, and the whole system. *)

Older(age) == IF age > IdleThreshold THEN age ELSE age + 1

Quiet ==
    /\ sweepTimer > 0
    /\ \A h \in Hash : pending[h] = "inflight" => addTimer[h] > 0
    /\ \A r \in Request : phase[r] = "waiting" => peerTimer[r] > 0

Tick ==
    /\ Drained
    /\ Quiet
    /\ sweepTimer' = sweepTimer - 1
    /\ idle' = [h \in Hash |-> IF h \in torrents THEN Older(idle[h]) ELSE 0]
    /\ addTimer' = [h \in Hash |-> IF pending[h] = "inflight" THEN addTimer[h] - 1 ELSE 0]
    /\ peerTimer' = [r \in Request |-> IF phase[r] = "waiting" THEN peerTimer[r] - 1 ELSE 0]
    /\ UNCHANGED <<torrents, pending, removing, clientVars, phase, target, detached>>

GetOrAdd(r, h) ==
    \/ GetOrAddHit(r, h)
    \/ GetOrAddBusy(r, h)
    \/ GetOrAddPending(r, h)
    \/ GetOrAddStart(r, h)
    \/ GetOrAddThrows(r, h)

Continue(r) ==
    \/ SessionAnswer(r)
    \/ WaitForPeers(r)
    \/ GetFile(r)

WebTorrentEvent(h) ==
    \/ TorrentReady(h)
    \/ OrphanReady(h)
    \/ DuplicateRefused(h)
    \/ TorrentError(h)
    \/ Wire(h)
    \/ PeersLost(h)

\* What the event loop runs, at one moment.
Turn ==
    \/ \E r \in Request :
          \/ \E h \in Hash : GetOrAdd(r, h)
          \/ Continue(r)
          \/ PeerTimesOut(r)
          \/ StreamEnds(r)
    \/ \E h \in Hash : WebTorrentEvent(h) \/ AddTimesOut(h) \/ RemoveDone(h) \/ RemoveFails(h)
    \/ ClientError
    \/ Sweep

Next == Turn \/ Tick

DueTimer ==
    \/ \E r \in Request : PeerTimesOut(r)
    \/ \E h \in Hash : AddTimesOut(h)
    \/ Sweep

\* Node runs the continuations that are queued, and time goes on, through the timers
\* that are due, however many requests come in: strong fairness, because each of
\* them holds the event loop for a moment. Nothing is assumed of clients, peers or
\* torrents, but that a removal calls back.
EventLoop ==
    /\ WF_vars(\E r \in Request : Continue(r))
    /\ SF_vars(DueTimer \/ Tick)
    /\ \A h \in Hash : SF_vars(RemoveDone(h) \/ RemoveFails(h))

Spec == Init /\ [][Next]_vars /\ EventLoop

-----------------------------------------------------------------------------
(* Properties that hold. *)

TypeOK ==
    /\ torrents \subseteq Hash
    /\ idle \in [Hash -> 0..IdleThreshold + 1]
    /\ pending \in [Hash -> {"none", "inflight", "rejected"}]
    /\ addTimer \in [Hash -> 0..AddTimeout]
    /\ removing \subseteq Hash
    /\ sweepTimer \in 0..CleanupInterval
    /\ clientUp \in BOOLEAN
    /\ client \in [Hash -> {"absent", "adding", "ready"}]
    /\ peers \in [Hash -> BOOLEAN]
    /\ duplicate \subseteq Hash
    /\ phase \in [Request -> Answered \cup {"none", "adding", "added", "waiting",
                                           "peered", "streaming"}]
    /\ target \in [Request -> Hash]
    /\ peerTimer \in [Request -> 0..PeerTimeout]
    /\ detached \subseteq Request

\* A request that awaits getOrAdd awaits a promise that is still in flight, so
\* that a ready event, an error or the 45 s timer is bound to answer it.
NoStrandedWaiter ==
    \A r \in Request : phase[r] = "adding" => pending[target[r]] = "inflight"

\* An addition that is refused for good, so that its hash cannot be requested again, is only
\* found after the client has failed: no other error, and no timer, leaves a promise behind.
RejectedByClientOnly == \A h \in Hash : pending[h] = "rejected" => ~clientUp

\* A hash is never both in `torrents` and in `pending` as an addition in flight:
\* no second client.add for a torrent the engine already serves.
ReadyOrInFlight == \A h \in torrents : pending[h] # "inflight"

\* What a removal owns: its handle is still in the Map, and WebTorrent has
\* neither its torrent nor a new one of the same hash in loading.
RemovalOwnsHandle ==
    /\ removing \subseteq torrents
    /\ \A h \in removing : client[h] = "absent"
    /\ \A h \in torrents : client[h] # "adding"

\* waitForPeers and getFile find the handle their request got from getOrAdd: their
\* 404 "Torrent not active." is never answered to a stream request, although a
\* removal may be under way or end while it waits for a peer.
NeverNotActive == \A r \in Request : phase[r] # "notFound"

\* Why: a request whose continuation is queued has its handle in the Map, and one
\* that holds a torrent object WebTorrent has not destroyed is of a live handle.
HandleIsThere ==
    \A r \in Request :
        /\ phase[r] \in {"added", "peered"} => target[r] \in torrents
        /\ phase[r] \in {"waiting", "streaming"} /\ r \notin detached
              => target[r] \in torrents /\ client[target[r]] = "ready"

\* The age of a handle, as seen by a request between its getOrAdd and its
\* getFile: at most the time that request has spent waiting for a peer.
HandleIsFresh ==
    \A r \in Request : target[r] \in torrents =>
        /\ phase[r] = "added" => idle[target[r]] = 0
        /\ phase[r] = "waiting" => idle[target[r]] + peerTimer[r] <= PeerTimeout
        /\ phase[r] = "peered" => idle[target[r]] <= PeerTimeout

\* The inductive invariant.
Consistent ==
    /\ TypeOK
    /\ NoStrandedWaiter
    /\ RejectedByClientOnly
    /\ ReadyOrInFlight
    /\ RemovalOwnsHandle
    /\ HandleIsThere
    /\ HandleIsFresh
    /\ NeverNotActive
    /\ \A h \in duplicate : pending[h] = "inflight"

\* README.md:262 promises at most MAX_CONCURRENT_TORRENTS torrents, which requests that come
\* before any of them is ready exceed. They exceed it by less than their own number: if n
\* slots were enough for all requests so far, the torrents served and in loading are fewer
\* than the limit and n together.
InFlight == {h \in Hash : pending[h] = "inflight"}
UsedSlots == {r \in Request : phase[r] # "none"}

OvershootBounded ==
    LET served == torrents \cup InFlight
    IN  served # {} => Cardinality(served) < MaxConcurrent + Cardinality(UsedSlots)

\* The cleanup never starts to remove a torrent under a request that got it
\* from getOrAdd and has not reached its stream yet: 15 s are less than 30 min.
RemovalSparesRequests ==
    [][\A r \in Request : phase[r] \in {"added", "waiting", "peered"}
                             => target[r] \notin removing' \ removing]_vars

\* Every request gets an answer or its stream, whatever WebTorrent does.
RequestsAnswered ==
    \A r \in Request : (phase[r] \in {"adding", "added", "waiting", "peered"})
                         ~> (phase[r] \in Answered \cup {"streaming"})

\* A handle that no removal will delete any more, as WebTorrent does not have its torrent:
\* the torrent failed after it was ready, or the client did, or a removal took the torrent out
\* and then reported an error (torrentEngine.ts:215). Each later removal is an error, too.
Dead(h) == h \in torrents /\ client[h] = "absent" /\ h \notin removing

\* A handle idle past the threshold is removed together with its torrent, unless a request
\* touches it, or at least its torrent goes (Dead): a removal that is delayed or overtaken is
\* made again, so that no idle torrent keeps its memory and its disk space.
IdleHandleRemoved ==
    \A h \in Hash : (h \in torrents /\ idle[h] > IdleThreshold)
                      ~> (h \notin torrents \/ idle[h] = 0 \/ Dead(h))

\* getOrAdd implements the shared load of SingleFlight.
Loads == INSTANCE SingleFlight WITH
    Key <- Hash,
    Caller <- Request,
    Nobody <- NoHash,
    held <- torrents,
    loading <- InFlight,
    awaits <- [r \in Request |-> IF phase[r] = "adding" THEN target[r] ELSE NoHash]

ImplementsSingleFlight == Loads!Spec

-----------------------------------------------------------------------------
(* Statements of the README that the code does not keep. *)

\* README.md:262: at most MAX_CONCURRENT_TORRENTS concurrent torrents.
ConcurrencyLimit == Cardinality(torrents) <= MaxConcurrent

\* README.md:247-249, for a torrent whose lastAccessedAt is not recent: "remove(infoHash)",
\* "client.remove(destroyStore: true)", "Delete from Map, free memory + disk". A handle idle
\* past the threshold is deleted in the end, unless a request touches it.
IdleHandleDeleted ==
    \A h \in Hash : (h \in torrents /\ idle[h] > IdleThreshold)
                      ~> (h \notin torrents \/ idle[h] = 0)

=============================================================================
