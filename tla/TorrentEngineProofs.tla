------------------------- MODULE TorrentEngineProofs -------------------------
(***************************************************************************)
(* Consistent is an inductive invariant of TorrentEngine for any number of *)
(* hashes and requests, any limit and any timers with PeerTimeout less     *)
(* than IdleThreshold; the engine's safety properties follow from it, and  *)
(* so does the safety half of its refinement of SingleFlight.              *)
(***************************************************************************)
EXTENDS TimedEngine, FiniteSetTheorems, TLAPS

\* An engine that has done nothing is consistent.
LEMMA InitConsistent == Init => Consistent
BY TimingAssumption
   DEF Init, Consistent, TypeOK, NoStrandedWaiter, RejectedByClientOnly, ReadyOrInFlight,
       RemovalOwnsHandle, HandleIsThere, HandleIsFresh, NeverNotActive, Answered

\* The first step of a request: getOrAdd finds a handle, no room, a promise, or
\* nothing, in which case it starts an addition or puts a rejected promise there.
LEMMA GetOrAddConsistent ==
    ASSUME Consistent, NEW r \in Request, NEW h \in Hash, GetOrAdd(r, h)
    PROVE  Consistent'
<1> USE TimingAssumption
    DEF Consistent, TypeOK, NoStrandedWaiter, RejectedByClientOnly, ReadyOrInFlight,
        RemovalOwnsHandle, HandleIsThere, HandleIsFresh, NeverNotActive, Answered, Free, Drained, Enter
<1>1. CASE GetOrAddHit(r, h)
    BY <1>1 DEF GetOrAddHit, clientVars
<1>2. CASE GetOrAddBusy(r, h)
    BY <1>2 DEF GetOrAddBusy, engineVars, clientVars
<1>3. CASE GetOrAddPending(r, h)
    BY <1>3 DEF GetOrAddPending, engineVars, clientVars
<1>4. CASE GetOrAddStart(r, h)
    BY <1>4 DEF GetOrAddStart, ClientAdd
<1>5. CASE GetOrAddThrows(r, h)
    BY <1>5 DEF GetOrAddThrows, clientVars
<1>6. QED
    BY <1>1, <1>2, <1>3, <1>4, <1>5 DEF GetOrAdd

\* The end of an addition, by WebTorrent or by the timer, and the other events.
LEMMA WebTorrentConsistent ==
    ASSUME Consistent, NEW h \in Hash, WebTorrentEvent(h) \/ AddTimesOut(h)
    PROVE  Consistent'
<1> USE TimingAssumption
    DEF Consistent, TypeOK, NoStrandedWaiter, RejectedByClientOnly, ReadyOrInFlight,
        RemovalOwnsHandle, HandleIsThere, HandleIsFresh, NeverNotActive, Answered, Drained,
        Move, Adders, Settle, Listening
<1>1. CASE TorrentReady(h)
  <2>1. TypeOK' /\ NoStrandedWaiter' /\ RejectedByClientOnly' /\ ReadyOrInFlight' /\ RemovalOwnsHandle'
      BY <1>1 DEF TorrentReady
  <2>2. HandleIsThere' /\ HandleIsFresh' /\ NeverNotActive'
      BY <1>1 DEF TorrentReady
  <2>3. (\A k \in duplicate : pending[k] = "inflight")'
      BY <1>1 DEF TorrentReady
  <2>4. QED
      BY <2>1, <2>2, <2>3
<1>2. CASE OrphanReady(h)
    BY <1>2 DEF OrphanReady, engineVars, requestVars
<1>3. CASE DuplicateRefused(h)
    BY <1>3 DEF DuplicateRefused
<1>4. CASE TorrentError(h)
  <2>1. TypeOK' /\ NoStrandedWaiter' /\ RejectedByClientOnly' /\ ReadyOrInFlight' /\ RemovalOwnsHandle'
      BY <1>4 DEF TorrentError, PeerWaiters, Holders
  \* Who held the torrent fails, or is detached from now on.
  <2>2. HandleIsThere' /\ HandleIsFresh' /\ NeverNotActive'
      BY <1>4 DEF TorrentError, PeerWaiters, Holders
  <2>3. (\A k \in duplicate : pending[k] = "inflight")'
      BY <1>4 DEF TorrentError
  <2>4. QED
      BY <2>1, <2>2, <2>3
<1>5. CASE Wire(h)
    \* Only requests that are not detached hear of the peer: their handle is there.
    BY <1>5 DEF Wire, PeerWaiters, engineVars
<1>6. CASE PeersLost(h)
    BY <1>6 DEF PeersLost, engineVars, requestVars
<1>7. CASE AddTimesOut(h)
    BY <1>7 DEF AddTimesOut
<1>8. QED
    BY <1>1, <1>2, <1>3, <1>4, <1>5, <1>6, <1>7 DEF WebTorrentEvent

\* The later steps of a request.
LEMMA RequestConsistent ==
    ASSUME Consistent, NEW r \in Request, Continue(r) \/ PeerTimesOut(r) \/ StreamEnds(r)
    PROVE  Consistent'
<1> USE TimingAssumption
    DEF Consistent, TypeOK, NoStrandedWaiter, RejectedByClientOnly, ReadyOrInFlight,
        RemovalOwnsHandle, HandleIsThere, HandleIsFresh, NeverNotActive, Answered, Answer
<1>1. CASE SessionAnswer(r)
    BY <1>1 DEF SessionAnswer, engineVars, clientVars
<1>2. CASE WaitForPeers(r)
    \* The handle is there, and was touched in this very turn of the event loop.
    BY <1>2 DEF WaitForPeers, engineVars, clientVars
<1>3. CASE GetFile(r)
    BY <1>3 DEF GetFile, clientVars
<1>4. CASE PeerTimesOut(r)
    BY <1>4 DEF PeerTimesOut, engineVars, clientVars
<1>5. CASE StreamEnds(r)
    BY <1>5 DEF StreamEnds, engineVars, clientVars
<1>6. QED
    BY <1>1, <1>2, <1>3, <1>4, <1>5 DEF Continue

\* The cleanup, the end of a removal, the failure of the client, and time.
LEMMA HousekeepingConsistent ==
    ASSUME Consistent,
           Sweep \/ ClientError \/ Tick \/ \E h \in Hash : RemoveDone(h) \/ RemoveFails(h)
    PROVE  Consistent'
<1> USE TimingAssumption
    DEF Consistent, TypeOK, NoStrandedWaiter, RejectedByClientOnly, ReadyOrInFlight,
        RemovalOwnsHandle, HandleIsThere, HandleIsFresh, NeverNotActive, Answered, Drained
<1>1. CASE Sweep
  <2>1. TypeOK' /\ NoStrandedWaiter' /\ RejectedByClientOnly' /\ ReadyOrInFlight' /\ NeverNotActive'
      BY <1>1 DEF Sweep, Holders
  <2>2. RemovalOwnsHandle'
      BY <1>1 DEF Sweep
  <2>3. HandleIsThere' /\ HandleIsFresh'
      BY <1>1 DEF Sweep, Holders
  <2>4. (\A k \in duplicate : pending[k] = "inflight")'
      BY <1>1 DEF Sweep
  <2>5. QED
      BY <2>1, <2>2, <2>3, <2>4
<1>2. CASE ClientError
    BY <1>2 DEF ClientError, Holders, engineVars
<1>3. CASE Tick
  <2>1. TypeOK'
      BY <1>3 DEF Tick, Quiet, Older, clientVars
  <2>2. NoStrandedWaiter' /\ RejectedByClientOnly' /\ ReadyOrInFlight' /\ RemovalOwnsHandle' /\ HandleIsThere'
      BY <1>3 DEF Tick, clientVars
  \* A handle ages by what the timer of a request that waits on it loses.
  <2>3. HandleIsFresh'
      BY <1>3 DEF Tick, Quiet, Older, clientVars
  <2>4. NeverNotActive' /\ (\A k \in duplicate : pending[k] = "inflight")'
      BY <1>3 DEF Tick, clientVars
  <2>5. QED
      BY <2>1, <2>2, <2>3, <2>4
<1>4. ASSUME NEW h \in Hash, RemoveDone(h)
      PROVE  Consistent'
    \* WebTorrent has no torrent of h: every request that holds one is detached.
    BY <1>4 DEF RemoveDone, clientVars, requestVars
<1>5. ASSUME NEW h \in Hash, RemoveFails(h)
      PROVE  Consistent'
    BY <1>5 DEF RemoveFails, clientVars, requestVars
<1>6. QED
    BY <1>1, <1>2, <1>3, <1>4, <1>5

\* Every step of requests, events and timers keeps the engine consistent.
LEMMA NextConsistent == Consistent /\ [Next]_vars => Consistent'
<1> SUFFICES ASSUME Consistent, [Next]_vars
             PROVE  Consistent'
    OBVIOUS
<1>1. CASE Next
    BY <1>1, GetOrAddConsistent, WebTorrentConsistent, RequestConsistent,
       HousekeepingConsistent DEF Next, Turn
<1>2. CASE UNCHANGED vars
    BY <1>2 DEF vars, engineVars, clientVars, requestVars, Consistent, TypeOK,
        NoStrandedWaiter, RejectedByClientOnly, ReadyOrInFlight, RemovalOwnsHandle, HandleIsThere,
        HandleIsFresh, NeverNotActive
<1>3. QED
    BY <1>1, <1>2

\* Without the event loop's fairness.
LEMMA StepsConsistent == Init /\ [][Next]_vars => []Consistent
BY InitConsistent, NextConsistent, PTL

\* The inductive invariant holds of every state of the engine.
THEOREM EngineConsistent == Spec => []Consistent
BY StepsConsistent, PTL DEF Spec

-----------------------------------------------------------------------------

\* Whoever awaits getOrAdd awaits an addition that still runs.
THEOREM AdditionsAreAwaited == Spec => []NoStrandedWaiter
<1>1. Consistent => NoStrandedWaiter
    BY DEF Consistent
<1>2. QED
    BY <1>1, EngineConsistent, PTL

\* No addition runs for a torrent that is being served.
THEOREM TorrentIsAddedOnce == Spec => []ReadyOrInFlight
<1>1. Consistent => ReadyOrInFlight
    BY DEF Consistent
<1>2. QED
    BY <1>1, EngineConsistent, PTL

\* Short of a failure of the client, every hash can be asked for again.
THEOREM HashesAreNotPoisoned == Spec => []RejectedByClientOnly
<1>1. Consistent => RejectedByClientOnly
    BY DEF Consistent
<1>2. QED
    BY <1>1, EngineConsistent, PTL

\* No stream request is answered 404 "Torrent not active.".
THEOREM HandleNeverLost == Spec => []NeverNotActive
<1>1. Consistent => NeverNotActive
    BY DEF Consistent
<1>2. QED
    BY <1>1, EngineConsistent, PTL

\* One step of the engine starts no removal under a request on its way to its stream.
LEMMA StepSparesRequests ==
    ASSUME Consistent, [Next]_vars, NEW r \in Request,
           phase[r] \in {"added", "waiting", "peered"}
    PROVE  target[r] \notin removing' \ removing
<1>1. CASE Sweep
  <2> DEFINE h == target[r]
  <2>1. h \in torrents => idle[h] <= PeerTimeout
      BY TimingAssumption DEF Consistent, HandleIsFresh, TypeOK
  <2>2. h \in removing' \ removing => h \in torrents /\ idle[h] > IdleThreshold
      BY <1>1 DEF Sweep
  <2>3. h \in Hash
      BY DEF Consistent, TypeOK
  <2>4. QED
      BY <2>1, <2>2, <2>3, TimingAssumption DEF Consistent, TypeOK
<1>2. ASSUME NEW q \in Request, NEW h \in Hash, GetOrAdd(q, h)
      PROVE  removing' = removing
    BY <1>2 DEF GetOrAdd, GetOrAddHit, GetOrAddBusy, GetOrAddPending, GetOrAddStart,
        GetOrAddThrows, engineVars
<1>3. ASSUME NEW q \in Request, Continue(q) \/ PeerTimesOut(q) \/ StreamEnds(q)
      PROVE  removing' = removing
    BY <1>3 DEF Continue, SessionAnswer, WaitForPeers, GetFile, PeerTimesOut, StreamEnds,
        engineVars
<1>4. ASSUME NEW h \in Hash, WebTorrentEvent(h) \/ AddTimesOut(h)
      PROVE  removing' = removing
    BY <1>4 DEF WebTorrentEvent, TorrentReady, OrphanReady, DuplicateRefused,
        TorrentError, Wire, PeersLost, AddTimesOut, engineVars
<1>5. ASSUME NEW h \in Hash, RemoveDone(h) \/ RemoveFails(h)
      PROVE  removing' \subseteq removing
    BY <1>5 DEF RemoveDone, RemoveFails
<1>6. CASE ClientError \/ Tick \/ UNCHANGED vars
    BY <1>6 DEF ClientError, Tick, vars, engineVars
<1>7. QED
    BY <1>1, <1>2, <1>3, <1>4, <1>5, <1>6 DEF Next, Turn

\* The cleanup never removes a torrent that a request has just got from getOrAdd.
THEOREM CleanupSparesRequests == Spec => RemovalSparesRequests
<1>1. Consistent /\ [Next]_vars
        => [\A r \in Request : phase[r] \in {"added", "waiting", "peered"}
                                => target[r] \notin removing' \ removing]_vars
    BY StepSparesRequests
<1>2. Spec => [][Next]_vars
    BY DEF Spec
<1>3. QED
    BY <1>1, <1>2, EngineConsistent, PTL DEF RemovalSparesRequests

-----------------------------------------------------------------------------
(* The refinement: every step of the engine is a step of SingleFlight on the *)
(* hashes with a handle, the hashes in flight and the requests that await    *)
(* one, or leaves the three alone.                                           *)

awaitsOf == [r \in Request |-> IF phase[r] = "adding" THEN target[r] ELSE NoHash]

\* A step of the engine is a step of SingleFlight or leaves it alone.
LEMMA StepLoads ==
    ASSUME Consistent, [Next]_vars
    PROVE  [Loads!Next]_(Loads!vars)
<1> DEFINE same == torrents' = torrents /\ InFlight' = InFlight /\ awaitsOf' = awaitsOf
<1> USE HashAssumption DEF InFlight, awaitsOf
<1>1. ASSUME NEW r \in Request, NEW h \in Hash, GetOrAdd(r, h)
      PROVE  same \/ Loads!Start(r, h) \/ Loads!Join(r, h)
  <2> USE DEF Consistent, TypeOK, Free, Answered, Enter
  <2>1. CASE GetOrAddHit(r, h)
      BY <2>1 DEF GetOrAddHit
  <2>2. CASE GetOrAddBusy(r, h)
      BY <2>2 DEF GetOrAddBusy, engineVars
  <2>3. CASE GetOrAddPending(r, h)
      BY <2>3 DEF GetOrAddPending, engineVars, Loads!Join
  <2>4. CASE GetOrAddStart(r, h)
    <3>1. InFlight' = InFlight \cup {h}
        BY <2>4 DEF GetOrAddStart
    <3>2. awaitsOf' = [awaitsOf EXCEPT ![r] = h]
        BY <2>4 DEF GetOrAddStart
    <3>3. awaitsOf[r] = NoHash /\ h \notin torrents \cup InFlight /\ torrents' = torrents
        BY <2>4 DEF GetOrAddStart
    <3>4. QED
        BY <3>1, <3>2, <3>3 DEF Loads!Start
  <2>5. CASE GetOrAddThrows(r, h)
      BY <2>5 DEF GetOrAddThrows
  <2>6. QED
      BY <1>1, <2>1, <2>2, <2>3, <2>4, <2>5 DEF GetOrAdd
<1>2. ASSUME NEW h \in Hash, WebTorrentEvent(h) \/ AddTimesOut(h)
      PROVE  same \/ Loads!Complete(h) \/ Loads!Fail(h)
  <2> USE DEF Consistent, TypeOK, Settle, Move, Adders, Loads!Release
  <2>1. CASE TorrentReady(h)
      BY <2>1 DEF TorrentReady, Listening, Loads!Complete
  <2>2. CASE DuplicateRefused(h)
      BY <2>2 DEF DuplicateRefused, Loads!Fail
  <2>3. CASE AddTimesOut(h)
      BY <2>3 DEF AddTimesOut, Loads!Fail
  <2>4. CASE TorrentError(h)
      BY <2>4 DEF TorrentError, Listening, PeerWaiters, Loads!Fail
  <2>5. CASE Wire(h)
      BY <2>5 DEF Wire, PeerWaiters, engineVars
  <2>6. CASE OrphanReady(h) \/ PeersLost(h)
      BY <2>6 DEF OrphanReady, PeersLost, engineVars, requestVars
  <2>7. QED
      BY <1>2, <2>1, <2>2, <2>3, <2>4, <2>5, <2>6 DEF WebTorrentEvent
<1>3. ASSUME NEW r \in Request, Continue(r) \/ PeerTimesOut(r) \/ StreamEnds(r)
      PROVE  same
    BY <1>3 DEF Continue, SessionAnswer, WaitForPeers, GetFile, PeerTimesOut, StreamEnds,
        Answer, engineVars, Consistent, TypeOK
<1>4. ASSUME NEW h \in Hash, RemoveDone(h) \/ RemoveFails(h)
      PROVE  same \/ Loads!Evict(h)
    BY <1>4 DEF RemoveDone, RemoveFails, requestVars, Consistent, RemovalOwnsHandle,
        Loads!Evict
<1>5. ASSUME Sweep \/ ClientError \/ Tick \/ UNCHANGED vars
      PROVE  same
    BY <1>5 DEF Sweep, ClientError, Tick, vars, engineVars, requestVars
<1>6. same => UNCHANGED Loads!vars
    BY DEF Loads!vars
<1>7. QED
    BY <1>1, <1>2, <1>3, <1>4, <1>5, <1>6 DEF Next, Turn, Loads!Next

\* getOrAdd shares its loads as SingleFlight says, whatever WebTorrent does.
THEOREM EngineSharesLoads == Spec => Loads!Safety
<1>1. Init => Loads!Init
    BY DEF Init, Loads!Init, InFlight
<1>2. Spec => Init /\ [][Next]_vars
    BY DEF Spec
<1>3. QED
    BY <1>1, <1>2, StepLoads, EngineConsistent, PTL DEF Loads!Safety

-----------------------------------------------------------------------------
(* How far the limit is exceeded. *)

Served == torrents \cup InFlight

\* Every addition in flight has its own request that awaits it, and no addition began with
\* the limit reached.
ServedInv ==
    /\ \A h \in InFlight : Adders(h) # {}
    /\ IsFiniteSet(Served)
    /\ OvershootBounded

\* A slot that a request has used is free again when the request is answered, and stays used.
LEMMA SlotsStayUsed ==
    ASSUME Consistent, [Next]_vars
    PROVE  UsedSlots \subseteq UsedSlots'
<1> USE DEF Consistent, TypeOK, UsedSlots
<1>1. ASSUME NEW r \in Request, NEW h \in Hash, GetOrAdd(r, h)
      PROVE  UsedSlots \subseteq UsedSlots'
    BY <1>1 DEF GetOrAdd, GetOrAddHit, GetOrAddBusy, GetOrAddPending, GetOrAddStart,
        GetOrAddThrows, Enter
<1>2. ASSUME NEW h \in Hash, WebTorrentEvent(h) \/ AddTimesOut(h)
      PROVE  UsedSlots \subseteq UsedSlots'
    BY <1>2 DEF WebTorrentEvent, TorrentReady, OrphanReady, DuplicateRefused, TorrentError,
        Wire, PeersLost, AddTimesOut, Settle, Move, requestVars
<1>3. ASSUME NEW r \in Request, Continue(r) \/ PeerTimesOut(r) \/ StreamEnds(r)
      PROVE  UsedSlots \subseteq UsedSlots'
    BY <1>3 DEF Continue, SessionAnswer, WaitForPeers, GetFile, PeerTimesOut, StreamEnds, Answer
<1>4. ASSUME Sweep \/ ClientError \/ Tick \/ UNCHANGED vars
             \/ \E h \in Hash : RemoveDone(h) \/ RemoveFails(h)
      PROVE  UsedSlots \subseteq UsedSlots'
    BY <1>4 DEF Sweep, ClientError, Tick, RemoveDone, RemoveFails, vars, requestVars
<1>5. QED
    BY <1>1, <1>2, <1>3, <1>4 DEF Next, Turn

\* A step that serves nothing new keeps the bound.
LEMMA NotMoreServed ==
    ASSUME ServedInv, Served' \subseteq Served, UsedSlots \subseteq UsedSlots',
           IsFiniteSet(Request)
    PROVE  IsFiniteSet(Served)' /\ OvershootBounded'
<1>1. /\ IsFiniteSet(Served') /\ Cardinality(Served') \in Nat
      /\ Cardinality(Served') <= Cardinality(Served) /\ Cardinality(Served) \in Nat
    BY FS_Subset, FS_CardinalityType DEF ServedInv
<1>2. Served' # {} => Served # {}
    OBVIOUS
<1>3. /\ Cardinality(UsedSlots) \in Nat /\ Cardinality(UsedSlots') \in Nat
      /\ Cardinality(UsedSlots) <= Cardinality(UsedSlots') /\ MaxConcurrent \in Nat
  <2>1. UsedSlots' \subseteq Request
      BY DEF UsedSlots
  <2>2. IsFiniteSet(UsedSlots')
      BY <2>1, FS_Subset
  <2>3. QED
      BY <2>2, FS_Subset, FS_CardinalityType, LimitAssumption
<1>4. Served # {} => Cardinality(Served) < MaxConcurrent + Cardinality(UsedSlots)
    BY DEF ServedInv, OvershootBounded, Served
<1>5. Served' # {} => Cardinality(Served') < MaxConcurrent + Cardinality(UsedSlots')
    BY <1>1, <1>2, <1>3, <1>4
<1>6. QED
    BY <1>1, <1>5 DEF OvershootBounded, Served

\* An addition that starts finds fewer handles than the limit.
LEMMA StartBounded ==
    ASSUME Consistent, ServedInv, IsFiniteSet(Request),
           NEW r \in Request, NEW h \in Hash, GetOrAddStart(r, h)
    PROVE  ServedInv'
<1> USE DEF Consistent, TypeOK
<1>1. /\ torrents' = torrents /\ InFlight' = InFlight \cup {h}
      /\ ~AtCapacity /\ Free(r)
      /\ phase' = [phase EXCEPT ![r] = "adding"]
      /\ target' = [target EXCEPT ![r] = h]
    BY DEF GetOrAddStart, InFlight, Enter
<1>2. \A k \in InFlight' : Adders(k)' # {}
  <2>1. r \in Adders(h)'
      BY <1>1 DEF Adders
  <2>2. \A k \in InFlight : Adders(k) \subseteq Adders(k)'
      BY <1>1 DEF Adders, Free, Answered
  <2>3. QED
      BY <1>1, <2>1, <2>2 DEF ServedInv
\* So there are at most as many additions in flight as slots in use.
<1>3. /\ IsFiniteSet(UsedSlots')
      /\ IsFiniteSet(InFlight') /\ Cardinality(InFlight') <= Cardinality(UsedSlots')
  <2> DEFINE adder == [k \in InFlight' |-> CHOOSE q \in UsedSlots' : target'[q] = k]
  <2>1. \A k \in InFlight' : adder[k] \in UsedSlots' /\ target'[adder[k]] = k
    <3>1. \A k \in InFlight' : \E q \in UsedSlots' : target'[q] = k
        BY <1>2 DEF Adders, UsedSlots
    <3>2. QED
        BY <3>1
  <2>2. adder \in Injection(InFlight', UsedSlots')
      BY <2>1 DEF Injection, IsInjective
  <2>3. IsFiniteSet(UsedSlots')
    <3>1. UsedSlots' \subseteq Request
        BY DEF UsedSlots
    <3>2. QED
        BY <3>1, FS_Subset
  <2>4. QED
      BY <2>2, <2>3, FS_Injection
<1>4. IsFiniteSet(torrents)
    BY FS_Subset DEF ServedInv, Served
<1>5. /\ IsFiniteSet(Served')
      /\ Cardinality(Served') <= Cardinality(torrents) + Cardinality(InFlight')
  <2>1. /\ IsFiniteSet(torrents \cup InFlight')
        /\ Cardinality(torrents \cup InFlight')
             = Cardinality(torrents) + Cardinality(InFlight') - Cardinality(torrents \cap InFlight')
      BY <1>3, <1>4, FS_Union
  <2>2. Cardinality(torrents \cap InFlight') \in Nat
      BY <1>4, FS_Intersection, FS_CardinalityType
  <2>3. Cardinality(torrents) \in Nat /\ Cardinality(InFlight') \in Nat
      BY <1>3, <1>4, FS_CardinalityType
  <2>4. QED
      BY <2>1, <2>2, <2>3, <1>1 DEF Served
<1>6. Cardinality(Served') < MaxConcurrent + Cardinality(UsedSlots')
  <2>1. Cardinality(torrents) \in Nat /\ Cardinality(InFlight') \in Nat
      BY <1>3, <1>4, FS_CardinalityType
  <2>2. Cardinality(Served') \in Nat /\ Cardinality(UsedSlots') \in Nat /\ MaxConcurrent \in Nat
      BY <1>3, <1>5, FS_CardinalityType, LimitAssumption
  <2>3. Cardinality(torrents) < MaxConcurrent
      BY <1>1, <2>1, <2>2 DEF AtCapacity
  <2>4. QED
      BY <1>3, <1>5, <2>1, <2>2, <2>3
<1>7. QED
    BY <1>2, <1>5, <1>6 DEF ServedInv, OvershootBounded, Served

\* No other step serves a torrent more, and the requests that await an addition go on
\* awaiting it until it has ended.
LEMMA StepServes ==
    ASSUME Consistent, [Next]_vars, ~(\E r \in Request, h \in Hash : GetOrAddStart(r, h))
    PROVE  /\ Served' \subseteq Served
           /\ \A h \in InFlight' : h \in InFlight /\ Adders(h) \subseteq Adders(h)'
<1> USE DEF Consistent, TypeOK, InFlight, Served, Adders
<1>1. ASSUME NEW r \in Request, NEW h \in Hash,
             \/ GetOrAddHit(r, h) \/ GetOrAddBusy(r, h) \/ GetOrAddPending(r, h)
             \/ GetOrAddThrows(r, h)
      PROVE  /\ Served' \subseteq Served
             /\ \A k \in InFlight' : k \in InFlight /\ Adders(k) \subseteq Adders(k)'
    BY <1>1 DEF GetOrAddHit, GetOrAddBusy, GetOrAddPending, GetOrAddThrows, Enter, Free,
        Answered, engineVars
<1>2. ASSUME NEW h \in Hash, WebTorrentEvent(h) \/ AddTimesOut(h)
      PROVE  /\ Served' \subseteq Served
             /\ \A k \in InFlight' : k \in InFlight /\ Adders(k) \subseteq Adders(k)'
  <2> USE DEF Settle, Move, Listening, PeerWaiters
  <2>1. CASE TorrentReady(h)
      BY <2>1 DEF TorrentReady
  <2>2. CASE DuplicateRefused(h) \/ AddTimesOut(h)
      BY <2>2 DEF DuplicateRefused, AddTimesOut
  <2>3. CASE TorrentError(h)
      BY <2>3 DEF TorrentError
  <2>4. CASE OrphanReady(h) \/ Wire(h) \/ PeersLost(h)
      BY <2>4 DEF OrphanReady, Wire, PeersLost, engineVars, requestVars
  <2>5. QED
      BY <1>2, <2>1, <2>2, <2>3, <2>4 DEF WebTorrentEvent
<1>3. ASSUME NEW r \in Request, Continue(r) \/ PeerTimesOut(r) \/ StreamEnds(r)
      PROVE  /\ Served' \subseteq Served
             /\ \A k \in InFlight' : k \in InFlight /\ Adders(k) \subseteq Adders(k)'
    BY <1>3 DEF Continue, SessionAnswer, WaitForPeers, GetFile, PeerTimesOut, StreamEnds,
        Answer, engineVars
<1>4. ASSUME Sweep \/ ClientError \/ Tick \/ UNCHANGED vars
             \/ \E h \in Hash : RemoveDone(h) \/ RemoveFails(h)
      PROVE  /\ Served' \subseteq Served
             /\ \A k \in InFlight' : k \in InFlight /\ Adders(k) \subseteq Adders(k)'
    BY <1>4 DEF Sweep, ClientError, Tick, RemoveDone, RemoveFails, vars, engineVars, requestVars
<1>5. QED
    BY <1>1, <1>2, <1>3, <1>4 DEF Next, Turn, GetOrAdd

\* However many requests arrive before one torrent is ready, the torrents served and in
\* loading stay fewer than the limit and the requests under way together.
THEOREM LimitIsNearlyKept ==
    ASSUME IsFiniteSet(Request)
    PROVE  Spec => []OvershootBounded
<1>1. Init => ServedInv
  <2>1. Init => Served = {}
      BY DEF Init, Served, InFlight
  <2>2. QED
      BY <2>1, FS_EmptySet DEF ServedInv, OvershootBounded, Served
<1>2. Consistent /\ ServedInv /\ [Next]_vars => ServedInv'
  <2> SUFFICES ASSUME Consistent, ServedInv, [Next]_vars
               PROVE  ServedInv'
      OBVIOUS
  <2>1. CASE \E r \in Request, h \in Hash : GetOrAddStart(r, h)
      BY <2>1, StartBounded
  <2>2. CASE ~(\E r \in Request, h \in Hash : GetOrAddStart(r, h))
    <3>1. /\ Served' \subseteq Served
          /\ \A h \in InFlight' : h \in InFlight /\ Adders(h) \subseteq Adders(h)'
        BY <2>2, StepServes
    <3>2. UsedSlots \subseteq UsedSlots'
        BY SlotsStayUsed
    <3>3. IsFiniteSet(Served)' /\ OvershootBounded'
        BY <3>1, <3>2, NotMoreServed
    <3>4. QED
        BY <3>1, <3>3 DEF ServedInv
  <2>3. QED
      BY <2>1, <2>2
<1>3. ServedInv => OvershootBounded
    BY DEF ServedInv
<1>4. Spec => Init /\ [][Next]_vars
    BY DEF Spec
<1>5. QED
    BY <1>1, <1>2, <1>3, <1>4, EngineConsistent, PTL

-----------------------------------------------------------------------------
(* How long a request waits, and a stream runs. *)

\* What a request has waited and what is left of the timer it waits for.
WaitedFor ==
    /\ clock \in [Request -> Nat]
    /\ \A r \in Request :
        /\ ~Waiting(r) /\ ~Streaming(r) => clock[r] = 0
        /\ phase[r] = "adding" => clock[r] + addTimer[target[r]] <= AddTimeout
        /\ phase[r] = "added" => clock[r] <= AddTimeout
        /\ phase[r] = "waiting" => r \in StreamRequest
                                     /\ clock[r] + peerTimer[r] <= AddTimeout + PeerTimeout
        /\ phase[r] = "peered" => r \in StreamRequest
                                    /\ clock[r] <= AddTimeout + PeerTimeout

\* The handle of a stream was touched when the stream began, or later.
StreamIsOlder ==
    \A r \in Request : Streaming(r) /\ r \notin detached => idle[target[r]] <= clock[r]

\* How a turn of the event loop may take a request on that then still waits: not at all, by
\* its arrival, by the end of its addition, or past one of the two steps for a peer.
Onward(r) ==
    \/ /\ phase'[r] = phase[r] /\ target'[r] = target[r]
       /\ phase[r] = "adding" => addTimer'[target[r]] = addTimer[target[r]]
       /\ peerTimer'[r] = peerTimer[r]
    \/ Free(r) /\ phase'[r] \in {"adding", "added"}
    \/ phase[r] = "adding" /\ phase'[r] = "added"
    \/ phase[r] = "added" /\ r \in StreamRequest /\ phase'[r] \in {"waiting", "peered"}
    \/ phase[r] = "waiting" /\ phase'[r] = "peered"

\* Every turn takes every request on in one of these ways.
LEMMA TurnOnward ==
    ASSUME Consistent, Turn, NEW r \in Request, Waiting(r)'
    PROVE  Onward(r)
<1> USE DEF Consistent, TypeOK, Onward, Waiting
<1>1. ASSUME NEW q \in Request, NEW h \in Hash, GetOrAdd(q, h)
      PROVE  Onward(r)
    \* A new addition has a timer that nobody awaits yet.
    BY <1>1 DEF GetOrAdd, GetOrAddHit, GetOrAddBusy, GetOrAddPending, GetOrAddStart,
        GetOrAddThrows, Enter, engineVars, NoStrandedWaiter
<1>2. ASSUME NEW q \in Request, Continue(q) \/ PeerTimesOut(q) \/ StreamEnds(q)
      PROVE  Onward(r)
    BY <1>2 DEF Continue, SessionAnswer, WaitForPeers, GetFile, PeerTimesOut, StreamEnds,
        Answer, Answered, engineVars
<1>3. ASSUME NEW h \in Hash, WebTorrentEvent(h) \/ AddTimesOut(h)
      PROVE  Onward(r)
  <2> USE DEF Settle, Move, Adders, Listening, PeerWaiters
  <2>1. CASE TorrentReady(h)
      BY <2>1 DEF TorrentReady
  <2>2. CASE DuplicateRefused(h) \/ AddTimesOut(h)
      BY <2>2 DEF DuplicateRefused, AddTimesOut
  <2>3. CASE TorrentError(h)
      BY <2>3 DEF TorrentError
  <2>4. CASE Wire(h)
      BY <2>4 DEF Wire, engineVars
  <2>5. CASE OrphanReady(h) \/ PeersLost(h)
      BY <2>5 DEF OrphanReady, PeersLost, engineVars, requestVars
  <2>6. QED
      BY <1>3, <2>1, <2>2, <2>3, <2>4, <2>5 DEF WebTorrentEvent
<1>4. ASSUME Sweep \/ ClientError \/ \E h \in Hash : RemoveDone(h) \/ RemoveFails(h)
      PROVE  Onward(r)
    BY <1>4 DEF Sweep, ClientError, RemoveDone, RemoveFails, engineVars, requestVars
<1>5. QED
    BY <1>1, <1>2, <1>3, <1>4 DEF Turn

\* A stream that runs after a turn ran before it, or has just touched its handle.
LEMMA TurnStreams ==
    ASSUME Consistent, Turn, NEW r \in Request, Streaming(r)', r \notin detached'
    PROVE  \/ /\ Streaming(r) /\ r \notin detached
              /\ target'[r] = target[r]
              /\ idle'[target[r]] \in {0, idle[target[r]]}
           \/ idle'[target'[r]] = 0
<1> USE DEF Consistent, TypeOK, Streaming
<1>1. ASSUME NEW q \in Request, NEW h \in Hash, GetOrAdd(q, h)
      PROVE  /\ Streaming(r) /\ r \notin detached /\ target'[r] = target[r]
             /\ idle'[target[r]] \in {0, idle[target[r]]}
    BY <1>1 DEF GetOrAdd, GetOrAddHit, GetOrAddBusy, GetOrAddPending, GetOrAddStart,
        GetOrAddThrows, Enter, Free, Answered, engineVars
<1>2. ASSUME NEW q \in Request, Continue(q) \/ PeerTimesOut(q) \/ StreamEnds(q), q # r
      PROVE  /\ Streaming(r) /\ r \notin detached /\ target'[r] = target[r]
             /\ idle'[target[r]] \in {0, idle[target[r]]}
    BY <1>2 DEF Continue, SessionAnswer, WaitForPeers, GetFile, PeerTimesOut, StreamEnds,
        Answer, engineVars
<1>3. ASSUME Continue(r) \/ PeerTimesOut(r) \/ StreamEnds(r)
      PROVE  idle'[target'[r]] = 0
    BY <1>3 DEF Continue, SessionAnswer, WaitForPeers, GetFile, PeerTimesOut, StreamEnds,
        Answer, Answered, engineVars
<1>4. ASSUME NEW h \in Hash, WebTorrentEvent(h) \/ AddTimesOut(h)
      PROVE  /\ Streaming(r) /\ r \notin detached /\ target'[r] = target[r]
             /\ idle'[target[r]] \in {0, idle[target[r]]}
  <2> USE DEF Settle, Move, Adders
  <2>1. CASE TorrentReady(h)
      BY <2>1 DEF TorrentReady
  <2>2. CASE DuplicateRefused(h) \/ AddTimesOut(h)
      BY <2>2 DEF DuplicateRefused, AddTimesOut
  <2>3. CASE TorrentError(h)
      BY <2>3 DEF TorrentError, PeerWaiters
  <2>4. CASE OrphanReady(h) \/ Wire(h) \/ PeersLost(h)
      BY <2>4 DEF OrphanReady, Wire, PeerWaiters, PeersLost, engineVars, requestVars
  <2>5. QED
      BY <1>4, <2>1, <2>2, <2>3, <2>4 DEF WebTorrentEvent
<1>5. ASSUME Sweep \/ ClientError \/ \E h \in Hash : RemoveDone(h) \/ RemoveFails(h)
      PROVE  /\ Streaming(r) /\ r \notin detached /\ target'[r] = target[r]
             /\ idle'[target[r]] \in {0, idle[target[r]]}
  <2>1. CASE Sweep \/ ClientError
      BY <2>1 DEF Sweep, ClientError, engineVars
  <2>2. ASSUME NEW h \in Hash, RemoveDone(h) \/ RemoveFails(h)
        PROVE  /\ Streaming(r) /\ r \notin detached /\ target'[r] = target[r]
               /\ idle'[target[r]] \in {0, idle[target[r]]}
      BY <2>2 DEF RemoveDone, RemoveFails, requestVars
  <2>3. QED
      BY <1>5, <2>1, <2>2
<1>6. QED
    BY <1>1, <1>2, <1>3, <1>4, <1>5 DEF Turn

\* A turn takes no time: the clocks of those who still wait or stream stand.
LEMMA TurnTimed ==
    ASSUME Consistent, Consistent', WaitedFor, StreamIsOlder, TimedTurn
    PROVE  WaitedFor' /\ StreamIsOlder'
<1> USE TimingAssumption DEF Consistent, TypeOK
<1>1. clock' = [r \in Request |-> IF Waiting(r)' \/ (Streaming(r) /\ Streaming(r)')
                                     THEN clock[r] ELSE 0]
    BY DEF TimedTurn
<1>2. clock' \in [Request -> Nat]
    BY <1>1 DEF WaitedFor
<1>3. ASSUME NEW r \in Request, Waiting(r)'
      PROVE  /\ clock'[r] = clock[r]
             /\ Onward(r)
    BY <1>1, <1>3, TurnOnward DEF TimedTurn
<1>4. ASSUME NEW r \in Request, Free(r)
      PROVE  clock[r] = 0
    BY <1>4 DEF WaitedFor, Free, Answered, Waiting, Streaming
<1>5. WaitedFor'
  <2>1. ASSUME NEW r \in Request, ~Waiting(r)', ~Streaming(r)'
        PROVE  clock'[r] = 0
      BY <1>1, <2>1
  <2>2. QED
      BY <1>2, <1>3, <1>4, <2>1 DEF WaitedFor, Onward, Waiting
<1>6. StreamIsOlder'
  <2> SUFFICES ASSUME NEW r \in Request, Streaming(r)', r \notin detached'
               PROVE  idle'[target'[r]] <= clock'[r]
      BY DEF StreamIsOlder
  <2>1. clock'[r] \in Nat
      BY <1>2
  <2>2. CASE idle'[target'[r]] = 0
      BY <2>1, <2>2
  <2>3. CASE /\ Streaming(r) /\ r \notin detached
             /\ target'[r] = target[r] /\ idle'[target[r]] \in {0, idle[target[r]]}
    <3>1. clock'[r] = clock[r]
        BY <1>1, <2>3
    <3>2. QED
        BY <2>1, <2>3, <3>1 DEF StreamIsOlder
  <2>4. QED
      BY <2>2, <2>3, TurnStreams DEF TimedTurn
<1>7. QED
    BY <1>5, <1>6

\* Time passes for the clock of a request and for its timer, or its handle, alike.
LEMMA TickTimed ==
    ASSUME Consistent, WaitedFor, StreamIsOlder, TimedTick
    PROVE  WaitedFor' /\ StreamIsOlder'
<1> USE TimingAssumption DEF Consistent, TypeOK, Waiting, Streaming, WaitedFor, Older, LongerWait
<1>1. clock' = [r \in Request |-> IF Waiting(r) THEN LongerWait(clock[r])
                                   ELSE IF Streaming(r) THEN Older(clock[r]) ELSE 0]
    BY DEF TimedTick
<1>2. UNCHANGED <<phase, target, pending, detached>> /\ Drained /\ Quiet
    BY DEF TimedTick, Tick
<1>3. clock' \in [Request -> Nat]
    BY <1>1
<1>4. ASSUME NEW r \in Request, phase[r] = "adding"
      PROVE  clock'[r] + addTimer'[target[r]] <= AddTimeout
    BY <1>1, <1>2, <1>4 DEF TimedTick, Tick, NoStrandedWaiter, Quiet
<1>5. ASSUME NEW r \in Request, phase[r] = "waiting"
      PROVE  clock'[r] + peerTimer'[r] <= AddTimeout + PeerTimeout
    BY <1>1, <1>2, <1>5 DEF TimedTick, Tick, Quiet
<1>6. ASSUME NEW r \in Request, Streaming(r), r \notin detached
      PROVE  idle'[target[r]] <= clock'[r]
  <2>1. idle[target[r]] <= clock[r] /\ target[r] \in torrents
      BY <1>6 DEF StreamIsOlder, HandleIsThere
  <2>2. idle'[target[r]] = Older(idle[target[r]]) /\ clock'[r] = Older(clock[r])
      BY <1>1, <1>6, <2>1 DEF TimedTick, Tick
  <2>3. idle[target[r]] \in 0..IdleThreshold + 1 /\ clock[r] \in Nat
      OBVIOUS
  <2>4. QED
      BY <2>1, <2>2, <2>3
<1>7. WaitedFor'
    BY <1>1, <1>2, <1>3, <1>4, <1>5 DEF Drained
<1>8. StreamIsOlder'
    BY <1>2, <1>6 DEF StreamIsOlder
<1>9. QED
    BY <1>7, <1>8

\* The clocks leave the engine as it is.
LEMMA TimedIsEngine == TimedSpec => Init /\ [][Next]_vars
<1>1. TimedInit => Init
    BY DEF TimedInit
<1>2. [TimedNext]_timedVars => [Next]_vars
    BY DEF TimedNext, TimedTurn, TimedTick, timedVars, Next
<1>3. QED
    BY <1>1, <1>2, PTL DEF TimedSpec

\* The clocks agree with the timers and with the ages of the handles.
THEOREM ClocksAgree == TimedSpec => [](Consistent /\ WaitedFor /\ StreamIsOlder)
<1>1. TimedInit => WaitedFor /\ StreamIsOlder
    BY DEF TimedInit, Init, WaitedFor, StreamIsOlder, Waiting, Streaming
<1>2. Consistent /\ Consistent' /\ WaitedFor /\ StreamIsOlder /\ [TimedNext]_timedVars
        => WaitedFor' /\ StreamIsOlder'
  <2> SUFFICES ASSUME Consistent, Consistent', WaitedFor, StreamIsOlder, [TimedNext]_timedVars
               PROVE  WaitedFor' /\ StreamIsOlder'
      OBVIOUS
  <2>1. CASE UNCHANGED timedVars
      BY <2>1 DEF timedVars, vars, engineVars, requestVars, WaitedFor, StreamIsOlder,
          Waiting, Streaming
  <2>2. QED
      BY <2>1, TurnTimed, TickTimed DEF TimedNext
<1>3. QED
    BY <1>1, <1>2, TimedIsEngine, StepsConsistent, PTL DEF TimedSpec

\* No session waits longer than the timer of an addition, and no stream longer than that
\* and the timer for a peer together, for any numbers of requests and torrents.
THEOREM RequestsAnsweredInTime == TimedSpec => []AnsweredInTime
<1>1. Consistent /\ WaitedFor => AnsweredInTime
    BY TimingAssumption, RequestAssumption
       DEF WaitedFor, Waiting, AnsweredInTime, Consistent, TypeOK, Request
<1>2. QED
    BY <1>1, ClocksAgree, PTL

\* A stream that the cleanup cuts has run for longer than the threshold, for any number of
\* requests that touch its torrent, or do not.
THEOREM YoungStreamsSpared == TimedSpec => CleanupSparesYoungStreams
<1>1. ASSUME Consistent, WaitedFor, StreamIsOlder, [TimedNext]_timedVars,
             NEW r \in Request, Streaming(r), r \notin detached,
             target[r] \in removing' \ removing
      PROVE  clock[r] > IdleThreshold
  <2>1. [Next]_vars
      BY <1>1 DEF TimedNext, TimedTurn, TimedTick, timedVars, Next
  <2>2. idle[target[r]] > IdleThreshold
    \* Only the cleanup starts a removal.
    <3>1. \A h \in removing' \ removing : idle[h] > IdleThreshold
        BY <2>1 DEF Next, Turn, Tick, Sweep, ClientError, RemoveDone, RemoveFails,
            WebTorrentEvent, TorrentReady, OrphanReady, DuplicateRefused, TorrentError, Wire,
            PeersLost, AddTimesOut, GetOrAdd, GetOrAddHit, GetOrAddBusy, GetOrAddPending,
            GetOrAddStart, GetOrAddThrows, Continue, SessionAnswer, WaitForPeers, GetFile,
            PeerTimesOut, StreamEnds, vars, engineVars
    <3>2. QED
        BY <1>1, <3>1
  <2>3. idle[target[r]] <= clock[r]
      BY <1>1 DEF StreamIsOlder
  <2>4. idle[target[r]] \in Nat /\ clock[r] \in Nat /\ IdleThreshold \in Nat
    <3>1. idle[target[r]] \in 0..IdleThreshold + 1 /\ IdleThreshold \in Nat
        BY <1>1, TimingAssumption DEF Consistent, TypeOK
    <3>2. clock[r] \in Nat
        BY <1>1 DEF WaitedFor
    <3>3. QED
        BY <3>1, <3>2
  <2>5. QED
      BY <2>2, <2>3, <2>4
<1>2. Consistent /\ WaitedFor /\ StreamIsOlder /\ [TimedNext]_timedVars
        => [\A r \in Request :
                Streaming(r) /\ r \notin detached /\ target[r] \in removing' \ removing
                  => clock[r] > IdleThreshold]_timedVars
    BY <1>1
<1>3. TimedSpec => [][TimedNext]_timedVars
    BY DEF TimedSpec
<1>4. QED
    BY <1>2, <1>3, ClocksAgree, PTL DEF CleanupSparesYoungStreams

=============================================================================
