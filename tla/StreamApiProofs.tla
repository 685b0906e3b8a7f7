--------------------------- MODULE StreamApiProofs ---------------------------
(***************************************************************************)
(* Consistent is an inductive invariant of StreamApi, for any number of    *)
(* torrents and requests; when a token cannot be used, and by which way    *)
(* the size limit is passed, follow from it.                               *)
(***************************************************************************)
EXTENDS StreamApi, TLAPS

\* An empty table is consistent.
LEMMA InitConsistent == Init => Consistent
BY TorrentAssumption
   DEF Init, Engine!Init, Consistent, TypeOK, RowsHaveSource, SeenStays, TokenIsListed,
       SessionsResolve, NotReadyOnlyUnresolvable, OversizedOnlyUnmeasured, UnsizedIsUploaded,
       WaitsForItsLoad, Answered, Free

\* What an upload or a magnet link may bring: a source, and a file list or a size only with a
\* torrent file.
Brought(t, columns) ==
    /\ columns \in SUBSET Column
    /\ columns \cap {"magnet", "file"} # {}
    /\ columns \cap {"list", "size"} # {} => "file" \in columns
    /\ t \in Oversized => "size" \notin columns

\* An upsert only ever adds to a row, never a magnet link or a size to one that exists, and a
\* file list only with a torrent file.
LEMMA UpsertAdds ==
    ASSUME Consistent, NEW t \in Torrent, NEW columns, Brought(t, columns), Upsert(t, columns)
    PROVE  /\ row' \in [Torrent -> SUBSET Column]
           /\ \A u \in Torrent : row[u] \subseteq row'[u]
           /\ \A u \in Torrent : row'[u] # {} => row'[u] \cap {"magnet", "file"} # {}
           /\ \A u \in Torrent : row[u] # {} /\ "magnet" \in row'[u] => "magnet" \in row[u]
           /\ \A u \in Torrent : "list" \in row'[u] => "list" \in row[u] \/ "file" \in row'[u]
           /\ \A u \in Oversized : "size" \notin row'[u]
<1>1. /\ row \in [Torrent -> SUBSET Column]
      /\ \A u \in Torrent : row[u] # {} => row[u] \cap {"magnet", "file"} # {}
      /\ \A u \in Oversized : "size" \notin row[u]
    BY DEF Consistent, TypeOK, RowsHaveSource, OversizedOnlyUnmeasured
<1>2. /\ row'[t] = IF row[t] = {} THEN columns ELSE row[t] \cup (columns \cap {"file", "list"})
      /\ \A u \in Torrent : u # t => row'[u] = row[u]
      /\ row' \in [Torrent -> SUBSET Column]
    BY <1>1 DEF Upsert, Brought
<1>3. /\ row[t] \subseteq row'[t]
      /\ row'[t] # {} => row'[t] \cap {"magnet", "file"} # {}
      /\ row[t] # {} /\ "magnet" \in row'[t] => "magnet" \in row[t]
      /\ "list" \in row'[t] => "list" \in row[t] \/ "file" \in row'[t]
      /\ t \in Oversized => "size" \notin row'[t]
    BY <1>1, <1>2 DEF Brought
<1>4. QED
    BY <1>1, <1>2, <1>3, TorrentAssumption

\* An upsert keeps what tokens and handlers rely on.
LEMMA UpsertConsistent ==
    ASSUME Consistent, NEW t \in Torrent, NEW columns, Brought(t, columns), Upsert(t, columns),
           UNCHANGED <<tokens, requestVars, engineVars>>
    PROVE  Consistent'
<1>1. /\ row' \in [Torrent -> SUBSET Column]
      /\ \A u \in Torrent : row[u] \subseteq row'[u]
      /\ \A u \in Torrent : row'[u] # {} => row'[u] \cap {"magnet", "file"} # {}
      /\ \A u \in Torrent : row[u] # {} /\ "magnet" \in row'[u] => "magnet" \in row[u]
      /\ \A u \in Torrent : "list" \in row'[u] => "list" \in row[u] \/ "file" \in row'[u]
      /\ \A u \in Oversized : "size" \notin row'[u]
    BY UpsertAdds
<1>2. UNCHANGED <<tokens, kind, phase, target, seen, held, loading, awaits>>
    BY DEF requestVars, engineVars
<1>3. TypeOK' /\ WaitsForItsLoad' /\ SessionsResolve' /\ NotReadyOnlyUnresolvable'
    BY <1>1, <1>2
       DEF Consistent, TypeOK, WaitsForItsLoad, SessionsResolve, NotReadyOnlyUnresolvable,
           Unresolvable
<1>4. RowsHaveSource'
    BY <1>1, <1>2 DEF Consistent, RowsHaveSource, Free
<1>5. SeenStays'
  <2> SUFFICES ASSUME NEW r \in Request, ~Free(r)
               PROVE  /\ seen[r] \subseteq row'[target[r]]
                      /\ "magnet" \in row'[target[r]] => "magnet" \in seen[r]
      BY <1>2 DEF SeenStays, Free
  <2>1. target[r] \in Torrent /\ seen[r] \subseteq row[target[r]] /\ seen[r] # {}
        /\ ("magnet" \in row[target[r]] => "magnet" \in seen[r])
      BY DEF Consistent, TypeOK, SeenStays, RowsHaveSource
  <2>2. QED
      BY <1>1, <2>1
<1>6. TokenIsListed'
  <2>1. \A u \in tokens : u \in Torrent /\ row[u] # {} /\ ("list" \in row[u] \/ Unresolvable(row[u]))
      BY DEF Consistent, TypeOK, TokenIsListed
  <2>2. \A u \in tokens : row'[u] # {} /\ ("list" \in row'[u] \/ Unresolvable(row'[u]))
      BY <1>1, <2>1 DEF Unresolvable
  <2>3. QED
      BY <1>2, <2>2 DEF Consistent, TokenIsListed, Unresolvable
<1>7. OversizedOnlyUnmeasured' /\ UnsizedIsUploaded'
    BY <1>1, <1>2, TorrentAssumption
       DEF Consistent, OversizedOnlyUnmeasured, UnsizedIsUploaded
<1>8. QED
    BY <1>3, <1>4, <1>5, <1>6, <1>7 DEF Consistent

\* Uploads, magnet links and expiries change a row or the tokens only.
LEMMA DatabaseConsistent ==
    ASSUME Consistent, NEW t \in Torrent, Upload(t) \/ Magnet(t) \/ TokenExpires(t)
    PROVE  Consistent'
<1>1. CASE Upload(t)
  <2>1. PICK columns \in parseTorrentBuffer :
            /\ "size" \in columns => t \notin Oversized
            /\ Upsert(t, columns)
      BY <1>1 DEF Upload
  <2>2. Brought(t, columns)
      BY <2>1 DEF Brought, parseTorrentBuffer, Column
  <2>3. QED
      BY <1>1, <2>1, <2>2, UpsertConsistent DEF Upload
<1>2. CASE Magnet(t)
  <2>1. Brought(t, parseMagnetString)
      BY DEF Brought, parseMagnetString, Column
  <2>2. QED
      BY <1>2, <2>1, UpsertConsistent DEF Magnet
<1>3. CASE TokenExpires(t)
    BY <1>3
       DEF TokenExpires, Consistent, TypeOK, RowsHaveSource, SeenStays, TokenIsListed,
           SessionsResolve, NotReadyOnlyUnresolvable, OversizedOnlyUnmeasured,
           UnsizedIsUploaded, WaitsForItsLoad, Unresolvable, Free, requestVars, engineVars
<1>4. QED
    BY <1>1, <1>2, <1>3

\* A new request copies the row as it is.
LEMMA StartConsistent ==
    ASSUME Consistent, NEW r \in Request, NEW t \in Torrent,
           SessionStart(r, t) \/ StreamStart(r, t)
    PROVE  Consistent'
<1> USE DEF Consistent, TypeOK, RowsHaveSource, SeenStays, TokenIsListed, SessionsResolve,
            NotReadyOnlyUnresolvable, OversizedOnlyUnmeasured, UnsizedIsUploaded,
            WaitsForItsLoad, Unresolvable, Answered, Free, ReadRow, Become, dbVars, engineVars
<1>1. CASE SessionStart(r, t)
    BY <1>1 DEF SessionStart
<1>2. CASE StreamStart(r, t)
    BY <1>2 DEF StreamStart
<1>3. QED
    BY <1>1, <1>2

\* A handler goes on from the row it read.
LEMMA ContinueConsistent ==
    ASSUME Consistent, NEW r \in Request, Continue(r)
    PROVE  Consistent'
<1> USE TorrentAssumption
    DEF Consistent, TypeOK, RowsHaveSource, SeenStays, TokenIsListed, SessionsResolve,
        NotReadyOnlyUnresolvable, OversizedOnlyUnmeasured, UnsizedIsUploaded,
        WaitsForItsLoad, Unresolvable, Answered, Free, Become, NeedsEngine, dbVars, engineVars
<1>1. CASE SessionListed(r)
    \* What it read has a list or no magnet link; it still has.
    BY <1>1 DEF SessionListed, Mint
<1>2. CASE StreamRefused(r)
    BY <1>2 DEF StreamRefused
<1>3. CASE Activate(r)
    BY <1>3 DEF Activate, Engine!Start, Engine!Join
<1>4. CASE ActivateRefused(r)
    BY <1>4 DEF ActivateRefused
<1>5. CASE CheckSize(r)
    BY <1>5 DEF CheckSize
<1>6. CASE Save(r)
    BY <1>6 DEF Save, Mint, Column
<1>7. CASE SaveFails(r)
    BY <1>7 DEF SaveFails
<1>8. CASE StreamEnds(r)
    BY <1>8 DEF StreamEnds
<1>9. QED
    BY <1>1, <1>2, <1>3, <1>4, <1>5, <1>6, <1>7, <1>8 DEF Continue

\* The engine answers whoever waits; a restart forgets them.
LEMMA EngineConsistent ==
    ASSUME Consistent, Restart \/ \E t \in Torrent : EngineStep(t) \/ Evicted(t)
    PROVE  Consistent'
<1> USE TorrentAssumption
    DEF Consistent, TypeOK, RowsHaveSource, SeenStays, TokenIsListed, SessionsResolve,
        NotReadyOnlyUnresolvable, OversizedOnlyUnmeasured, UnsizedIsUploaded,
        WaitsForItsLoad, Unresolvable, Answered, Free, dbVars, requestVars
<1>1. CASE Restart
    BY <1>1 DEF Restart
<1>2. ASSUME NEW t \in Torrent, LoadCompletes(t)
      PROVE  Consistent'
    BY <1>2 DEF LoadCompletes, Answer, Engine!Complete, Engine!Release
<1>3. ASSUME NEW t \in Torrent, LoadFails(t)
      PROVE  Consistent'
    BY <1>3 DEF LoadFails, Answer, Engine!Fail, Engine!Release
<1>4. ASSUME NEW t \in Torrent, Evicted(t)
      PROVE  Consistent'
    BY <1>4 DEF Evicted, Engine!Evict
<1>5. QED
    BY <1>1, <1>2, <1>3, <1>4 DEF EngineStep

\* Every step of every handler, and a restart, keeps rows, tokens and copies consistent.
LEMMA NextConsistent == Consistent /\ [Next]_vars => Consistent'
<1> SUFFICES ASSUME Consistent, [Next]_vars
             PROVE  Consistent'
    OBVIOUS
<1>1. CASE UNCHANGED vars
    BY <1>1
       DEF vars, dbVars, requestVars, engineVars, Consistent, TypeOK, RowsHaveSource,
           SeenStays, TokenIsListed, SessionsResolve, NotReadyOnlyUnresolvable,
           OversizedOnlyUnmeasured, UnsizedIsUploaded, WaitsForItsLoad, Unresolvable, Free
<1>2. QED
    BY <1>1, DatabaseConsistent, StartConsistent, ContinueConsistent, EngineConsistent DEF Next

\* The inductive invariant.
THEOREM ApiConsistent == Spec => []Consistent
<1>1. Spec => Init /\ [][Next]_vars
    BY PTL DEF Spec
<1>2. QED
    BY <1>1, InitConsistent, NextConsistent, PTL

\* A client with a token is told that the metadata is not ready only of torrents without a
\* magnet link that were uploaded without files.
THEOREM NotReadyHasOneGap == Spec => []NotReadyOnlyUnresolvable
<1>1. Consistent => NotReadyOnlyUnresolvable
    BY DEF Consistent
<1>2. QED
    BY <1>1, ApiConsistent, PTL

\* Sessions alone never leave a listed torrent without its size.
THEOREM SessionsMeasure == Spec => []UnsizedIsUploaded
<1>1. Consistent => UnsizedIsUploaded
    BY DEF Consistent
<1>2. QED
    BY <1>1, ApiConsistent, PTL

\* The one way past the size limit is an upload whose length could not be parsed.
THEOREM SizeLimitHasOneGap == Spec => []OversizedOnlyUnmeasured
<1>1. Consistent => OversizedOnlyUnmeasured
    BY DEF Consistent
<1>2. QED
    BY <1>1, ApiConsistent, PTL

=============================================================================
