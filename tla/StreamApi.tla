------------------------------ MODULE StreamApi ------------------------------
(***************************************************************************)
(* From a torrent to a stream, over several HTTP requests: a torrent is    *)
(* uploaded or named by a magnet link, a session request resolves its file *)
(* list and mints a stream token, and stream requests present the token.   *)
(*                                                                         *)
(* The handlers meet in three places: the torrent's row in the database,   *)
(* which each of them reads and writes at moments of its own, the tokens,  *)
(* which are signed and stored nowhere, and the engine, taken here at what *)
(* it promises (SingleFlight, which TorrentEngine implements). The process *)
(* may restart: rows and tokens stay, the engine and the requests do not.  *)
(***************************************************************************)
EXTENDS Integers

CONSTANTS
    Torrent,
    Oversized,   \* the torrents above maxTorrentBytes()
    Request,     \* request slots
    NoTorrent

ASSUME TorrentAssumption == Oversized \subseteq Torrent /\ NoTorrent \notin Torrent

VARIABLES
    row,       \* row[t]: which columns of t's row hold something; {}: no row
    tokens,    \* torrents with a signed stream token that has not expired
    kind,      \* kind[r]: "session" or "stream"
    phase,     \* phase[r]: how far request r is, or its answer
    target,    \* target[r]: the torrent r is for
    seen,      \* seen[r]: the row as r's handler read it
    held, loading, awaits    \* the engine

dbVars == <<row, tokens>>
requestVars == <<kind, phase, target, seen>>
engineVars == <<held, loading, awaits>>
vars == <<dbVars, requestVars, engineVars>>

Engine == INSTANCE SingleFlight WITH Key <- Torrent, Caller <- Request, Nobody <- NoTorrent

\* The columns that matter: magnetUri, torrentFile, a fileList that is not empty, a size
\* that is not 0. No handler tests the size column: the limit is applied to what the
\* parser or the engine reports.
Column == {"magnet", "file", "list", "size"}

Answered == {"ok", "notFound", "unauthorized", "notReady", "badIndex", "tooLarge",
             "unavailable", "failed", "cut"}
Free(r) == phase[r] \in Answered \cup {"none"}

Init ==
    /\ row = [t \in Torrent |-> {}]
    /\ tokens = {}
    /\ kind \in [Request -> {"session", "stream"}]
    /\ phase = [r \in Request |-> "none"]
    /\ target \in [Request -> Torrent]
    /\ seen = [r \in Request |-> {}]
    /\ Engine!Init

Become(r, p) == phase' = [phase EXCEPT ![r] = p]

-----------------------------------------------------------------------------
(* POST /torrents: upsertTorrent is one INSERT ... ON CONFLICT DO UPDATE. *)

\* Mutant of Upsert: an update overwrites the file list with what it has, even nothing.
UpsertOverwriting(t, columns) ==
    row' = [row EXCEPT ![t] =
        IF @ = {} THEN columns ELSE (@ \ {"list"}) \cup (columns \cap {"file", "list"})]

\* A row that exists gains a file list and a torrent file, never a size or a
\* magnet link, and its file list is not replaced by an empty one.
Upsert(t, columns) ==
    row' = [row EXCEPT ![t] =
        IF @ = {} THEN columns ELSE @ \cup (columns \cap {"file", "list"})]

\* What the parsers may make of their input. The uploaded body is kept in any case; it may
\* come without files (parsed.files ?? []: a bare info hash is enough of a body) and without
\* a length that can be used, which then is 0n. A magnet link has neither.
parseTorrentBuffer == {{"file"} \cup found : found \in SUBSET {"list", "size"}}
parseMagnetString == {"magnet"}

\* POST /torrents/upload. Too large a torrent is refused if its length was parsed; a length
\* of 0n passes.
Upload(t) ==
    /\ \E columns \in parseTorrentBuffer :
           /\ "size" \in columns => t \notin Oversized
           /\ Upsert(t, columns)
    /\ UNCHANGED <<tokens, requestVars, engineVars>>

\* POST /torrents/magnet.
Magnet(t) ==
    /\ Upsert(t, parseMagnetString)
    /\ UNCHANGED <<tokens, requestVars, engineVars>>

-----------------------------------------------------------------------------
(* Reading the row, the first await of both handlers. *)

ReadRow(r, t) ==
    /\ Become(r, IF row[t] = {} THEN "notFound" ELSE "read")
    /\ seen' = [seen EXCEPT ![r] = row[t]]

\* GET /torrents/:id/stream
SessionStart(r, t) ==
    /\ Free(r)
    /\ kind' = [kind EXCEPT ![r] = "session"]
    /\ target' = [target EXCEPT ![r] = t]
    /\ ReadRow(r, t)
    /\ UNCHANGED <<dbVars, engineVars>>

\* GET /stream/:streamToken/:fileIndex for t: the index is parsed, then the token
\* verified, then the row is read.
StreamStart(r, t) ==
    /\ Free(r)
    /\ kind' = [kind EXCEPT ![r] = "stream"]
    /\ target' = [target EXCEPT ![r] = t]
    /\ \/ Become(r, "badIndex") /\ seen' = [seen EXCEPT ![r] = {}]
       \/ t \notin tokens /\ Become(r, "unauthorized") /\ seen' = [seen EXCEPT ![r] = {}]
       \/ t \in tokens /\ ReadRow(r, t)
    /\ UNCHANGED <<dbVars, engineVars>>

-----------------------------------------------------------------------------
(* What the handlers do with the row they read. *)

\* The token is signed and the answer sent, in one step.
Mint(r) ==
    /\ tokens' = tokens \cup {target[r]}
    /\ Become(r, "ok")

NeedsEngine(r) ==
    IF kind[r] = "session" THEN "list" \notin seen[r] /\ "magnet" \in seen[r]
                           ELSE "list" \in seen[r]

\* The file list is there already, or there is no magnet link to resolve it from: then the
\* token is minted for a torrent without files.
SessionListed(r) ==
    /\ phase[r] = "read" /\ kind[r] = "session"
    /\ ~NeedsEngine(r)
    /\ Mint(r)
    /\ UNCHANGED <<row, kind, target, seen, engineVars>>

\* The two errors of streamFile before the engine: no list, or an index past it.
StreamRefused(r) ==
    /\ phase[r] = "read" /\ kind[r] = "stream"
    /\ Become(r, IF "list" \in seen[r] THEN "badIndex" ELSE "notReady")
    /\ UNCHANGED <<dbVars, kind, target, seen, engineVars>>

\* torrentEngine.getOrAdd: the torrent is held, in flight, or its load starts.
Activate(r) ==
    /\ phase[r] = "read"
    /\ NeedsEngine(r)
    /\ LET t == target[r]
       IN  \/ t \in held /\ Become(r, "added") /\ UNCHANGED engineVars
           \/ (Engine!Start(r, t) \/ Engine!Join(r, t)) /\ Become(r, "adding")
    /\ UNCHANGED <<dbVars, kind, target, seen>>

\* It is at capacity, or its client is gone.
ActivateRefused(r) ==
    /\ phase[r] = "read"
    /\ NeedsEngine(r)
    /\ target[r] \notin held
    /\ \E answer \in {"unavailable", "failed"} : Become(r, answer)
    /\ UNCHANGED <<dbVars, kind, target, seen, engineVars>>

-----------------------------------------------------------------------------
(* The engine. *)

\* The requests that await the load of t continue with p.
Answer(t, p) == phase' = [r \in Request |-> IF awaits[r] = t THEN p ELSE phase[r]]

\* Mutant of LoadFails: the promise of the load is dropped, not rejected.
LoadFailsSilently(t) ==
    /\ t \in loading
    /\ loading' = loading \ {t}
    /\ UNCHANGED <<held, awaits, dbVars, requestVars>>

LoadCompletes(t) == Engine!Complete(t) /\ Answer(t, "added") /\ UNCHANGED <<dbVars, kind, target, seen>>
LoadFails(t) == Engine!Fail(t) /\ Answer(t, "failed") /\ UNCHANGED <<dbVars, kind, target, seen>>
Evicted(t) == Engine!Evict(t) /\ UNCHANGED <<dbVars, requestVars>>

-----------------------------------------------------------------------------
(* With a handle. *)

\* Mutant of CheckSize: the size is compared after the row is written.
CheckSizeLate(r) ==
    /\ phase[r] = "added" /\ kind[r] = "session"
    /\ Become(r, "saving")
    /\ UNCHANGED <<dbVars, kind, target, seen, engineVars>>

\* The session now knows the size; one too large is refused, and stays in the engine.
CheckSize(r) ==
    /\ phase[r] = "added" /\ kind[r] = "session"
    /\ Become(r, IF target[r] \in Oversized THEN "tooLarge" ELSE "saving")
    /\ UNCHANGED <<dbVars, kind, target, seen, engineVars>>

\* Mutant of Save: the size is left as it is.
SaveListOnly(r) ==
    /\ phase[r] = "saving"
    /\ row' = [row EXCEPT ![target[r]] = @ \cup {"list"}]
    /\ Mint(r)
    /\ UNCHANGED <<kind, target, seen, engineVars>>

\* prisma.torrent.update writes name, size and file list; then the token is minted.
Save(r) ==
    /\ phase[r] = "saving"
    /\ row' = [row EXCEPT ![target[r]] = @ \cup {"list", "size"}]
    /\ Mint(r)
    /\ UNCHANGED <<kind, target, seen, engineVars>>

SaveFails(r) ==
    /\ phase[r] = "saving"
    /\ Become(r, "failed")
    /\ UNCHANGED <<dbVars, kind, target, seen, engineVars>>

\* The stream is sent, or waitForPeers or getFile finds the torrent gone.
StreamEnds(r) ==
    /\ phase[r] = "added" /\ kind[r] = "stream"
    /\ \E answer \in {"ok", "notFound", "unavailable"} : Become(r, answer)
    /\ UNCHANGED <<dbVars, kind, target, seen, engineVars>>

-----------------------------------------------------------------------------

TokenExpires(t) ==
    /\ t \in tokens
    /\ tokens' = tokens \ {t}
    /\ UNCHANGED <<row, requestVars, engineVars>>

\* The process dies and starts again.
Restart ==
    /\ phase' = [r \in Request |-> IF Free(r) THEN phase[r] ELSE "cut"]
    /\ held' = {}
    /\ loading' = {}
    /\ awaits' = [r \in Request |-> NoTorrent]
    /\ UNCHANGED <<dbVars, kind, target, seen>>

Continue(r) ==
    \/ SessionListed(r) \/ StreamRefused(r)
    \/ Activate(r) \/ ActivateRefused(r)
    \/ CheckSize(r) \/ Save(r) \/ SaveFails(r) \/ StreamEnds(r)

EngineStep(t) == LoadCompletes(t) \/ LoadFails(t)

Next ==
    \/ Restart
    \/ \E t \in Torrent :
        \/ Upload(t) \/ Magnet(t) \/ TokenExpires(t)
        \/ EngineStep(t) \/ Evicted(t)
        \/ \E r \in Request : SessionStart(r, t) \/ StreamStart(r, t)
    \/ \E r \in Request : Continue(r)

\* Handlers that can go on do, and the engine ends every load (SingleFlight!Spec).
Spec ==
    /\ Init
    /\ [][Next]_vars
    /\ \A r \in Request : WF_vars(Continue(r))
    /\ \A t \in Torrent : WF_vars(EngineStep(t))

-----------------------------------------------------------------------------
(* Properties. *)

TypeOK ==
    /\ row \in [Torrent -> SUBSET Column]
    /\ tokens \subseteq Torrent
    /\ kind \in [Request -> {"session", "stream"}]
    /\ phase \in [Request -> Answered \cup {"none", "read", "adding", "added", "saving"}]
    /\ target \in [Request -> Torrent]
    /\ seen \in [Request -> SUBSET Column]
    /\ held \subseteq Torrent
    /\ loading \subseteq Torrent
    /\ awaits \in [Request -> Torrent \cup {NoTorrent}]

\* A row that exists has a torrent file or a magnet link to add the torrent from, and so has
\* the copy of it a handler works on.
RowsHaveSource ==
    /\ \A t \in Torrent : row[t] # {} => row[t] \cap {"magnet", "file"} # {}
    /\ \A r \in Request : ~Free(r) => seen[r] \cap {"magnet", "file"} # {}

\* What a handler read may be old, but nothing of it is ever taken back, and a row does not
\* get its magnet link later.
SeenStays ==
    \A r \in Request : ~Free(r) =>
        /\ seen[r] \subseteq row[target[r]]
        /\ "magnet" \in row[target[r]] => "magnet" \in seen[r]

\* Neither the files nor a way for a session to find them.
Unresolvable(columns) == columns \cap {"list", "magnet"} = {}

\* A torrent with a token has its file list in the database, unless no session could have
\* found it, and so has the copy of the row that a stream works on.
TokenIsListed ==
    /\ \A t \in tokens : row[t] # {} /\ ("list" \in row[t] \/ Unresolvable(row[t]))
    /\ \A r \in Request : phase[r] = "read" /\ kind[r] = "stream"
                             => "list" \in seen[r] \/ Unresolvable(seen[r])

\* Only sessions that resolve are in the engine, each on the magnet link it read.
SessionsResolve ==
    \A r \in Request : phase[r] \in {"adding", "added", "saving"} /\ kind[r] = "session"
                          => "magnet" \in seen[r] /\ "list" \notin seen[r]

\* "Request a stream session first to resolve the file list" (stream.controller.ts:83) is
\* never said to a client that did, as it holds a token, of a torrent with a magnet link:
\* minting, resolving and every later upload or magnet link keep the file list. It is said of
\* torrents that were uploaded without files, for which a session resolves nothing and mints
\* a token all the same.
NotReadyOnlyUnresolvable ==
    \A r \in Request : phase[r] = "notReady" => "file" \in seen[r] /\ Unresolvable(seen[r])

\* A torrent above the size limit gets a file list or a token only by an upload from which no
\* length could be parsed, and then its size stays 0; never by a session, however sessions
\* and uploads interleave.
OversizedOnlyUnmeasured ==
    \A t \in Oversized :
        /\ "list" \in row[t] \/ t \in tokens => "file" \in row[t]
        /\ "size" \notin row[t]
        /\ \A r \in Request : target[r] = t => phase[r] # "saving"

\* A request waits for exactly the load of its own torrent.
WaitsForItsLoad ==
    \A r \in Request :
        /\ phase[r] = "adding" <=> awaits[r] # NoTorrent
        /\ awaits[r] # NoTorrent => awaits[r] = target[r] /\ target[r] \in loading

\* Only an upload leaves a torrent listed by a size of 0, as one whose length could not be
\* parsed, or one over a row that exists, of which it never writes the size. A torrent that
\* sessions alone have resolved has its size.
UnsizedIsUploaded ==
    \A t \in Torrent : "list" \in row[t] /\ "size" \notin row[t] => "file" \in row[t]

Consistent ==
    /\ TypeOK
    /\ RowsHaveSource
    /\ SeenStays
    /\ TokenIsListed
    /\ SessionsResolve
    /\ NotReadyOnlyUnresolvable
    /\ OversizedOnlyUnmeasured
    /\ UnsizedIsUploaded
    /\ WaitsForItsLoad

\* Every request is answered.
RequestsAnswered == \A r \in Request : ~Free(r) ~> Free(r)

=============================================================================
