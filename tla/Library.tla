------------------------------- MODULE Library -------------------------------
(***************************************************************************)
(* What users keep of the catalogue: collections with their items          *)
(* (collections.service.ts) and saved torrents (user-torrents.service.ts). *)
(* A handler looks a row up in one query and changes another, or the same, *)
(* in the next; other requests come in between. Foreign keys, cascades and *)
(* unique indexes are those of schema.prisma.                              *)
(*                                                                         *)
(* Torrents come in by uploads and magnet links; no code deletes one.      *)
(***************************************************************************)
EXTENDS Integers

CONSTANTS
    User,
    Collection,  \* ids, a new one for every collection
    Torrent,
    Name,        \* names of collections; a description would be another such column
    Request,     \* request slots
    Undefined    \* a field that is not in the body of a PATCH

ASSUME NamesAssumption == Undefined \notin Name /\ Undefined \notin BOOLEAN

VARIABLES
    torrents,  \* the torrents that have a row
    state,     \* state[c]: "none", "there" or "deleted"
    owner, name, isPublic,   \* the columns of c's row
    items,     \* rows of CollectionItem, as pairs of collection and torrent
    saved,     \* rows of UserTorrent, as pairs of user and torrent
    phase,     \* phase[r]: how far request r is, or its answer
    user,      \* user[r]: who sends r
    coll,      \* coll[r]: the collection r is for
    torrent,   \* torrent[r]: the torrent r is for
    data,      \* data[r]: the fields in the body of a PATCH
    bereft     \* requests whose row was removed since they learnt that it exists

collectionVars == <<state, owner, name, isPublic>>
tableVars == <<torrents, collectionVars, items, saved>>
requestVars == <<user, coll, torrent, data>>
vars == <<tableVars, phase, requestVars, bereft>>

Patch == {d \in [name : Name \cup {Undefined}, isPublic : BOOLEAN \cup {Undefined}] :
              d.name # Undefined \/ d.isPublic # Undefined}

Answered == {"ok", "notFound", "forbidden", "gone", "failed"}
Free(r) == phase[r] \in Answered \cup {"none"}

Init ==
    /\ torrents = {}
    /\ state = [c \in Collection |-> "none"]
    /\ owner \in [Collection -> User] /\ \A c, d \in Collection : owner[c] = owner[d]
    /\ name \in [Collection -> Name] /\ \A c, d \in Collection : name[c] = name[d]
    /\ isPublic = [c \in Collection |-> FALSE]
    /\ items = {}
    /\ saved = {}
    /\ phase = [r \in Request |-> "none"]
    /\ user \in [Request -> User] /\ \A r \in Request, c \in Collection : user[r] = owner[c]
    /\ coll \in [Request -> Collection] /\ \A r, s \in Request : coll[r] = coll[s]
    /\ torrent \in [Request -> Torrent] /\ \A r, s \in Request : torrent[r] = torrent[s]
    /\ data \in [Request -> Patch] /\ \A r, s \in Request : data[r] = data[s]
    /\ bereft = {}

Become(r, p) == phase' = [phase EXCEPT ![r] = p]

\* Upload or magnet link: the torrent gets its row.
NewTorrent(t) ==
    /\ t \notin torrents
    /\ torrents' = torrents \cup {t}
    /\ UNCHANGED <<collectionVars, items, saved, phase, requestVars, bereft>>

-----------------------------------------------------------------------------
(* Collections. *)

\* A request of u about c arrives, and its first query has it answered or go on with p.
Arrive(r, u, c, p) ==
    /\ Free(r)
    /\ user' = [user EXCEPT ![r] = u]
    /\ coll' = [coll EXCEPT ![r] = c]
    /\ Become(r, p)
    /\ bereft' = bereft \ {r}

\* Mutant of verifyOwnership: it only sees to it that the collection exists.
verifyExistence(c, u, p) == IF state[c] # "there" THEN "notFound" ELSE p

\* What becomes of a request of u that goes on with p if c is u's.
verifyOwnership(c, u, p) ==
    IF state[c] # "there" THEN "notFound" ELSE IF owner[c] # u THEN "forbidden" ELSE p

\* POST /collections
createCollection(r, u, c) ==
    /\ state[c] = "none"
    /\ Arrive(r, u, c, "ok")
    /\ state' = [state EXCEPT ![c] = "there"]
    /\ owner' = [owner EXCEPT ![c] = u]
    /\ \E n \in Name, p \in BOOLEAN :
           /\ name' = [name EXCEPT ![c] = n]
           /\ isPublic' = [isPublic EXCEPT ![c] = p]
    /\ UNCHANGED <<torrents, items, saved, torrent, data>>

\* GET /collections/:id, also without a user: somebody else's private collection is not there.
getById(r, u, c) ==
    /\ Arrive(r, u, c, IF state[c] = "there" /\ (isPublic[c] \/ owner[c] = u) THEN "ok"
                       ELSE "notFound")
    /\ UNCHANGED <<tableVars, torrent, data>>

\* PATCH /collections/:id
updateCollection(r, u, c) ==
    /\ \E d \in Patch : data' = [data EXCEPT ![r] = d]
    /\ Arrive(r, u, c, verifyOwnership(c, u, "patching"))
    /\ UNCHANGED <<tableVars, torrent>>

\* Mutant of Update: isPublic defaults to false, as when a collection is created.
UpdateDefaulting(r) ==
    LET c == coll[r] IN
    /\ phase[r] = "patching"
    /\ state[c] = "there"
    /\ name' = [name EXCEPT ![c] = IF data[r].name = Undefined THEN @ ELSE data[r].name]
    /\ isPublic' = [isPublic EXCEPT ![c] =
                        IF data[r].isPublic = Undefined THEN FALSE ELSE data[r].isPublic]
    /\ Become(r, "ok")
    /\ UNCHANGED <<torrents, state, owner, items, saved, requestVars, bereft>>

\* The fields of the body are written, the others left alone. A row that has been deleted
\* meanwhile is an error of Prisma, and the answer 500.
Update(r) ==
    LET c == coll[r] IN
    /\ phase[r] = "patching"
    /\ \/ /\ state[c] = "there"
          /\ name' = [name EXCEPT ![c] = IF data[r].name = Undefined THEN @ ELSE data[r].name]
          /\ isPublic' = [isPublic EXCEPT ![c] =
                              IF data[r].isPublic = Undefined THEN @ ELSE data[r].isPublic]
          /\ Become(r, "ok")
       \/ state[c] # "there" /\ Become(r, "failed") /\ UNCHANGED <<name, isPublic>>
    /\ UNCHANGED <<torrents, state, owner, items, saved, requestVars, bereft>>

\* DELETE /collections/:id
deleteCollection(r, u, c) ==
    /\ Arrive(r, u, c, verifyOwnership(c, u, "deleting"))
    /\ UNCHANGED <<tableVars, torrent, data>>

\* The requests that learnt that the row of c and t, or that of u and t, exists.
RereadersOf(c, t) == {s \in Request : phase[s] = "rereading" /\ coll[s] = c /\ torrent[s] = t}
SaversOf(u, t) == {s \in Request : phase[s] = "rereadingSaved" /\ user[s] = u /\ torrent[s] = t}

\* Mutant of Delete: the items stay.
DeleteAlone(r) ==
    /\ phase[r] = "deleting"
    /\ state[coll[r]] = "there"
    /\ state' = [state EXCEPT ![coll[r]] = "deleted"]
    /\ Become(r, "ok")
    /\ UNCHANGED <<torrents, owner, name, isPublic, items, saved, requestVars, bereft>>

\* The row goes, and its items with it. One that is gone already is an error of Prisma.
Delete(r) ==
    LET c == coll[r] IN
    /\ phase[r] = "deleting"
    /\ \/ /\ state[c] = "there"
          /\ state' = [state EXCEPT ![c] = "deleted"]
          /\ items' = {i \in items : i[1] # c}
          /\ bereft' = bereft \cup UNION {RereadersOf(c, t) : t \in Torrent}
          /\ Become(r, "ok")
       \/ state[c] # "there" /\ Become(r, "failed") /\ UNCHANGED <<state, items, bereft>>
    /\ UNCHANGED <<torrents, owner, name, isPublic, saved, requestVars>>

-----------------------------------------------------------------------------
(* Items. *)

\* POST and DELETE /collections/:id/items
addItem(r, u, c, t) ==
    /\ Arrive(r, u, c, verifyOwnership(c, u, "finding"))
    /\ torrent' = [torrent EXCEPT ![r] = t]
    /\ UNCHANGED <<tableVars, data>>

FindTorrent(r) ==
    /\ phase[r] = "finding"
    /\ Become(r, IF torrent[r] \in torrents THEN "inserting" ELSE "notFound")
    /\ UNCHANGED <<tableVars, requestVars, bereft>>

\* collectionItem.create: without its collection the foreign key refuses it (500); with an
\* item of the kind there, the unique index (P2002), and the request goes on to read it.
InsertItem(r) ==
    LET c == coll[r]  i == <<coll[r], torrent[r]>> IN
    /\ phase[r] = "inserting"
    /\ \/ state[c] # "there" /\ Become(r, "failed") /\ UNCHANGED items
       \/ state[c] = "there" /\ i \in items /\ Become(r, "rereading") /\ UNCHANGED items
       \/ state[c] = "there" /\ i \notin items /\ Become(r, "ok") /\ items' = items \cup {i}
    /\ UNCHANGED <<torrents, collectionVars, saved, requestVars, bereft>>

\* Mutant of RereadItem: the key is not the one that was in the way.
RereadOtherItem(r) ==
    /\ phase[r] = "rereading"
    /\ Become(r, IF \E c \in Collection \ {coll[r]} : <<c, torrent[r]>> \in items
                 THEN "ok" ELSE "gone")
    /\ UNCHANGED <<tableVars, requestVars, bereft>>

\* 404 "Collection item not found." if it was removed in between.
RereadItem(r) ==
    /\ phase[r] = "rereading"
    /\ Become(r, IF <<coll[r], torrent[r]>> \in items THEN "ok" ELSE "gone")
    /\ UNCHANGED <<tableVars, requestVars, bereft>>

removeItem(r, u, c, t) ==
    /\ Arrive(r, u, c, verifyOwnership(c, u, "removing"))
    /\ torrent' = [torrent EXCEPT ![r] = t]
    /\ UNCHANGED <<tableVars, data>>

\* deleteMany, which is content with nothing.
RemoveItem(r) ==
    LET c == coll[r]  t == torrent[r] IN
    /\ phase[r] = "removing"
    /\ items' = items \ {<<c, t>>}
    /\ bereft' = IF <<c, t>> \in items THEN bereft \cup RereadersOf(c, t) ELSE bereft
    /\ Become(r, "ok")
    /\ UNCHANGED <<torrents, collectionVars, saved, requestVars>>

-----------------------------------------------------------------------------
(* Saved torrents. *)

\* POST /user-torrents/:torrentId
saveTorrent(r, u, t) ==
    /\ Arrive(r, u, coll[r], IF t \in torrents THEN "saving" ELSE "notFound")
    /\ torrent' = [torrent EXCEPT ![r] = t]
    /\ UNCHANGED <<tableVars, data>>

Save(r) ==
    LET s == <<user[r], torrent[r]>> IN
    /\ phase[r] = "saving"
    /\ \/ s \in saved /\ Become(r, "rereadingSaved") /\ UNCHANGED saved
       \/ s \notin saved /\ Become(r, "ok") /\ saved' = saved \cup {s}
    /\ UNCHANGED <<torrents, collectionVars, items, requestVars, bereft>>

RereadSaved(r) ==
    /\ phase[r] = "rereadingSaved"
    /\ Become(r, IF <<user[r], torrent[r]>> \in saved THEN "ok" ELSE "gone")
    /\ UNCHANGED <<tableVars, requestVars, bereft>>

\* DELETE /user-torrents/:torrentId: one statement.
removeTorrent(r, u, t) ==
    /\ Free(r)
    /\ user' = [user EXCEPT ![r] = u]
    /\ torrent' = [torrent EXCEPT ![r] = t]
    /\ Become(r, "ok")
    /\ saved' = saved \ {<<u, t>>}
    /\ bereft' = (bereft \ {r}) \cup (IF <<u, t>> \in saved THEN SaversOf(u, t) ELSE {})
    /\ UNCHANGED <<torrents, collectionVars, items, coll, data>>

-----------------------------------------------------------------------------

\* A query fails, or the process dies.
Fail(r) ==
    /\ ~Free(r)
    /\ Become(r, "failed")
    /\ UNCHANGED <<tableVars, requestVars, bereft>>

Arrivals(r, u) ==
    \/ \E c \in Collection :
           \/ createCollection(r, u, c) \/ getById(r, u, c)
           \/ updateCollection(r, u, c) \/ deleteCollection(r, u, c)
           \/ \E t \in Torrent : addItem(r, u, c, t) \/ removeItem(r, u, c, t)
    \/ \E t \in Torrent : saveTorrent(r, u, t) \/ removeTorrent(r, u, t)

Continue(r) ==
    \/ Update(r) \/ Delete(r)
    \/ FindTorrent(r) \/ InsertItem(r) \/ RereadItem(r) \/ RemoveItem(r)
    \/ Save(r) \/ RereadSaved(r)
    \/ Fail(r)

Next ==
    \/ \E t \in Torrent : NewTorrent(t)
    \/ \E r \in Request : Continue(r) \/ \E u \in User : Arrivals(r, u)

Spec == Init /\ [][Next]_vars

-----------------------------------------------------------------------------
(* Properties. *)

TypeOK ==
    /\ torrents \subseteq Torrent
    /\ state \in [Collection -> {"none", "there", "deleted"}]
    /\ owner \in [Collection -> User]
    /\ name \in [Collection -> Name]
    /\ isPublic \in [Collection -> BOOLEAN]
    /\ items \subseteq Collection \X Torrent
    /\ saved \subseteq User \X Torrent
    /\ phase \in [Request -> Answered \cup {"none", "patching", "deleting", "finding",
                      "inserting", "rereading", "removing", "saving", "rereadingSaved"}]
    /\ user \in [Request -> User]
    /\ coll \in [Request -> Collection]
    /\ torrent \in [Request -> Torrent]
    /\ data \in [Request -> Patch]
    /\ bereft \subseteq Request

\* No item of a collection or of a torrent that is not there, however additions and
\* deletions cross.
NoOrphans ==
    /\ \A i \in items : state[i[1]] = "there" /\ i[2] \in torrents
    /\ \A s \in saved : s[2] \in torrents

\* Whoever goes on to change a collection has found it to be theirs, and it still is, or
\* is gone; the torrent they found is still there.
VerifiedStays ==
    \A r \in Request :
        /\ phase[r] \in {"patching", "deleting", "finding", "inserting", "rereading", "removing"} =>
               state[coll[r]] # "none" /\ owner[coll[r]] = user[r]
        /\ phase[r] \in {"inserting", "rereading", "saving", "rereadingSaved"} =>
               torrent[r] \in torrents

\* Who is told that a row exists finds it, unless it was removed since.
RereadersFind ==
    \A r \in Request :
        /\ phase[r] = "rereading" => <<coll[r], torrent[r]>> \in items \/ r \in bereft
        /\ phase[r] = "rereadingSaved" => <<user[r], torrent[r]>> \in saved \/ r \in bereft

\* To add what is there already succeeds as if it were new: "not found" is answered to an
\* addition of a known torrent only if the row was removed while the request was under way.
GoneOnlyIfRemoved == \A r \in Request : phase[r] = "gone" => r \in bereft

Consistent ==
    /\ TypeOK
    /\ NoOrphans
    /\ VerifiedStays
    /\ RereadersFind
    /\ GoneOnlyIfRemoved

\* The collection c as its owner may change it.
Contents(c) == <<state[c], name[c], isPublic[c], {i \in items : i[1] = c}>>

\* A collection and its items change by requests of its owner only, who stays its owner,
\* although ownership is verified in one query and the change made in a later one. The
\* witness is a request of the owner about the collection that ends in this step, or one that
\* ended before and whose slot is not in use again.
OnlyOwnerChanges ==
    [][\A c \in Collection : state[c] # "none" =>
          /\ owner'[c] = owner[c]
          /\ Contents(c)' # Contents(c) =>
                 \E r \in Request : coll[r] = c /\ user[r] = owner[c] /\ phase'[r] = "ok"]_vars

\* PATCH changes what is in its body and nothing else, so that concurrent changes of
\* different fields both last.
PatchesCompose ==
    [][\A c \in Collection : state[c] = "there" =>
          /\ name'[c] # name[c] => \E r \in Request :
                 phase[r] = "patching" /\ coll[r] = c /\ name'[c] = data[r].name
          /\ isPublic'[c] # isPublic[c] => \E r \in Request :
                 phase[r] = "patching" /\ coll[r] = c /\ isPublic'[c] = data[r].isPublic]_vars

=============================================================================
