---------------------------- MODULE LibraryProofs ----------------------------
(***************************************************************************)
(* Consistent is an inductive invariant of Library, for any number of      *)
(* users, collections, torrents and requests. Ownership may be verified in *)
(* a query of its own because an id is never used twice and an owner never *)
(* changes: what the first query found of it is still true in the second,  *)
(* and whether the row is still there the second finds out itself.         *)
(***************************************************************************)
EXTENDS Library, TLAPS

\* How far a request is that has found its collection to be its user's.
Verified == {"patching", "deleting", "finding", "inserting", "rereading", "removing"}

\* Empty tables are consistent.
LEMMA InitConsistent == Init => Consistent
<1> SUFFICES ASSUME Init
             PROVE  Consistent
    OBVIOUS
<1>1. /\ torrents = {} /\ items = {} /\ saved = {} /\ bereft = {}
      /\ phase = [r \in Request |-> "none"]
    BY DEF Init
<1>2. TypeOK
    BY DEF Init, TypeOK
<1>3. QED
    BY <1>1, <1>2
       DEF Consistent, NoOrphans, VerifiedStays, RereadersFind, GoneOnlyIfRemoved

\* What the first query of a request may have found out.
LEMMA ArrivalFindings ==
    ASSUME TypeOK, NEW r \in Request, NEW u \in User, NEW c \in Collection, NEW q,
           q \in {"patching", "deleting", "finding", "removing"},
           Arrive(r, u, c, verifyOwnership(c, u, q))
    PROVE  /\ phase[r] \in Answered \cup {"none"}
           /\ \E p \in {"notFound", "forbidden", q} :
                  /\ phase' = [phase EXCEPT ![r] = p]
                  /\ p = q => state[c] = "there" /\ owner[c] = u
           /\ user' = [user EXCEPT ![r] = u]
           /\ coll' = [coll EXCEPT ![r] = c]
           /\ bereft' = bereft \ {r}
BY DEF Arrive, verifyOwnership, Become, Free

\* A request whose ownership is verified when it arrives.
LEMMA VerifiedArrivalConsistent ==
    ASSUME Consistent, NEW r \in Request, NEW u \in User, NEW c \in Collection, NEW q,
           q \in {"patching", "deleting", "finding", "removing"},
           Arrive(r, u, c, verifyOwnership(c, u, q)),
           UNCHANGED tableVars,
           data' \in [Request -> Patch],
           torrent' \in [Request -> Torrent],
           \A s \in Request : s # r => torrent'[s] = torrent[s]
    PROVE  Consistent'
<1> USE DEF Consistent, Answered, tableVars, collectionVars
<1>1. PICK p \in {"notFound", "forbidden", q} :
          /\ phase' = [phase EXCEPT ![r] = p]
          /\ p = q => state[c] = "there" /\ owner[c] = u
    BY ArrivalFindings
<1>2. /\ phase[r] \in Answered \cup {"none"}
      /\ user' = [user EXCEPT ![r] = u]
      /\ coll' = [coll EXCEPT ![r] = c]
      /\ bereft' = bereft \ {r}
    BY ArrivalFindings
<1>3. TypeOK'
    BY <1>1, <1>2 DEF TypeOK
<1>4. NoOrphans'
    BY DEF NoOrphans
<1>5. VerifiedStays'
    BY <1>1, <1>2 DEF TypeOK, VerifiedStays
<1>6. RereadersFind' /\ GoneOnlyIfRemoved'
    BY <1>1, <1>2 DEF TypeOK, RereadersFind, GoneOnlyIfRemoved
<1>7. QED
    BY <1>3, <1>4, <1>5, <1>6

\* Every request of the API arrives in a consistent state.
LEMMA ArrivalConsistent ==
    ASSUME Consistent, NEW r \in Request, NEW u \in User, Arrivals(r, u)
    PROVE  Consistent'
<1> USE DEF Consistent, TypeOK, NoOrphans, VerifiedStays, RereadersFind, GoneOnlyIfRemoved,
            Answered, tableVars, collectionVars
<1>1. ASSUME NEW c \in Collection, createCollection(r, u, c)
      PROVE  Consistent'
  <2>1. PICK n \in Name, p \in BOOLEAN :
            name' = [name EXCEPT ![c] = n] /\ isPublic' = [isPublic EXCEPT ![c] = p]
      BY <1>1 DEF createCollection
  <2>2. /\ state[c] = "none"
        /\ state' = [state EXCEPT ![c] = "there"]
        /\ owner' = [owner EXCEPT ![c] = u]
        /\ phase[r] \in Answered \cup {"none"}
        /\ phase' = [phase EXCEPT ![r] = "ok"]
        /\ user' = [user EXCEPT ![r] = u]
        /\ coll' = [coll EXCEPT ![r] = c]
        /\ bereft' = bereft \ {r}
        /\ UNCHANGED <<torrents, items, saved, torrent, data>>
      BY <1>1 DEF createCollection, Arrive, Become, Free
  <2>3. TypeOK'
      BY <2>1, <2>2
  <2>4. NoOrphans' /\ VerifiedStays' /\ RereadersFind' /\ GoneOnlyIfRemoved'
      BY <2>2
  <2>5. QED
      BY <2>3, <2>4
<1>2. ASSUME NEW c \in Collection, getById(r, u, c)
      PROVE  Consistent'
    BY <1>2 DEF getById, Arrive, Become, Free
<1>3. ASSUME NEW c \in Collection, updateCollection(r, u, c) \/ deleteCollection(r, u, c)
      PROVE  Consistent'
  <2>1. \E q \in {"patching", "deleting"} : Arrive(r, u, c, verifyOwnership(c, u, q))
      BY <1>3 DEF updateCollection, deleteCollection
  <2>2. UNCHANGED <<tableVars, torrent>> /\ data' \in [Request -> Patch]
      BY <1>3 DEF updateCollection, deleteCollection
  <2> HIDE DEF Consistent, TypeOK, tableVars, collectionVars
  <2>3. torrent \in [Request -> Torrent]
      BY DEF Consistent, TypeOK
  <2>4. QED
      BY <2>1, <2>2, <2>3, VerifiedArrivalConsistent
<1>4. ASSUME NEW c \in Collection, NEW t \in Torrent, addItem(r, u, c, t) \/ removeItem(r, u, c, t)
      PROVE  Consistent'
  <2>1. \E q \in {"finding", "removing"} : Arrive(r, u, c, verifyOwnership(c, u, q))
      BY <1>4 DEF addItem, removeItem
  <2>2. /\ UNCHANGED <<tableVars, data>> /\ torrent' = [torrent EXCEPT ![r] = t]
        /\ torrent \in [Request -> Torrent] /\ data \in [Request -> Patch]
      BY <1>4 DEF addItem, removeItem
  <2> HIDE DEF Consistent, TypeOK, tableVars, collectionVars
  <2>3. QED
      BY <2>1, <2>2, VerifiedArrivalConsistent
<1>5. ASSUME NEW t \in Torrent, saveTorrent(r, u, t)
      PROVE  Consistent'
    BY <1>5 DEF saveTorrent, Arrive, Become, Free
<1>6. ASSUME NEW t \in Torrent, removeTorrent(r, u, t)
      PROVE  Consistent'
  <2>1. /\ phase[r] \in Answered \cup {"none"}
        /\ phase' = [phase EXCEPT ![r] = "ok"]
        /\ user' = [user EXCEPT ![r] = u]
        /\ torrent' = [torrent EXCEPT ![r] = t]
        /\ saved' = saved \ {<<u, t>>}
        /\ bereft' = (bereft \ {r}) \cup (IF <<u, t>> \in saved THEN SaversOf(u, t) ELSE {})
        /\ UNCHANGED <<torrents, collectionVars, items, coll, data>>
      BY <1>6 DEF removeTorrent, Become, Free
  <2>2. TypeOK' /\ NoOrphans' /\ VerifiedStays'
      BY <2>1 DEF SaversOf
  <2>3. RereadersFind' /\ GoneOnlyIfRemoved'
      BY <2>1 DEF SaversOf
  <2>4. QED
      BY <2>2, <2>3
<1>7. QED
    BY <1>1, <1>2, <1>3, <1>4, <1>5, <1>6 DEF Arrivals

\* The second query, and the third.
LEMMA ContinueConsistent ==
    ASSUME Consistent, NEW r \in Request, Continue(r)
    PROVE  Consistent'
<1> USE DEF Consistent, TypeOK, NoOrphans, VerifiedStays, RereadersFind, GoneOnlyIfRemoved,
            Answered, tableVars, collectionVars, requestVars, Become
<1>1. CASE Update(r)
  <2>1. /\ data[r] \in [name : Name \cup {Undefined}, isPublic : BOOLEAN \cup {Undefined}]
        /\ \E p \in {"ok", "failed"} : phase' = [phase EXCEPT ![r] = p]
        /\ phase[r] = "patching"
        /\ UNCHANGED <<torrents, state, owner, items, saved, requestVars, bereft>>
      BY <1>1 DEF Update, Patch
  <2>2. name' \in [Collection -> Name]
    <3>1. data[r].name \in Name \cup {Undefined}
        BY <2>1
    <3>2. PICK n : /\ n \in Name \cup {name[coll[r]]}
                   /\ name' = [name EXCEPT ![coll[r]] = n] \/ name' = name
        BY <1>1, <3>1, Zenon DEF Update
    <3>3. QED
        BY <3>2
  <2>3. isPublic' \in [Collection -> BOOLEAN]
    <3>1. data[r].isPublic \in BOOLEAN \cup {Undefined}
        BY <2>1
    <3>2. PICK p : /\ p \in BOOLEAN \cup {isPublic[coll[r]]}
                   /\ isPublic' = [isPublic EXCEPT ![coll[r]] = p] \/ isPublic' = isPublic
        BY <1>1, <3>1, Zenon DEF Update
    <3>3. QED
        BY <3>2
  <2>4. TypeOK'
      BY <2>1, <2>2, <2>3
  <2>5. NoOrphans' /\ VerifiedStays' /\ RereadersFind' /\ GoneOnlyIfRemoved'
      BY <2>1
  <2>6. QED
      BY <2>4, <2>5
<1>2. CASE Delete(r)
  <2>1. CASE state[coll[r]] = "there"
    <3>1. /\ phase[r] = "deleting"
          /\ state' = [state EXCEPT ![coll[r]] = "deleted"]
          /\ items' = {i \in items : i[1] # coll[r]}
          /\ bereft' = bereft \cup UNION {RereadersOf(coll[r], t) : t \in Torrent}
          /\ phase' = [phase EXCEPT ![r] = "ok"]
          /\ UNCHANGED <<torrents, owner, name, isPublic, saved, requestVars>>
        BY <1>2, <2>1 DEF Delete
    <3>2. \A s \in Request : phase[s] = "rereading" /\ coll[s] = coll[r] => s \in bereft'
        BY <3>1 DEF RereadersOf
    <3>3. bereft' \subseteq Request /\ bereft \subseteq bereft'
        BY <3>1 DEF RereadersOf
    <3>4. TypeOK' /\ NoOrphans' /\ VerifiedStays'
        BY <3>1, <3>3
    <3>5. RereadersFind' /\ GoneOnlyIfRemoved'
        BY <3>1, <3>2, <3>3
    <3>6. QED
        BY <3>4, <3>5
  <2>2. CASE state[coll[r]] # "there"
      BY <1>2, <2>2 DEF Delete
  <2>3. QED
      BY <2>1, <2>2
<1>3. CASE FindTorrent(r) \/ RereadItem(r) \/ RereadSaved(r) \/ Fail(r)
    BY <1>3 DEF FindTorrent, RereadItem, RereadSaved, Fail
<1>4. CASE InsertItem(r)
    BY <1>4 DEF InsertItem
<1>5. CASE RemoveItem(r)
  <2>1. /\ phase[r] = "removing"
        /\ items' = items \ {<<coll[r], torrent[r]>>}
        /\ bereft' = IF <<coll[r], torrent[r]>> \in items
                     THEN bereft \cup RereadersOf(coll[r], torrent[r]) ELSE bereft
        /\ phase' = [phase EXCEPT ![r] = "ok"]
        /\ UNCHANGED <<torrents, collectionVars, saved, requestVars>>
      BY <1>5 DEF RemoveItem
  <2>2. TypeOK' /\ NoOrphans' /\ VerifiedStays'
      BY <2>1 DEF RereadersOf
  <2>3. RereadersFind' /\ GoneOnlyIfRemoved'
      BY <2>1 DEF RereadersOf
  <2>4. QED
      BY <2>2, <2>3
<1>6. CASE Save(r)
    BY <1>6 DEF Save
<1>7. QED
    BY <1>1, <1>2, <1>3, <1>4, <1>5, <1>6 DEF Continue

\* Every step of every request keeps the library consistent.
LEMMA NextConsistent == Consistent /\ [Next]_vars => Consistent'
<1> SUFFICES ASSUME Consistent, [Next]_vars
             PROVE  Consistent'
    OBVIOUS
<1> USE DEF Consistent, TypeOK, NoOrphans, VerifiedStays, RereadersFind, GoneOnlyIfRemoved,
            tableVars, collectionVars, requestVars
<1>1. ASSUME NEW t \in Torrent, NewTorrent(t)
      PROVE  Consistent'
    BY <1>1 DEF NewTorrent
<1>2. CASE UNCHANGED vars
    BY <1>2 DEF vars
<1>3. QED
    BY <1>1, <1>2, ArrivalConsistent, ContinueConsistent DEF Next

\* The inductive invariant.
THEOREM LibraryConsistent == Spec => []Consistent
<1>1. Spec => Init /\ [][Next]_vars
    BY PTL DEF Spec
<1>2. QED
    BY <1>1, InitConsistent, NextConsistent, PTL

\* Which steps change collections and items.
LEMMA StepKinds ==
    ASSUME Next
    PROVE  \/ UNCHANGED <<collectionVars, items>>
           \/ \E r \in Request, u \in User, d \in Collection : createCollection(r, u, d)
           \/ \E r \in Request : Update(r) \/ Delete(r) \/ InsertItem(r) \/ RemoveItem(r)
<1>1. ASSUME NEW r \in Request, NEW u \in User, Arrivals(r, u)
      PROVE  \/ UNCHANGED <<collectionVars, items>>
             \/ \E d \in Collection : createCollection(r, u, d)
    BY <1>1, Zenon
       DEF Arrivals, getById, updateCollection, deleteCollection, addItem, removeItem,
           saveTorrent, removeTorrent, tableVars
<1>2. ASSUME NEW r \in Request, Continue(r)
      PROVE  \/ UNCHANGED <<collectionVars, items>>
             \/ Update(r) \/ Delete(r) \/ InsertItem(r) \/ RemoveItem(r)
    BY <1>2, Zenon
       DEF Continue, FindTorrent, RereadItem, Save, RereadSaved, Fail, tableVars
<1>3. ASSUME NEW t \in Torrent, NewTorrent(t)
      PROVE  UNCHANGED <<collectionVars, items>>
    BY <1>3 DEF NewTorrent
<1>4. QED
    BY <1>1, <1>2, <1>3, Zenon DEF Next

\* What a step does to a collection is an owner's doing.
LEMMA StepByOwner ==
    ASSUME Consistent, Next, NEW c \in Collection, state[c] # "none"
    PROVE  /\ owner'[c] = owner[c]
           /\ Contents(c)' # Contents(c) =>
                  \E r \in Request : coll[r] = c /\ user[r] = owner[c] /\ phase'[r] = "ok"
<1> USE DEF Consistent, TypeOK, VerifiedStays, Contents, collectionVars
<1>1. CASE UNCHANGED <<collectionVars, items>>
    BY <1>1
<1>2. ASSUME NEW r \in Request, NEW u \in User, NEW d \in Collection, createCollection(r, u, d)
      PROVE  owner'[c] = owner[c] /\ Contents(c)' = Contents(c)
  <2>1. PICK n \in Name, p \in BOOLEAN :
            name' = [name EXCEPT ![d] = n] /\ isPublic' = [isPublic EXCEPT ![d] = p]
      BY <1>2 DEF createCollection
  <2>2. /\ state[d] = "none"
        /\ state' = [state EXCEPT ![d] = "there"]
        /\ owner' = [owner EXCEPT ![d] = u]
        /\ items' = items
      BY <1>2 DEF createCollection
  <2>3. QED
      BY <2>1, <2>2
<1>3. ASSUME NEW r \in Request, Update(r) \/ Delete(r) \/ InsertItem(r) \/ RemoveItem(r)
      PROVE  /\ owner'[c] = owner[c]
             /\ coll[r] # c => Contents(c)' = Contents(c)
             /\ coll[r] = c => user[r] = owner[c]
             /\ phase'[r] = "ok" \/ UNCHANGED <<collectionVars, items>>
  <2>1. user[r] = owner[coll[r]] /\ owner' = owner
      BY <1>3 DEF Update, Delete, InsertItem, RemoveItem
  <2>2. phase'[r] = "ok" \/ UNCHANGED <<collectionVars, items>>
      BY <1>3 DEF Update, Delete, InsertItem, RemoveItem, Become
  <2>3. /\ \A d \in Collection \ {coll[r]} :
               state'[d] = state[d] /\ name'[d] = name[d] /\ isPublic'[d] = isPublic[d]
        /\ \A i : i[1] # coll[r] => (i \in items' <=> i \in items)
    <3>1. CASE Update(r)
        BY <3>1 DEF Update
    <3>2. CASE Delete(r)
        BY <3>2 DEF Delete
    <3>3. CASE InsertItem(r) \/ RemoveItem(r)
        BY <3>3 DEF InsertItem, RemoveItem
    <3>4. QED
        BY <1>3, <3>1, <3>2, <3>3
  <2>4. QED
      BY <2>1, <2>2, <2>3
<1> HIDE DEF Consistent, TypeOK, VerifiedStays, collectionVars
<1>4. QED
    BY <1>1, <1>2, <1>3, StepKinds DEF Contents

\* However requests of several users interleave, a collection changes at its owner's will.
THEOREM OwnersDecide == Spec => OnlyOwnerChanges
<1>1. Consistent /\ [Next]_vars =>
          [\A c \in Collection : state[c] # "none" =>
               /\ owner'[c] = owner[c]
               /\ Contents(c)' # Contents(c) =>
                      \E r \in Request : coll[r] = c /\ user[r] = owner[c]
                                         /\ phase'[r] = "ok"]_vars
    BY StepByOwner
<1>2. QED
    BY <1>1, LibraryConsistent, PTL DEF Spec, OnlyOwnerChanges

\* What a step does to the columns of a collection is what the body of a PATCH says.
LEMMA StepPatches ==
    ASSUME Consistent, Next, NEW c \in Collection, state[c] = "there"
    PROVE  /\ name'[c] # name[c] => \E r \in Request :
                  phase[r] = "patching" /\ coll[r] = c /\ name'[c] = data[r].name
           /\ isPublic'[c] # isPublic[c] => \E r \in Request :
                  phase[r] = "patching" /\ coll[r] = c /\ isPublic'[c] = data[r].isPublic
<1> DEFINE Unchanged == name'[c] = name[c] /\ isPublic'[c] = isPublic[c]
<1> USE DEF Consistent, TypeOK, collectionVars
<1>1. CASE UNCHANGED <<collectionVars, items>>
    BY <1>1
<1>2. ASSUME NEW r \in Request, NEW u \in User, NEW d \in Collection, createCollection(r, u, d)
      PROVE  Unchanged
    BY <1>2 DEF createCollection
<1>3. ASSUME NEW r \in Request, Update(r)
      PROVE  /\ phase[r] = "patching"
             /\ coll[r] # c => Unchanged
             /\ coll[r] = c => name'[c] \in {name[c], data[r].name}
             /\ coll[r] = c => isPublic'[c] \in {isPublic[c], data[r].isPublic}
    BY <1>3 DEF Update
<1>4. ASSUME NEW r \in Request, Delete(r) \/ InsertItem(r) \/ RemoveItem(r)
      PROVE  Unchanged
    BY <1>4 DEF Delete, InsertItem, RemoveItem
<1> HIDE DEF Consistent, TypeOK, collectionVars
<1>5. QED
    BY <1>1, <1>2, <1>3, <1>4, StepKinds

\* Concurrent changes of different fields both last.
THEOREM PatchesTouchTheirFields == Spec => PatchesCompose
<1>1. Consistent /\ [Next]_vars =>
          [\A c \in Collection : state[c] = "there" =>
               /\ name'[c] # name[c] => \E r \in Request :
                      phase[r] = "patching" /\ coll[r] = c /\ name'[c] = data[r].name
               /\ isPublic'[c] # isPublic[c] => \E r \in Request :
                      phase[r] = "patching" /\ coll[r] = c
                          /\ isPublic'[c] = data[r].isPublic]_vars
    BY StepPatches
<1>2. QED
    BY <1>1, LibraryConsistent, PTL DEF Spec, PatchesCompose

\* An addition of what is there already finds it, unless it was removed meanwhile.
THEOREM AdditionsSucceed == Spec => []GoneOnlyIfRemoved
<1>1. Consistent => GoneOnlyIfRemoved
    BY DEF Consistent
<1>2. QED
    BY <1>1, LibraryConsistent, PTL

=============================================================================
