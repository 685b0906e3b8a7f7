----------------------------- MODULE FilesProofs -----------------------------
(***************************************************************************)
(* Consistent is an inductive invariant of Files, for any number of        *)
(* uploads, users, requests and objects. What carries the argument is that *)
(* an object is copied before it is deleted, and that the final key, once  *)
(* it holds an object, holds one for ever: whatever a confirmation does    *)
(* after its copy finds one there, and so does a row.                      *)
(***************************************************************************)
EXTENDS Files, TLAPS

\* An empty store and an empty table are consistent.
LEMMA InitConsistent == Init => Consistent
<1> SUFFICES ASSUME Init
             PROVE  Consistent
    OBVIOUS
<1>1. /\ puts = [k \in Key |-> 0] /\ temp = [k \in Key |-> 0] /\ final = [k \in Key |-> 0]
      /\ row = [k \in Key |-> "none"] /\ phase = [r \in Request |-> "none"]
    BY DEF Init
<1>2. TypeOK
    BY DEF Init, TypeOK
<1>3. QED
    BY <1>1, <1>2
       DEF Consistent, ObjectsWerePut, ConfirmationHasObject, RowHasObject,
           CopiesAdvance, UploadNotLost, OrphanOnlyByFailure

\* The client.
LEMMA ClientConsistent ==
    ASSUME Consistent, NEW k \in Key, initUpload(k) \/ Put(k) \/ Expire(k)
    PROVE  Consistent'
<1> USE DEF Consistent, TypeOK, ObjectsWerePut, ConfirmationHasObject, RowHasObject,
            CopiesAdvance, UploadNotLost, OrphanOnlyByFailure, rowVars, requestVars
<1>1. CASE initUpload(k) \/ Expire(k)
    BY <1>1 DEF initUpload, Expire
<1>2. CASE Put(k)
  <2>1. /\ puts' = [puts EXCEPT ![k] = @ + 1]
        /\ temp' = [temp EXCEPT ![k] = puts[k] + 1]
        /\ UNCHANGED <<collapses, url, final, rowVars, phase, requestVars, rejected, broken>>
      BY <1>2 DEF Put
  <2>2. TypeOK' /\ ObjectsWerePut' /\ ConfirmationHasObject' /\ RowHasObject'
      BY <2>1
  \* No object is newer than the one that is put.
  <2>3. CopiesAdvance'
      BY <2>1
  <2>4. UploadNotLost' /\ OrphanOnlyByFailure'
      BY <2>1
  <2>5. QED
      BY <2>2, <2>3, <2>4
<1>3. QED
    BY <1>1, <1>2

\* A request arrives: it has had nothing copied, and a confirmation has seen an object.
LEMMA ArrivalConsistent ==
    ASSUME Consistent, NEW r \in Request, NEW k \in Key, NEW u \in User,
           confirmUpload(r, k, u) \/ getDownloadUrl(r, k, u) \/ deleteFile(r, k, u)
    PROVE  Consistent'
<1> USE DEF Consistent
<1>1. PICK p \in Answered \cup {"rejecting", "moving", "deleting"} :
          /\ phase' = [phase EXCEPT ![r] = p]
          /\ p = "deleting" => row[k] # "none"
          /\ p \in {"rejecting", "moving"} => temp[k] # 0 /\ seen' = [seen EXCEPT ![r] = temp[k]]
  <2>1. CASE confirmUpload(r, k, u)
      BY <2>1 DEF confirmUpload, Arrive, Become, Object, Answered
  <2>2. CASE getDownloadUrl(r, k, u)
      BY <2>2 DEF getDownloadUrl, Arrive, Become, Answered
  <2>3. CASE deleteFile(r, k, u)
      BY <2>3 DEF deleteFile, Arrive, Become, Answered
  <2>4. QED
      BY <2>1, <2>2, <2>3
<1>2. /\ phase[r] \in Answered \cup {"none"}
      /\ key' = [key EXCEPT ![r] = k]
      /\ user' = [user EXCEPT ![r] = u]
      /\ seen' = seen \/ seen' = [seen EXCEPT ![r] = temp[k]]
      /\ UNCHANGED <<storeVars, rowVars, rejected, broken>>
    BY DEF confirmUpload, getDownloadUrl, deleteFile, Arrive, Free
<1>3. TypeOK'
    BY <1>1, <1>2 DEF TypeOK, Answered, storeVars, rowVars
<1>4. ObjectsWerePut' /\ UploadNotLost'
    BY <1>2 DEF ObjectsWerePut, UploadNotLost, storeVars, rowVars
<1>5. ConfirmationHasObject'
    BY <1>1, <1>2 DEF TypeOK, ObjectsWerePut, ConfirmationHasObject, Answered, storeVars
<1>6. RowHasObject'
    BY <1>1, <1>2 DEF TypeOK, RowHasObject, storeVars, rowVars
<1>7. OrphanOnlyByFailure'
    BY <1>1, <1>2 DEF TypeOK, OrphanOnlyByFailure, Answered, storeVars, rowVars
<1>8. CopiesAdvance'
    BY <1>1, <1>2 DEF TypeOK, CopiesAdvance, Answered, storeVars
<1>9. QED
    BY <1>3, <1>4, <1>5, <1>6, <1>7, <1>8

\* A confirmation goes on. What it has copied stays; if it fails, that is on record.
LEMMA ConfirmationConsistent ==
    ASSUME Consistent, NEW r \in Request,
           Reject(r) \/ Copy(r) \/ DeleteSource(r) \/ Insert(r)
    PROVE  Consistent'
<1> DEFINE k == key[r]
<1> USE DEF Consistent, TypeOK, ObjectsWerePut, ConfirmationHasObject, RowHasObject,
            CopiesAdvance, UploadNotLost, OrphanOnlyByFailure, Answered, Become, rowVars, requestVars, storeVars
<1>1. CASE Reject(r)
    BY <1>1 DEF Reject
<1>2. CASE Copy(r)
  <2>1. CASE temp[k] = 0
      BY <1>2, <2>1 DEF Copy
  <2>2. CASE temp[k] # 0
    <3>1. /\ final' = [final EXCEPT ![k] = temp[k]]
          /\ phase' = [phase EXCEPT ![r] = "copied"] /\ phase[r] = "moving"
          /\ UNCHANGED <<collapses, url, puts, temp, rowVars, requestVars, rejected, broken>>
        BY <1>2, <2>2 DEF Copy
    <3>2. TypeOK' /\ ObjectsWerePut' /\ ConfirmationHasObject' /\ RowHasObject'
        BY <2>2, <3>1
    <3>3. UploadNotLost'
        BY <2>2, <3>1
    \* The object under the final key is this confirmation's; the others have theirs.
    <3>4. OrphanOnlyByFailure'
      <4>1. key'[r] = k /\ phase'[r] = "copied" /\ \A s \in Request : s # r => phase'[s] = phase[s]
          BY <3>1
      <4>2. \A l \in Key : l # k => final'[l] = final[l]
          BY <3>1
      <4>3. QED
          BY <3>1, <4>1, <4>2
    \* What it replaces was no newer.
    <3>5. CopiesAdvance'
        BY <2>2, <3>1
    <3>6. QED
        BY <3>2, <3>3, <3>4, <3>5
  <2>3. QED
      BY <2>1, <2>2
<1>3. CASE DeleteSource(r)
    BY <1>3 DEF DeleteSource
<1>4. CASE Insert(r)
  <2>1. CASE row[k] = "none"
    <3>1. /\ row' = [row EXCEPT ![k] = "active"]
          /\ etag' = [etag EXCEPT ![k] = seen[r]]
          /\ owner' = [owner EXCEPT ![k] = user[r]]
          /\ phase' = [phase EXCEPT ![r] = "ok"] /\ phase[r] = "moved"
          /\ UNCHANGED <<storeVars, requestVars, rejected, broken>>
        BY <1>4, <2>1 DEF Insert
    <3>2. TypeOK' /\ ObjectsWerePut' /\ ConfirmationHasObject' /\ RowHasObject'
        BY <2>1, <3>1
    <3>3. UploadNotLost' /\ OrphanOnlyByFailure'
        BY <2>1, <3>1
    <3>4. CopiesAdvance'
        BY <3>1
    <3>5. QED
        BY <3>2, <3>3, <3>4
  <2>2. CASE row[k] # "none"
      BY <1>4, <2>2 DEF Insert
  <2>3. QED
      BY <2>1, <2>2
<1>5. QED
    BY <1>1, <1>2, <1>3, <1>4

\* Every step of clients, requests and failures keeps files and store consistent.
LEMMA NextConsistent == Consistent /\ [Next]_vars => Consistent'
<1> SUFFICES ASSUME Consistent, [Next]_vars
             PROVE  Consistent'
    OBVIOUS
<1> USE DEF Consistent, TypeOK, ObjectsWerePut, ConfirmationHasObject, RowHasObject,
            CopiesAdvance, UploadNotLost, OrphanOnlyByFailure, Answered, Become, rowVars,
            requestVars, storeVars
<1>1. ASSUME NEW r \in Request, SoftDelete(r)
      PROVE  Consistent'
    BY <1>1 DEF SoftDelete
<1>2. ASSUME NEW r \in Request, Fail(r)
      PROVE  Consistent'
    BY <1>2 DEF Fail, Free
<1>3. CASE UNCHANGED vars
    BY <1>3 DEF vars
<1>4. QED
    BY <1>1, <1>2, <1>3, ClientConsistent, ArrivalConsistent, ConfirmationConsistent
       DEF Next, Continue

\* The inductive invariant.
THEOREM FilesConsistent == Spec => []Consistent
<1>1. Spec => Init /\ [][Next]_vars
    BY PTL DEF Spec
<1>2. QED
    BY <1>1, InitConsistent, NextConsistent, PTL

\* No row runs ahead of the object it stands for, for any number of objects put under one
\* key: what a confirmation inserts it has seen before it copied, and copies advance.
THEOREM RowsFollowObjects == Spec => []RowNeverAhead
<1>1. Init => RowNeverAhead
    BY DEF Init, RowNeverAhead
<1>2. Consistent /\ Consistent' /\ RowNeverAhead /\ [Next]_vars => RowNeverAhead'
  <2> SUFFICES ASSUME Consistent, Consistent', RowNeverAhead, [Next]_vars
               PROVE  RowNeverAhead'
      OBVIOUS
  <2> USE DEF RowNeverAhead, Consistent, TypeOK, Become
  <2>1. ASSUME NEW r \in Request, Copy(r)
        PROVE  RowNeverAhead'
      BY <2>1 DEF Copy, CopiesAdvance, rowVars
  <2>2. ASSUME NEW r \in Request, Insert(r)
        PROVE  RowNeverAhead'
      BY <2>2 DEF Insert, CopiesAdvance, storeVars, rowVars
  <2>3. ASSUME NEW r \in Request, SoftDelete(r)
        PROVE  RowNeverAhead'
      BY <2>3 DEF SoftDelete, RowHasObject, storeVars
  <2>4. CASE UNCHANGED <<final, rowVars>>
      BY <2>4 DEF rowVars
  <2>5. QED
      BY <2>1, <2>2, <2>3, <2>4
         DEF Next, Continue, initUpload, Put, Expire, confirmUpload, getDownloadUrl, deleteFile,
             Reject, DeleteSource, Fail, storeVars, vars
<1>3. QED
    BY <1>1, <1>2, FilesConsistent, PTL DEF Spec

\* No store that tells a leading slash apart ever holds a file, or has a row for one.
THEOREM SlashLosesFiles == Spec => []FilesNeedCollapsingStore
<1>1. Init => FilesNeedCollapsingStore
    BY DEF Init, FilesNeedCollapsingStore
<1>2. Consistent /\ FilesNeedCollapsingStore /\ [Next]_vars => FilesNeedCollapsingStore'
  <2> SUFFICES ASSUME Consistent, FilesNeedCollapsingStore, [Next]_vars
               PROVE  FilesNeedCollapsingStore'
      OBVIOUS
  <2> USE DEF FilesNeedCollapsingStore, Consistent, TypeOK, Become, rowVars
  <2>1. ASSUME NEW r \in Request, NEW k \in Key, NEW u \in User, confirmUpload(r, k, u)
        PROVE  FilesNeedCollapsingStore'
      BY <2>1 DEF confirmUpload, Object, Arrive, storeVars
  <2>2. ASSUME NEW r \in Request, NEW k \in Key, NEW u \in User,
               getDownloadUrl(r, k, u) \/ deleteFile(r, k, u)
        PROVE  FilesNeedCollapsingStore'
      BY <2>2 DEF getDownloadUrl, deleteFile, Arrive, storeVars
  <2>3. ASSUME NEW k \in Key, initUpload(k) \/ Put(k) \/ Expire(k)
        PROVE  FilesNeedCollapsingStore'
      BY <2>3 DEF initUpload, Put, Expire
  <2>4. ASSUME NEW r \in Request, Reject(r) \/ Copy(r) \/ DeleteSource(r) \/ Insert(r)
        PROVE  FilesNeedCollapsingStore'
      BY <2>4 DEF Reject, Copy, DeleteSource, Insert, storeVars
  <2>5. ASSUME NEW r \in Request, SoftDelete(r) \/ Fail(r)
        PROVE  FilesNeedCollapsingStore'
      BY <2>5 DEF SoftDelete, Fail, RowHasObject, storeVars
  <2>6. CASE UNCHANGED vars
      BY <2>6 DEF vars, storeVars
  <2>7. QED
      BY <2>1, <2>2, <2>3, <2>4, <2>5, <2>6 DEF Next, Continue
<1>3. QED
    BY <1>1, <1>2, FilesConsistent, PTL DEF Spec

\* No confirmation loses an upload, wherever it stops and however many there are.
THEOREM UploadsAreKept == Spec => []UploadNotLost
<1>1. Consistent => UploadNotLost
    BY DEF Consistent
<1>2. QED
    BY <1>1, FilesConsistent, PTL

\* Only a confirmation that broke off leaves an object without a row.
THEOREM OrphansAreFailures == Spec => []OrphanOnlyByFailure
<1>1. Consistent => OrphanOnlyByFailure
    BY DEF Consistent
<1>2. QED
    BY <1>1, FilesConsistent, PTL

\* No step gives a row another owner or another object, or brings a deleted one back.
THEOREM DeletedFilesStay == Spec => RowsStay
<1>1. Consistent /\ [Next]_vars =>
          [\A k \in Key : row[k] # "none" => /\ row'[k] \in {row[k], "deleted"}
                                             /\ etag'[k] = etag[k]
                                             /\ owner'[k] = owner[k]]_vars
  <2> SUFFICES ASSUME Consistent, Next, NEW k \in Key, row[k] # "none"
               PROVE  row'[k] \in {row[k], "deleted"} /\ etag'[k] = etag[k] /\ owner'[k] = owner[k]
      OBVIOUS
  <2>1. CASE UNCHANGED rowVars
      BY <2>1 DEF rowVars
  <2>2. ASSUME NEW r \in Request, Insert(r) \/ SoftDelete(r)
        PROVE  row'[k] \in {row[k], "deleted"} /\ etag'[k] = etag[k] /\ owner'[k] = owner[k]
      BY <2>2 DEF Insert, SoftDelete, rowVars, Consistent, TypeOK
  <2>3. QED
      BY <2>1, <2>2
         DEF Next, Continue, initUpload, Put, Expire, confirmUpload, getDownloadUrl, deleteFile,
             Reject, Copy, DeleteSource, Fail
<1>2. QED
    BY <1>1, FilesConsistent, PTL DEF Spec, RowsStay

=============================================================================
