-------------------------------- MODULE Files --------------------------------
(***************************************************************************)
(* Files: file.controller.ts over the table File and an object store       *)
(* (s3.service.ts). A client asks for a presigned URL, puts its object     *)
(* under a temporary key, as often as it likes while the URL is valid, and *)
(* confirms: the object is looked at, copied to its final key, deleted     *)
(* under the temporary one, and a row is inserted. Nothing makes the five  *)
(* calls one transaction.                                                  *)
(*                                                                         *)
(* Clients confirm keys that initUpload gave out, in one of two forms: as  *)
(* returned, which is "/temp/...", as getPresignedUploadUrl puts a slash   *)
(* after its empty prefix, or stripped of that slash, which is the form    *)
(* that confirmUpload accepts. To S3 these are two keys; other stores take *)
(* them for one.                                                           *)
(***************************************************************************)
EXTENDS Integers

CONSTANTS
    Key,      \* the keys that initUpload makes up, each from a new UUID
    User,
    Request,  \* request slots
    MaxPuts   \* bound: objects put under one temporary key

ASSUME BoundAssumption == MaxPuts \in Nat

VARIABLES
    collapses, \* the store takes "/temp/..." and "temp/..." for the same key
    url,       \* url[k]: the presigned URL is "none", "valid" or "expired"
    puts,      \* puts[k]: how many objects were put; the n-th is called n, and so is its ETag
    temp,      \* temp[k]: the object under the temporary key, or 0
    final,     \* final[k]: the object under the final key, or 0
    row,       \* row[k]: the row is "none", "active" or "deleted" (isActive: false)
    etag,      \* etag[k]: the row's checksum; its size and type are of the same object
    owner,     \* owner[k]: the row's userId
    phase,     \* phase[r]: how far request r is, or its answer
    key,       \* key[r]: the key r is for
    user,      \* user[r]: who sends r
    seen,      \* seen[r]: the object whose metadata r has read
    rejected,  \* keys of which an object was deleted for its checksum
    broken     \* keys of which a confirmation failed between the copy and the row

storeVars == <<collapses, url, puts, temp, final>>
rowVars == <<row, etag, owner>>
requestVars == <<key, user, seen>>
vars == <<storeVars, rowVars, phase, requestVars, rejected, broken>>

Answered == {"ok", "notFound", "forbidden", "invalidKey", "mismatch", "failed"}
Free(r) == phase[r] \in Answered \cup {"none"}

Init ==
    /\ collapses \in BOOLEAN
    /\ url = [k \in Key |-> "none"]
    /\ puts = [k \in Key |-> 0]
    /\ temp = [k \in Key |-> 0]
    /\ final = [k \in Key |-> 0]
    /\ row = [k \in Key |-> "none"]
    /\ etag = [k \in Key |-> 0]
    /\ owner \in [Key -> User] /\ \A k, l \in Key : owner[k] = owner[l]
    /\ phase = [r \in Request |-> "none"]
    /\ key \in [Request -> Key] /\ \A r, s \in Request : key[r] = key[s]
    /\ user \in [Request -> User] /\ \A r \in Request, k \in Key : user[r] = owner[k]
    /\ seen = [r \in Request |-> 0]
    /\ rejected = {}
    /\ broken = {}

Become(r, p) == phase' = [phase EXCEPT ![r] = p]

\* A request of u about k arrives, and its first await ends with p.
Arrive(r, k, u, p) ==
    /\ Free(r)
    /\ key' = [key EXCEPT ![r] = k]
    /\ user' = [user EXCEPT ![r] = u]
    /\ Become(r, p)

-----------------------------------------------------------------------------
(* The client and its presigned URL. *)

\* POST /files/init: a key of its own and an URL for it, valid for 15 minutes.
initUpload(k) ==
    /\ url[k] = "none"
    /\ url' = [url EXCEPT ![k] = "valid"]
    /\ UNCHANGED <<collapses, puts, temp, final, rowVars, phase, requestVars, rejected, broken>>

\* The client puts an object; neither size nor checksum are part of what was signed.
Put(k) ==
    /\ url[k] = "valid"
    /\ puts[k] < MaxPuts
    /\ puts' = [puts EXCEPT ![k] = @ + 1]
    /\ temp' = [temp EXCEPT ![k] = puts[k] + 1]
    /\ UNCHANGED <<collapses, url, final, rowVars, phase, requestVars, rejected, broken>>

Expire(k) ==
    /\ url[k] = "valid"
    /\ url' = [url EXCEPT ![k] = "expired"]
    /\ UNCHANGED <<collapses, puts, temp, final, rowVars, phase, requestVars, rejected, broken>>

-----------------------------------------------------------------------------
(* POST /files/confirm *)

\* What a request finds under the temporary key in the form it presents.
Object(k, form) == IF form = "returned" \/ collapses THEN temp[k] ELSE 0

\* Mutant of confirmUpload: VALID_TEMP_KEY lets a leading slash pass.
confirmUploadAnyKey(r, k, u) ==
    /\ url[k] # "none"
    /\ \E form \in {"returned", "stripped"}, checksum \in {"none", "right", "wrong"} :
           \/ Object(k, form) = 0 /\ Arrive(r, k, u, "failed")
           \/ Object(k, form) # 0 /\ checksum = "wrong" /\ Arrive(r, k, u, "rejecting")
           \/ Object(k, form) # 0 /\ checksum # "wrong" /\ Arrive(r, k, u, "moving")
    /\ seen' = [seen EXCEPT ![r] = temp[k]]
    /\ UNCHANGED <<storeVars, rowVars, rejected, broken>>

\* checkExists; then, without an await, the checksum, if there is one, is compared and
\* the key matched with VALID_TEMP_KEY, in this order. No object is an error of the store.
confirmUpload(r, k, u) ==
    /\ url[k] # "none"
    /\ \E form \in {"returned", "stripped"}, checksum \in {"none", "right", "wrong"} :
           \/ Object(k, form) = 0 /\ Arrive(r, k, u, "failed")
           \/ Object(k, form) # 0 /\ checksum = "wrong" /\ Arrive(r, k, u, "rejecting")
           \/ /\ Object(k, form) # 0 /\ checksum # "wrong"
              /\ Arrive(r, k, u, IF form = "returned" THEN "invalidKey" ELSE "moving")
    /\ seen' = [seen EXCEPT ![r] = temp[k]]
    /\ UNCHANGED <<storeVars, rowVars, rejected, broken>>

\* storageService.delete, then 400 "Checksum mismatch".
Reject(r) ==
    /\ phase[r] = "rejecting"
    /\ temp' = [temp EXCEPT ![key[r]] = 0]
    /\ rejected' = rejected \cup {key[r]}
    /\ Become(r, "mismatch")
    /\ UNCHANGED <<collapses, url, puts, final, rowVars, requestVars, broken>>

\* Mutants of Copy: what already has its final place is not copied again; the copy is not
\* waited for, and comes to nothing.
CopyOnce(r) ==
    LET k == key[r]
    IN  /\ phase[r] = "moving"
        /\ \/ temp[k] = 0 /\ Become(r, "failed") /\ UNCHANGED final
           \/ /\ temp[k] # 0
              /\ final' = IF final[k] = 0 THEN [final EXCEPT ![k] = temp[k]] ELSE final
              /\ Become(r, "copied")
        /\ UNCHANGED <<collapses, url, puts, temp, rowVars, requestVars, rejected, broken>>
CopyUnawaited(r) ==
    /\ phase[r] = "moving"
    /\ Become(r, "copied")
    /\ UNCHANGED <<storeVars, rowVars, requestVars, rejected, broken>>

\* The first half of storageService.move, of whatever is there now.
Copy(r) ==
    LET k == key[r]
    IN  /\ phase[r] = "moving"
        /\ \/ temp[k] = 0 /\ Become(r, "failed") /\ UNCHANGED final
           \/ /\ temp[k] # 0
              /\ final' = [final EXCEPT ![k] = temp[k]]
              /\ Become(r, "copied")
        /\ UNCHANGED <<collapses, url, puts, temp, rowVars, requestVars, rejected, broken>>

\* Mutant of DeleteSource: the answer is sent without a row.
DeleteSourceAnswering(r) ==
    /\ phase[r] = "copied"
    /\ temp' = [temp EXCEPT ![key[r]] = 0]
    /\ Become(r, "ok")
    /\ UNCHANGED <<collapses, url, puts, final, rowVars, requestVars, rejected, broken>>

\* The second half. To delete what is not there is no error.
DeleteSource(r) ==
    /\ phase[r] = "copied"
    /\ temp' = [temp EXCEPT ![key[r]] = 0]
    /\ Become(r, "moved")
    /\ UNCHANGED <<collapses, url, puts, final, rowVars, requestVars, rejected, broken>>

\* Mutant of Insert: it updates a row that exists.
InsertOrUpdate(r) ==
    LET k == key[r]
    IN  /\ phase[r] = "moved"
        /\ row' = [row EXCEPT ![k] = "active"]
        /\ etag' = [etag EXCEPT ![k] = seen[r]]
        /\ owner' = [owner EXCEPT ![k] = user[r]]
        /\ Become(r, "ok")
        /\ UNCHANGED <<storeVars, requestVars, rejected, broken>>

\* prisma.file.create, with the metadata read before the move. The key is unique: a
\* second row is an error that nobody catches.
Insert(r) ==
    LET k == key[r]
    IN  /\ phase[r] = "moved"
        /\ \/ /\ row[k] = "none"
              /\ row' = [row EXCEPT ![k] = "active"]
              /\ etag' = [etag EXCEPT ![k] = seen[r]]
              /\ owner' = [owner EXCEPT ![k] = user[r]]
              /\ Become(r, "ok")
           \/ row[k] # "none" /\ Become(r, "failed") /\ UNCHANGED rowVars
        /\ UNCHANGED <<storeVars, requestVars, rejected, broken>>

-----------------------------------------------------------------------------
(* GET /files/download and DELETE /files/:key *)

\* The row is found, and the URL signed without asking the store. No code makes a file
\* public.
getDownloadUrl(r, k, u) ==
    /\ \/ row[k] # "active" /\ Arrive(r, k, u, "notFound")
       \/ row[k] = "active" /\ owner[k] # u /\ Arrive(r, k, u, "forbidden")
       \/ row[k] = "active" /\ owner[k] = u /\ Arrive(r, k, u, "ok")
    /\ UNCHANGED <<storeVars, rowVars, seen, rejected, broken>>

deleteFile(r, k, u) ==
    /\ \/ row[k] # "active" /\ Arrive(r, k, u, "notFound")
       \/ row[k] = "active" /\ owner[k] # u /\ Arrive(r, k, u, "forbidden")
       \/ row[k] = "active" /\ owner[k] = u /\ Arrive(r, k, u, "deleting")
    /\ UNCHANGED <<storeVars, rowVars, seen, rejected, broken>>

\* Mutant of SoftDelete: the object goes, too, as the name of the operation says.
HardDelete(r) ==
    /\ phase[r] = "deleting"
    /\ row' = [row EXCEPT ![key[r]] = "deleted"]
    /\ final' = [final EXCEPT ![key[r]] = 0]
    /\ Become(r, "ok")
    /\ UNCHANGED <<collapses, url, puts, temp, etag, owner, requestVars, rejected, broken>>

\* isActive is set to false; the object stays.
SoftDelete(r) ==
    /\ phase[r] = "deleting"
    /\ row' = [row EXCEPT ![key[r]] = "deleted"]
    /\ Become(r, "ok")
    /\ UNCHANGED <<storeVars, etag, owner, requestVars, rejected, broken>>

-----------------------------------------------------------------------------

\* A call to the store or the database fails, or the process dies: what was done stays.
Fail(r) ==
    /\ ~Free(r)
    /\ broken' = IF phase[r] \in {"copied", "moved"} THEN broken \cup {key[r]} ELSE broken
    /\ Become(r, "failed")
    /\ UNCHANGED <<storeVars, rowVars, requestVars, rejected>>

Continue(r) ==
    \/ Reject(r) \/ Copy(r) \/ DeleteSource(r) \/ Insert(r)
    \/ SoftDelete(r)
    \/ Fail(r)

Next ==
    \/ \E k \in Key : initUpload(k) \/ Put(k) \/ Expire(k)
    \/ \E r \in Request, k \in Key, u \in User :
           confirmUpload(r, k, u) \/ getDownloadUrl(r, k, u) \/ deleteFile(r, k, u)
    \/ \E r \in Request : Continue(r)

Spec == Init /\ [][Next]_vars

-----------------------------------------------------------------------------
(* Properties. *)

TypeOK ==
    /\ collapses \in BOOLEAN
    /\ url \in [Key -> {"none", "valid", "expired"}]
    /\ puts \in [Key -> Nat]
    /\ temp \in [Key -> Nat]
    /\ final \in [Key -> Nat]
    /\ row \in [Key -> {"none", "active", "deleted"}]
    /\ etag \in [Key -> Nat]
    /\ owner \in [Key -> User]
    /\ phase \in [Request -> Answered \cup {"none", "rejecting", "moving", "copied", "moved",
                                            "deleting"}]
    /\ key \in [Request -> Key]
    /\ user \in [Request -> User]
    /\ seen \in [Request -> Nat]
    /\ rejected \subseteq Key
    /\ broken \subseteq Key

\* Every object in the store was put there by the client.
ObjectsWerePut == \A k \in Key : temp[k] <= puts[k] /\ final[k] <= puts[k]

\* A confirmation works on an object that it has seen, and has its copy once it is made.
ConfirmationHasObject ==
    \A r \in Request :
        /\ phase[r] \in {"moving", "copied", "moved"} => seen[r] \in 1..puts[key[r]]
        /\ phase[r] \in {"copied", "moved"} => final[key[r]] # 0

\* A row, deleted or not, has an object and describes one that was put; a request that
\* deletes has found a row.
RowHasObject ==
    /\ \A k \in Key : row[k] # "none" => final[k] # 0 /\ etag[k] \in 1..puts[k]
    /\ \A r \in Request : phase[r] = "deleting" => row[key[r]] # "none"

\* The objects of one upload become final in the order in which they were put: whatever a
\* confirmation has seen, nothing older than that is under the final key once it has copied.
CopiesAdvance ==
    /\ \A k \in Key : temp[k] # 0 => final[k] <= temp[k]
    /\ \A r \in Request :
           /\ phase[r] = "moving" /\ temp[key[r]] # 0 => seen[r] <= temp[key[r]]
           /\ phase[r] \in {"copied", "moved"} => seen[r] <= final[key[r]]

\* The metadata of a row is read before the object is moved, the presigned URL still being
\* valid. Whatever fails, and however confirmations and new objects of one upload overlap,
\* checksum, size and type are those of the stored object or of one that the client has
\* replaced by a later one: the row is never ahead of the store.
RowNeverAhead == \A k \in Key : row[k] # "none" => etag[k] <= final[k]

\* The key that initUpload returns has a leading slash (s3.service.ts:18), which
\* confirmUpload refuses (file.controller.ts:68), although "prefix is already in key"
\* (file.controller.ts:38): a store that tells the two forms apart never gets a file,
\* whichever of them is confirmed.
FilesNeedCollapsingStore ==
    ~collapses =>
        /\ \A k \in Key : final[k] = 0 /\ row[k] = "none"
        /\ \A r \in Request : phase[r] \notin {"moving", "copied", "moved"}

\* An object put once and never refused for its checksum is under one of its two keys at
\* any time: no confirmation, failed or repeated, loses it.
UploadNotLost ==
    \A k \in Key : puts[k] = 1 /\ k \notin rejected => temp[k] = 1 \/ final[k] = 1

\* An object has its final place without a row only on its way there, or if a
\* confirmation failed after the copy: not because several confirmations met.
OrphanOnlyByFailure ==
    \A k \in Key : final[k] # 0 /\ row[k] = "none" =>
        k \in broken \/ \E r \in Request : key[r] = k /\ phase[r] \in {"copied", "moved"}

Consistent ==
    /\ TypeOK
    /\ ObjectsWerePut
    /\ ConfirmationHasObject
    /\ RowHasObject
    /\ CopiesAdvance
    /\ UploadNotLost
    /\ OrphanOnlyByFailure

\* A file is deleted for good, and a row keeps its owner and what it says of its object:
\* no confirmation that comes late brings a file back or gives it to another user.
RowsStay ==
    [][\A k \in Key : row[k] # "none" =>
          /\ row'[k] \in {row[k], "deleted"}
          /\ etag'[k] = etag[k]
          /\ owner'[k] = owner[k]]_vars

=============================================================================
