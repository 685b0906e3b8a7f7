--------------------------- MODULE RefreshSessions ---------------------------
(***************************************************************************)
(* The refresh tokens of one user (src/src/modules/auth/refresh.ts) under  *)
(* the requests of auth.controller.ts that issue, rotate and revoke them.  *)
(*                                                                         *)
(* Rotation is a database transaction, the others are single statements;   *)
(* both run at PostgreSQL's default isolation, READ COMMITTED: a statement *)
(* sees the rows committed when it starts, waits for the rows it wants to  *)
(* update that another transaction has updated, and then updates them as   *)
(* they have become, but never rows that were not there when it started.   *)
(*                                                                         *)
(* Time is `epoch`, the number of password changes so far: all that the    *)
(* code compares a row's createdAt with.                                   *)
(***************************************************************************)
EXTENDS Integers

CONSTANTS
    Row,          \* rows of the table RefreshToken, each with its token
    Device,       \* device ids
    Request,      \* request slots
    NoRow, NoRequest,
    MaxResets     \* bound: password changes

ASSUME NamesAssumption == NoRow \notin Row /\ NoRequest \notin Request

ASSUME BoundAssumption == MaxResets \in Nat

VARIABLES
    status,    \* status[x]: "none" before it is inserted, "live" or "revoked" as committed
    device,    \* device[x]: its deviceId
    born,      \* born[x]: the epoch of its createdAt
    login,     \* login[x]: the row that the login or registration inserted, whence x comes
    parent,    \* parent[x]: the row whose rotation inserted x, or NoRow
    lock,      \* lock[x]: the rotation whose open transaction has updated x
    epoch,
    kind,      \* kind[r]: the endpoint that request r calls
    phase,     \* phase[r]: how far it is, or its answer
    subject,   \* subject[r]: the row of the token that r presents
    dev,       \* dev[r]: the device that r presents
    stamp,     \* stamp[r]: the epoch in which r came in
    victims    \* victims[r]: the rows that r's revoking statement found

rowVars == <<status, device, born, login, parent>>
requestVars == <<kind, subject, dev, stamp, victims>>
vars == <<rowVars, lock, epoch, phase, requestVars>>

Answered == {"ok", "unauthorized", "conflict", "failed"}
Free(r) == phase[r] \in Answered \cup {"none"}
Live(x) == status[x] = "live"

Init ==
    /\ status = [x \in Row |-> "none"]
    /\ device \in [Row -> Device] /\ \A x, y \in Row : device[x] = device[y]
    /\ born = [x \in Row |-> 0]
    /\ login = [x \in Row |-> x]
    /\ parent = [x \in Row |-> NoRow]
    /\ lock = [x \in Row |-> NoRequest]
    /\ epoch = 0
    /\ kind = [r \in Request |-> "logout"]
    /\ phase = [r \in Request |-> "none"]
    /\ subject = [r \in Request |-> NoRow]
    /\ dev \in [Request -> Device] /\ \A r \in Request, x \in Row : dev[r] = device[x]
    /\ stamp = [r \in Request |-> 0]
    /\ victims = [r \in Request |-> {}]

Become(r, p) == phase' = [phase EXCEPT ![r] = p]

\* A request arrives, with the token of row x (or none) and a device id.
Arrive(r, k, x, d, p) ==
    /\ Free(r)
    /\ kind' = [kind EXCEPT ![r] = k]
    /\ subject' = [subject EXCEPT ![r] = x]
    /\ dev' = [dev EXCEPT ![r] = d]
    /\ stamp' = [stamp EXCEPT ![r] = epoch]
    /\ Become(r, p)

-----------------------------------------------------------------------------
(* verifyAndRotate. *)

\* The transaction reads the row: it must be there, live, of this device, and not
\* past its expiry, which may have come at any time.
RotateRead(r, x, d) ==
    /\ status[x] # "none"
    /\ \E p \in {"unauthorized"} \cup (IF Live(x) /\ device[x] = d THEN {"read"} ELSE {}) :
        Arrive(r, "refresh", x, d, p)
    /\ victims' = [victims EXCEPT ![r] = {}]
    /\ UNCHANGED <<rowVars, lock, epoch>>

\* Mutant of RotateVerify: it does not look at the user.
RotateVerifyAnyAge(r) ==
    /\ phase[r] = "read"
    /\ \E p \in {"verified", "unauthorized"} : Become(r, p)
    /\ UNCHANGED <<rowVars, lock, epoch, requestVars>>

\* It reads the user, and refuses a row older than the password; the secret may be
\* wrong. Both refusals set `revoked` and throw: the transaction takes it back.
RotateVerify(r) ==
    /\ phase[r] = "read"
    /\ \/ born[subject[r]] < epoch /\ Become(r, "unauthorized")
       \/ born[subject[r]] >= epoch /\ \E p \in {"verified", "unauthorized"} : Become(r, p)
    /\ UNCHANGED <<rowVars, lock, epoch, requestVars>>

\* Mutants of RotateRevoke: the update does not ask for revoked: false; it does not
\* wait, nor keep others from updating the row.
RotateRevokeAny(r) ==
    LET x == subject[r]
    IN  /\ phase[r] = "verified"
        /\ lock[x] = NoRequest
        /\ lock' = [lock EXCEPT ![x] = r]
        /\ Become(r, "revoked")
        /\ UNCHANGED <<rowVars, epoch, requestVars>>
RotateRevokeUnlocked(r) ==
    /\ phase[r] = "verified"
    /\ Become(r, IF Live(subject[r]) THEN "revoked" ELSE "conflict")
    /\ UNCHANGED <<rowVars, lock, epoch, requestVars>>

\* updateMany where revoked is false: once no other transaction has the row, it is
\* updated, or no longer matches and the answer is 400 "Session already refreshed."
RotateRevoke(r) ==
    LET x == subject[r]
    IN  /\ phase[r] = "verified"
        /\ lock[x] = NoRequest
        /\ \/ /\ Live(x)
              /\ lock' = [lock EXCEPT ![x] = r]
              /\ Become(r, "revoked")
           \/ /\ ~Live(x)
              /\ Become(r, "conflict")
              /\ UNCHANGED lock
        /\ UNCHANGED <<rowVars, epoch, requestVars>>

Insert(y, d, b, l, p) ==
    /\ status[y] = "none"
    /\ device' = [device EXCEPT ![y] = d]
    /\ born' = [born EXCEPT ![y] = b]
    /\ login' = [login EXCEPT ![y] = l]
    /\ parent' = [parent EXCEPT ![y] = p]

\* The new row is inserted and both rows become visible. Its createdAt is the time
\* of the insertion or, being a column default, that of the transaction's start.
RotateCommit(r, y) ==
    LET x == subject[r]
    IN  /\ phase[r] = "revoked"
        /\ \E b \in {stamp[r], epoch} : Insert(y, dev[r], b, login[x], x)
        /\ status' = [status EXCEPT ![x] = "revoked", ![y] = "live"]
        /\ lock' = [lock EXCEPT ![x] = IF @ = r THEN NoRequest ELSE @]
        /\ Become(r, "ok")
        /\ UNCHANGED <<epoch, requestVars>>

\* Prisma's transaction timeout, a lost connection or a restart rolls it back.
RotateAbort(r) ==
    /\ phase[r] \in {"read", "verified", "revoked"}
    /\ lock' = [x \in Row |-> IF lock[x] = r THEN NoRequest ELSE lock[x]]
    /\ Become(r, "failed")
    /\ UNCHANGED <<rowVars, epoch, requestVars>>

-----------------------------------------------------------------------------
(* The statements that revoke, and the endpoints around them. *)

Begin(r, S) == victims' = [victims EXCEPT ![r] = S]

\* POST /auth/logout with the token of x: revokeByRaw.
Logout(r, x) ==
    /\ status[x] # "none"
    /\ Arrive(r, "logout", x, device[x], "revoking")
    /\ Begin(r, {x})
    /\ UNCHANGED <<rowVars, lock, epoch>>

\* POST /auth/logout-all: revokeAll.
LogoutAll(r) ==
    /\ Arrive(r, "logoutAll", NoRow, dev[r], "revoking")
    /\ Begin(r, {x \in Row : status[x] # "none"})
    /\ UNCHANGED <<rowVars, lock, epoch>>

\* POST /auth/login, the password checked, with a deviceId in the body:
\* revokeActiveTokensForDevice, then issueRefreshToken.
Login(r, d) ==
    /\ Arrive(r, "login", NoRow, d, "revoking")
    /\ Begin(r, {x \in Row : Live(x) /\ device[x] = d})
    /\ UNCHANGED <<rowVars, lock, epoch>>

\* POST /auth/register, and a login without a deviceId: a device id of its own.
LoginNewDevice(r, d) ==
    /\ \A x \in Row : status[x] # "none" => device[x] # d
    /\ Arrive(r, "login", NoRow, d, "issuing")
    /\ Begin(r, {})
    /\ UNCHANGED <<rowVars, lock, epoch>>

\* Mutants of Revoked: it skips the rows that a rotation has updated; it does not wait for
\* them.
RevokedSkipping(r) ==
    /\ phase[r] = "revoking"
    /\ status' = [x \in Row |->
                     IF x \in victims[r] /\ lock[x] = NoRequest THEN "revoked" ELSE status[x]]
    /\ Become(r, IF kind[r] = "login" THEN "issuing" ELSE "ok")
    /\ UNCHANGED <<device, born, login, parent, lock, epoch, requestVars>>
RevokedAtOnce(r) ==
    /\ phase[r] = "revoking"
    /\ status' = [x \in Row |-> IF x \in victims[r] THEN "revoked" ELSE status[x]]
    /\ Become(r, IF kind[r] = "login" THEN "issuing" ELSE "ok")
    /\ UNCHANGED <<device, born, login, parent, lock, epoch, requestVars>>

\* The statement ends when no rotation has a row of it in hand.
Revoked(r) ==
    /\ phase[r] = "revoking"
    /\ \A x \in victims[r] : lock[x] = NoRequest
    /\ status' = [x \in Row |-> IF x \in victims[r] THEN "revoked" ELSE status[x]]
    /\ Become(r, IF kind[r] = "login" THEN "issuing" ELSE "ok")
    /\ UNCHANGED <<device, born, login, parent, lock, epoch, requestVars>>

\* issueRefreshToken inserts the row.
Issue(r, y) ==
    /\ phase[r] = "issuing"
    /\ Insert(y, dev[r], epoch, y, NoRow)
    /\ status' = [status EXCEPT ![y] = "live"]
    /\ Become(r, "ok")
    /\ UNCHANGED <<lock, epoch, requestVars>>

\* A statement fails: the database is gone or the process dies.
StatementFails(r) ==
    /\ phase[r] \in {"revoking", "issuing"}
    /\ Become(r, "failed")
    /\ UNCHANGED <<rowVars, lock, epoch, requestVars>>

\* POST /auth/reset-password: resetUserPassword sets passwordChangedAt.
ResetPassword ==
    /\ epoch < MaxResets
    /\ epoch' = epoch + 1
    /\ UNCHANGED <<rowVars, lock, phase, requestVars>>

-----------------------------------------------------------------------------

Arrivals(r) ==
    \/ LogoutAll(r)
    \/ \E x \in Row : Logout(r, x) \/ \E d \in Device : RotateRead(r, x, d)
    \/ \E d \in Device : Login(r, d) \/ LoginNewDevice(r, d)

RotateStep(r) ==
    \/ RotateVerify(r) \/ RotateRevoke(r) \/ RotateAbort(r)
    \/ \E y \in Row : RotateCommit(r, y)

IssueStep(r) == (phase[r] = "issuing" /\ StatementFails(r)) \/ \E y \in Row : Issue(r, y)

Continue(r) == RotateStep(r) \/ Revoked(r) \/ StatementFails(r) \/ IssueStep(r)

Next == ResetPassword \/ \E r \in Request : Arrivals(r) \/ Continue(r)

Spec == Init /\ [][Next]_vars

-----------------------------------------------------------------------------
(* Properties. *)

TypeOK ==
    /\ status \in [Row -> {"none", "live", "revoked"}]
    /\ device \in [Row -> Device]
    /\ born \in [Row -> Nat]
    /\ login \in [Row -> Row]
    /\ parent \in [Row -> Row \cup {NoRow}]
    /\ lock \in [Row -> Request \cup {NoRequest}]
    /\ epoch \in Nat
    /\ kind \in [Request -> {"refresh", "logout", "logoutAll", "login"}]
    /\ phase \in [Request -> Answered \cup {"none", "read", "verified", "revoked",
                                            "revoking", "issuing"}]
    /\ subject \in [Request -> Row \cup {NoRow}]
    /\ dev \in [Request -> Device]
    /\ stamp \in [Request -> Nat]
    /\ victims \in [Request -> SUBSET Row]

\* A rotation works on a row that was inserted, on behalf of its device.
RotationHasRow ==
    \A r \in Request : phase[r] \in {"read", "verified", "revoked"} =>
        /\ subject[r] \in Row
        /\ status[subject[r]] # "none"
        /\ device[subject[r]] = dev[r]

\* Between the update and the commit, the row is live for everyone else and is its
\* rotation's alone.
LockIsRotation ==
    /\ \A r \in Request : phase[r] = "revoked" => lock[subject[r]] = r
    /\ \A x \in Row : lock[x] # NoRequest =>
           phase[lock[x]] = "revoked" /\ subject[lock[x]] = x /\ Live(x)

\* What a row descends from was inserted and, once rotated, is revoked; a login row
\* is its own.
Lineage ==
    \A x \in Row :
        /\ status[x] = "none" => parent[x] = NoRow
        /\ parent[x] # NoRow => status[parent[x]] = "revoked" /\ login[x] = login[parent[x]]
        /\ status[x] # "none" => status[login[x]] # "none"

\* A statement only revokes rows that exist.
VictimsExist == \A r \in Request : \A x \in victims[r] : status[x] # "none"

\* A refresh token is exchanged at most once, however many requests present it at
\* the same time: no two rows come from the rotation of one.
RotatedOnce ==
    \A x, y \in Row : parent[x] # NoRow /\ parent[x] = parent[y] => x = y

\* Of all the tokens that a login has given rise to, at most one is good.
OneLivePerLogin ==
    \A x, y \in Row : Live(x) /\ Live(y) /\ login[x] = login[y] => x = y

\* Rotation never moves a session to another device.
DeviceKept == \A x \in Row : parent[x] # NoRow => device[x] = device[parent[x]]

Consistent ==
    /\ TypeOK
    /\ RotationHasRow
    /\ LockIsRotation
    /\ Lineage
    /\ VictimsExist
    /\ RotatedOnce
    /\ OneLivePerLogin
    /\ DeviceKept

\* After a logout everywhere, or a login on a device, the tokens it found are good for
\* nothing. A token of the same logins is good only if it comes from a rotation that
\* exchanged one of the tokens found for a row that was not there yet when they were
\* looked for, and that committed, as exchanges are of good tokens only, before the answer.
Ended(r) ==
    \/ kind[r] = "logoutAll" /\ phase[r] = "ok"
    \/ kind[r] = "login" /\ phase[r] \in {"issuing", "ok"}

FoundByLogin(r, y) == \E x \in victims[r] : login[x] = login[y]

\* x was exchanged for a row that was not there when r's statement began.
Overtook(r, y) ==
    \E x \in victims[r], c \in Row \ victims[r] : parent[c] = x /\ login[c] = login[y]

RevokingEndsSessions ==
    \A r \in Request : Ended(r) =>
        \A y \in Row : Live(y) /\ FoundByLogin(r, y) => y \notin victims[r] /\ Overtook(r, y)

\* Whatever the statements and transactions do to each other, the tokens change as if each
\* exchange and each revocation were one step.
Exchanges == INSTANCE TokenExchange WITH
    Token <- Row,
    None <- NoRow,
    good <- {x \in Row : Live(x)},
    granted <- {x \in Row : status[x] # "none"},
    family <- login,
    origin <- parent

ImplementsTokenExchange == Exchanges!Spec

\* "Logged out from all devices." (auth.controller.ts:100): when logoutAll answers,
\* nothing is left of the sessions it found.
LogoutAllIsFinal ==
    \A r \in Request : kind[r] = "logoutAll" /\ phase[r] = "ok" =>
        \A y \in Row : Live(y) => login[y] \notin {login[x] : x \in victims[r]}

=============================================================================
