------------------------ MODULE RefreshSessionsProofs ------------------------
(***************************************************************************)
(* Consistent is an inductive invariant of RefreshSessions, for any number *)
(* of tokens, devices, requests and password changes. The argument for the *)
(* two properties of rotation is the row lock: between its update and its  *)
(* commit a rotation is alone with a row that is still live, so the row is *)
(* the only live one of its login, and nobody has rotated it before.       *)
(***************************************************************************)
EXTENDS RefreshSessions, TLAPS

\* No tokens, no requests: consistent.
LEMMA InitConsistent == Init => Consistent
BY NamesAssumption
   DEF Init, Consistent, TypeOK, RotationHasRow, LockIsRotation, Lineage, VictimsExist,
       RotatedOnce, OneLivePerLogin, DeviceKept, Live, Answered

\* A request arrives: no row changes, and it is not yet in a rotation's hands.
LEMMA ArrivalConsistent ==
    ASSUME Consistent, NEW r \in Request, Arrivals(r)
    PROVE  Consistent'
<1> USE NamesAssumption
    DEF Consistent, TypeOK, RotationHasRow, LockIsRotation, Lineage, VictimsExist,
        RotatedOnce, OneLivePerLogin, DeviceKept, Live, Answered, Free, Become, Arrive,
        Begin, rowVars
<1>1. CASE LogoutAll(r)
    BY <1>1 DEF LogoutAll
<1>2. ASSUME NEW x \in Row, Logout(r, x)
      PROVE  Consistent'
    BY <1>2 DEF Logout
<1>3. ASSUME NEW x \in Row, NEW d \in Device, RotateRead(r, x, d)
      PROVE  Consistent'
    BY <1>3 DEF RotateRead
<1>4. ASSUME NEW d \in Device, Login(r, d)
      PROVE  Consistent'
    BY <1>4 DEF Login
<1>5. ASSUME NEW d \in Device, LoginNewDevice(r, d)
      PROVE  Consistent'
    BY <1>5 DEF LoginNewDevice
<1>6. QED
    BY <1>1, <1>2, <1>3, <1>4, <1>5 DEF Arrivals

\* The commit of a rotation inserts y from x.
LEMMA CommitConsistent ==
    ASSUME Consistent, NEW r \in Request, NEW y \in Row, RotateCommit(r, y)
    PROVE  Consistent'
<1> DEFINE x == subject[r]
<1> USE DEF Consistent
<1>1. PICK b \in {stamp[r], epoch} : Insert(y, dev[r], b, login[x], x)
    BY DEF RotateCommit
\* The lock says that the row is still live, and whose it is.
<1>2. x \in Row /\ Live(x) /\ lock[x] = r /\ x # y /\ status[y] = "none"
  <2>1. phase[r] = "revoked" /\ status[y] = "none"
      BY <1>1 DEF RotateCommit, Insert
  <2>2. x \in Row /\ lock[x] = r
      BY <2>1 DEF RotationHasRow, LockIsRotation
  <2>3. Live(x)
      BY <2>2, NamesAssumption DEF LockIsRotation
  <2>4. QED
      BY <2>1, <2>2, <2>3 DEF Live
<1>3. /\ status' = [status EXCEPT ![x] = "revoked", ![y] = "live"]
      /\ parent' = [parent EXCEPT ![y] = x]
      /\ login' = [login EXCEPT ![y] = login[x]]
      /\ device' = [device EXCEPT ![y] = dev[r]]
      /\ lock' = [lock EXCEPT ![x] = NoRequest]
      /\ phase' = [phase EXCEPT ![r] = "ok"]
      /\ UNCHANGED <<epoch, requestVars>>
    BY <1>1, <1>2 DEF RotateCommit, Insert, Become, TypeOK
<1>4. TypeOK'
    BY <1>1, <1>2, <1>3 DEF TypeOK, Insert, Answered, requestVars
<1>5. RotationHasRow' /\ VictimsExist'
    BY <1>2, <1>3 DEF TypeOK, RotationHasRow, VictimsExist, requestVars
<1>6. LockIsRotation'
    BY <1>2, <1>3, NamesAssumption DEF TypeOK, LockIsRotation, Live, requestVars
<1>7. Lineage'
    BY <1>2, <1>3 DEF TypeOK, Lineage, Live
\* Whatever came from x before would mean that x is revoked.
<1>8. RotatedOnce'
    BY <1>2, <1>3, NamesAssumption DEF TypeOK, RotatedOnce, Lineage, Live
\* x was the live row of its login; now it is y.
<1>9. OneLivePerLogin'
  <2>1. \A z \in Row : Live(z) /\ login[z] = login[x] => z = x
      BY <1>2 DEF OneLivePerLogin
  <2>2. QED
      BY <1>2, <1>3, <2>1 DEF TypeOK, OneLivePerLogin, Live
<1>10. DeviceKept'
  <2>1. device[x] = dev[r]
      BY DEF RotateCommit, RotationHasRow
  <2>2. \A z \in Row : parent[z] # NoRow => z # y /\ parent[z] # y
      BY <1>2 DEF Lineage, TypeOK
  <2>3. QED
      BY <1>2, <1>3, <2>1, <2>2 DEF TypeOK, DeviceKept
<1>11. QED
    BY <1>4, <1>5, <1>6, <1>7, <1>8, <1>9, <1>10

\* The other steps of a rotation change no row.
LEMMA RotationConsistent ==
    ASSUME Consistent, NEW r \in Request,
           RotateVerify(r) \/ RotateRevoke(r) \/ RotateAbort(r)
    PROVE  Consistent'
<1> USE NamesAssumption
    DEF Consistent, TypeOK, RotationHasRow, LockIsRotation, Lineage, VictimsExist,
        RotatedOnce, OneLivePerLogin, DeviceKept, Live, Answered, Become, rowVars, requestVars
<1>1. CASE RotateVerify(r)
  <2>1. \E p \in {"verified", "unauthorized"} : phase' = [phase EXCEPT ![r] = p]
      BY <1>1 DEF RotateVerify
  <2>2. phase[r] = "read" /\ UNCHANGED <<rowVars, lock, epoch, requestVars>>
      BY <1>1 DEF RotateVerify
  <2>3. TypeOK'
      BY <2>1, <2>2
  <2>4. RotationHasRow' /\ LockIsRotation'
      BY <2>1, <2>2
  <2>5. Lineage' /\ VictimsExist' /\ RotatedOnce' /\ OneLivePerLogin' /\ DeviceKept'
      BY <2>2
  <2> HIDE DEF TypeOK, RotationHasRow, LockIsRotation, Lineage, VictimsExist, RotatedOnce,
               OneLivePerLogin, DeviceKept
  <2>6. QED
      BY <2>3, <2>4, <2>5
<1>2. CASE RotateRevoke(r)
  <2>1. CASE Live(subject[r])
    <3>1. /\ phase[r] = "verified" /\ lock[subject[r]] = NoRequest
          /\ subject[r] \in Row
          /\ lock' = [lock EXCEPT ![subject[r]] = r]
          /\ phase' = [phase EXCEPT ![r] = "revoked"]
          /\ UNCHANGED <<rowVars, epoch, requestVars>>
        BY <1>2, <2>1 DEF RotateRevoke
    <3>2. TypeOK'
        BY <3>1
    <3>3. RotationHasRow' /\ LockIsRotation'
        BY <2>1, <3>1
    <3>4. Lineage' /\ VictimsExist' /\ RotatedOnce' /\ OneLivePerLogin' /\ DeviceKept'
        BY <3>1
    <3> HIDE DEF TypeOK, RotationHasRow, LockIsRotation, Lineage, VictimsExist, RotatedOnce,
                 OneLivePerLogin, DeviceKept
    <3>5. QED
        BY <3>2, <3>3, <3>4
  <2>2. CASE ~Live(subject[r])
      BY <1>2, <2>2 DEF RotateRevoke
  <2>3. QED
      BY <2>1, <2>2
<1>3. CASE RotateAbort(r)
    BY <1>3 DEF RotateAbort
<1>4. QED
    BY <1>1, <1>2, <1>3

\* A statement ends: what it revokes is in no rotation's hands.
LEMMA RevokedConsistent ==
    ASSUME Consistent, NEW r \in Request, Revoked(r)
    PROVE  Consistent'
<1> USE DEF Consistent
<1>1. /\ status' = [x \in Row |-> IF x \in victims[r] THEN "revoked" ELSE status[x]]
      /\ \A x \in victims[r] : lock[x] = NoRequest /\ status[x] # "none"
      /\ phase[r] = "revoking"
      /\ phase' = [phase EXCEPT ![r] = IF kind[r] = "login" THEN "issuing" ELSE "ok"]
      /\ UNCHANGED <<device, born, login, parent, lock, epoch, requestVars>>
    BY DEF Revoked, Become, VictimsExist
<1>2. TypeOK'
    BY <1>1 DEF TypeOK, Answered, requestVars
<1>3. RotationHasRow' /\ LockIsRotation' /\ VictimsExist'
    BY <1>1 DEF TypeOK, RotationHasRow, LockIsRotation, VictimsExist, Live, requestVars
<1>4. Lineage'
    BY <1>1 DEF TypeOK, Lineage
<1>5. RotatedOnce' /\ OneLivePerLogin' /\ DeviceKept'
    BY <1>1 DEF TypeOK, RotatedOnce, OneLivePerLogin, DeviceKept, Live
<1>6. QED
    BY <1>2, <1>3, <1>4, <1>5

\* A login inserts a row that begins a lineage of its own.
LEMMA IssueConsistent ==
    ASSUME Consistent, NEW r \in Request, NEW y \in Row, Issue(r, y)
    PROVE  Consistent'
<1> USE DEF Consistent
<1>1. /\ status[y] = "none"
      /\ status' = [status EXCEPT ![y] = "live"]
      /\ parent' = [parent EXCEPT ![y] = NoRow]
      /\ login' = [login EXCEPT ![y] = y]
      /\ device' = [device EXCEPT ![y] = dev[r]]
      /\ phase[r] = "issuing"
      /\ phase' = [phase EXCEPT ![r] = "ok"]
      /\ UNCHANGED <<lock, epoch, requestVars>>
    BY DEF Issue, Insert, Become
<1>2. TypeOK'
    BY <1>1 DEF TypeOK, Issue, Insert, Answered, requestVars
<1>3. RotationHasRow' /\ LockIsRotation' /\ VictimsExist'
    BY <1>1 DEF TypeOK, RotationHasRow, LockIsRotation, VictimsExist, Live, requestVars
<1>4. Lineage'
    BY <1>1, NamesAssumption DEF TypeOK, Lineage
\* No inserted row has y, which was not, for its login.
<1>5. OneLivePerLogin'
    BY <1>1 DEF TypeOK, OneLivePerLogin, Lineage, Live
<1>6. RotatedOnce' /\ DeviceKept'
    BY <1>1 DEF TypeOK, RotatedOnce, DeviceKept, Lineage
<1>7. QED
    BY <1>2, <1>3, <1>4, <1>5, <1>6

\* Every statement of every request keeps the tokens consistent.
LEMMA NextConsistent == Consistent /\ [Next]_vars => Consistent'
<1> SUFFICES ASSUME Consistent, [Next]_vars
             PROVE  Consistent'
    OBVIOUS
<1> USE DEF Consistent, TypeOK, RotationHasRow, LockIsRotation, Lineage, VictimsExist,
            RotatedOnce, OneLivePerLogin, DeviceKept, Live
<1>1. CASE ResetPassword
    BY <1>1 DEF ResetPassword, rowVars, requestVars
<1>2. ASSUME NEW r \in Request, StatementFails(r)
      PROVE  Consistent'
    BY <1>2 DEF StatementFails, Become, Answered, rowVars, requestVars
<1>3. CASE UNCHANGED vars
    BY <1>3 DEF vars, rowVars, requestVars
<1>4. QED
    BY <1>1, <1>2, <1>3, ArrivalConsistent, CommitConsistent, RotationConsistent,
       RevokedConsistent, IssueConsistent
       DEF Next, Continue, RotateStep, IssueStep

\* The inductive invariant.
THEOREM SessionsConsistent == Spec => []Consistent
<1>1. Spec => Init /\ [][Next]_vars
    BY PTL DEF Spec
<1>2. QED
    BY <1>1, InitConsistent, NextConsistent, PTL

\* Presenting a token twice never yields two sessions.
THEOREM TokensRotateOnce == Spec => []RotatedOnce
<1>1. Consistent => RotatedOnce
    BY DEF Consistent
<1>2. QED
    BY <1>1, SessionsConsistent, PTL

\* A login has at most one good token at any time.
THEOREM OneTokenPerLogin == Spec => []OneLivePerLogin
<1>1. Consistent => OneLivePerLogin
    BY DEF Consistent
<1>2. QED
    BY <1>1, SessionsConsistent, PTL

-----------------------------------------------------------------------------
(* What the statements that revoke leave behind. *)

KindFits ==
    \A r \in Request :
        /\ phase[r] \in {"read", "verified", "revoked"} => kind[r] = "refresh"
        /\ phase[r] = "issuing" => kind[r] = "login"

\* From the moment such a statement has looked for its rows.
Looked(r) ==
    /\ kind[r] \in {"login", "logoutAll"}
    /\ phase[r] \in {"revoking", "issuing", "ok"}

FoundOrLate ==
    \A r \in Request : Looked(r) =>
        \A y \in Row : Live(y) /\ FoundByLogin(r, y) => y \in victims[r] \/ Overtook(r, y)

FoundAreGone == \A r \in Request : Ended(r) => \A x \in victims[r] : ~Live(x)

RevokingInv == KindFits /\ FoundOrLate /\ FoundAreGone

\* A step that changes no row and no request's findings, and moves one request r to a phase
\* in which it has not ended, or had ended before.
LEMMA NoRowRevokingInv ==
    ASSUME Consistent, RevokingInv, NEW r \in Request, NEW p,
           UNCHANGED <<rowVars, kind, victims>>,
           phase' = [phase EXCEPT ![r] = p],
           \/ p \in {"unauthorized", "conflict", "failed"}
           \/ p \in {"verified", "revoked"} /\ phase[r] \in {"read", "verified"}
    PROVE  RevokingInv'
<1> USE DEF Consistent, TypeOK, rowVars
<1>1. KindFits'
    BY DEF RevokingInv, KindFits
<1>2. \A q \in Request : Looked(q)' => Looked(q)
    BY DEF RevokingInv, KindFits, Looked
<1>3. \A q \in Request : Ended(q)' => Ended(q)
    BY DEF RevokingInv, KindFits, Ended
<1>4. FoundOrLate'
    BY <1>2 DEF RevokingInv, FoundOrLate, FoundByLogin, Overtook, Live
<1>5. FoundAreGone'
    BY <1>3 DEF RevokingInv, FoundAreGone, Live
<1>6. QED
    BY <1>1, <1>4, <1>5 DEF RevokingInv

\* A request arrives: a statement that looks for the rows of logins has all of their good
\* tokens, as a login has one at most.
LEMMA ArrivalRevokingInv ==
    ASSUME Consistent, RevokingInv, NEW r \in Request, Arrivals(r)
    PROVE  RevokingInv'
<1> USE DEF Consistent, TypeOK, rowVars
<1> DEFINE Kinds == {"refresh", "logout", "logoutAll", "login"}
           Phases == {"unauthorized", "read", "revoking", "issuing"}
           ArrivesAs(k, p) ==
               /\ kind' = [kind EXCEPT ![r] = k]
               /\ phase' = [phase EXCEPT ![r] = p]
               /\ p \in {"unauthorized", "read"} => k = "refresh"
               /\ p = "issuing" => k = "login" /\ victims'[r] = {}
               /\ \E S \in SUBSET Row : victims' = [victims EXCEPT ![r] = S]
               /\ UNCHANGED rowVars
               /\ p = "revoking" /\ k = "logoutAll" =>
                      victims'[r] = {x \in Row : status[x] # "none"}
               /\ p = "revoking" /\ k = "login" => \A x \in victims'[r] : Live(x)
<1>1. PICK k \in Kinds, p \in Phases : ArrivesAs(k, p)
  <2>1. CASE LogoutAll(r)
    <3>1. ArrivesAs("logoutAll", "revoking")
        BY <2>1 DEF LogoutAll, Arrive, Begin, Become
    <3>2. QED
        BY <3>1
  <2>2. ASSUME NEW x \in Row, Logout(r, x)
        PROVE  ArrivesAs("logout", "revoking")
      BY <2>2 DEF Logout, Arrive, Begin, Become
  <2>3. ASSUME NEW x \in Row, NEW d \in Device, RotateRead(r, x, d)
        PROVE  \E p \in Phases : ArrivesAs("refresh", p)
    <3>1. PICK p \in {"unauthorized", "read"} : Arrive(r, "refresh", x, d, p)
        BY <2>3 DEF RotateRead
    <3>2. ArrivesAs("refresh", p)
        BY <2>3, <3>1 DEF RotateRead, Arrive, Become
    <3>3. QED
        BY <3>2
  <2>4. ASSUME NEW d \in Device, Login(r, d)
        PROVE  ArrivesAs("login", "revoking")
      BY <2>4 DEF Login, Arrive, Begin, Become
  <2>5. ASSUME NEW d \in Device, LoginNewDevice(r, d)
        PROVE  ArrivesAs("login", "issuing")
      BY <2>5 DEF LoginNewDevice, Arrive, Begin, Become
  <2> HIDE DEF ArrivesAs
  <2>6. QED
      BY <2>1, <2>2, <2>3, <2>4, <2>5 DEF Arrivals
<1>2. KindFits'
    BY <1>1 DEF RevokingInv, KindFits
<1>3. ASSUME NEW q \in Request, q # r
      PROVE  /\ Looked(q)' = Looked(q) /\ Ended(q)' = Ended(q)
             /\ victims'[q] = victims[q]
    BY <1>1, <1>3 DEF Looked, Ended
<1>4. FoundOrLate'
  <2> SUFFICES ASSUME NEW q \in Request, Looked(q)', NEW y \in Row,
                      Live(y)', FoundByLogin(q, y)'
               PROVE  y \in victims'[q] \/ Overtook(q, y)'
      BY DEF FoundOrLate
  <2>1. CASE q # r
      BY <2>1, <1>1, <1>3 DEF RevokingInv, FoundOrLate, FoundByLogin, Overtook, Live
  <2>2. CASE q = r
    <3>1. PICK x \in victims'[r] : login[x] = login[y]
        BY <2>2, <1>1 DEF FoundByLogin
    <3>2. p \in {"revoking", "issuing"} /\ k \in {"login", "logoutAll"}
        BY <2>2, <1>1 DEF Looked
    <3>3. x \in Row /\ Live(y)
        BY <3>1, <1>1 DEF Live
    <3>4. CASE k = "logoutAll"
        BY <2>2, <3>2, <3>3, <3>4, <1>1 DEF Live
    <3>5. CASE k = "login" /\ p = "revoking"
        BY <2>2, <3>1, <3>3, <3>5, <1>1 DEF OneLivePerLogin
    <3>6. QED
        BY <3>1, <3>2, <3>4, <3>5, <1>1
  <2>3. QED
      BY <2>1, <2>2
<1>5. FoundAreGone'
  <2>1. Ended(r)' => p = "issuing" /\ victims'[r] = {}
      BY <1>1 DEF Ended
  <2>2. QED
      BY <2>1, <1>1, <1>3 DEF RevokingInv, FoundAreGone, Live
<1>6. QED
    BY <1>2, <1>4, <1>5 DEF RevokingInv

\* The commit of a rotation: what it exchanged was found or came late, and so comes what it
\* was exchanged for.
LEMMA CommitRevokingInv ==
    ASSUME Consistent, RevokingInv, NEW r \in Request, NEW y \in Row, RotateCommit(r, y)
    PROVE  RevokingInv'
<1> DEFINE x == subject[r]
<1> USE DEF Consistent
<1>1. PICK b \in {stamp[r], epoch} : Insert(y, dev[r], b, login[x], x)
    BY DEF RotateCommit
<1>2. x \in Row /\ Live(x) /\ x # y /\ status[y] = "none" /\ phase[r] = "revoked"
    BY <1>1, NamesAssumption DEF RotateCommit, Insert, LockIsRotation, RotationHasRow, TypeOK, Live
<1>3. /\ status' = [status EXCEPT ![x] = "revoked", ![y] = "live"]
      /\ parent' = [parent EXCEPT ![y] = x]
      /\ login' = [login EXCEPT ![y] = login[x]]
      /\ phase' = [phase EXCEPT ![r] = "ok"]
      /\ UNCHANGED <<kind, victims>>
    BY <1>1 DEF RotateCommit, Insert, Become, requestVars
<1>4. kind[r] = "refresh"
    BY <1>2 DEF RevokingInv, KindFits
<1>5. KindFits'
    BY <1>3 DEF RevokingInv, KindFits, TypeOK
<1>6. \A q \in Request : (Looked(q)' => Looked(q)) /\ (Ended(q)' => Ended(q))
    BY <1>3, <1>4 DEF Looked, Ended, TypeOK
<1>7. \A q \in Request : y \notin victims[q] /\ victims[q] \subseteq Row
    BY <1>2 DEF VictimsExist, TypeOK
<1>8. FoundOrLate'
  <2> SUFFICES ASSUME NEW q \in Request, Looked(q), NEW z \in Row,
                      Live(z)', FoundByLogin(q, z)'
               PROVE  z \in victims[q] \/ Overtook(q, z)'
      BY <1>3, <1>6 DEF FoundOrLate
  \* Of the rows that are there, none changes its login or its origin.
  <2>1. \A v \in Row : v # y => login'[v] = login[v] /\ parent'[v] = parent[v]
      BY <1>3 DEF TypeOK
  <2>2. \A w \in Row : w # y /\ Overtook(q, w) => Overtook(q, w)'
    <3> SUFFICES ASSUME NEW w \in Row, w # y, Overtook(q, w)
                 PROVE  Overtook(q, w)'
        OBVIOUS
    <3>1. PICK v \in victims[q], c \in Row \ victims[q] : parent[c] = v /\ login[c] = login[w]
        BY DEF Overtook
    <3>2. c # y
        BY <3>1, <1>2, <1>7, NamesAssumption DEF Lineage
    <3>3. QED
        BY <3>1, <3>2, <2>1, <1>3 DEF Overtook
  <2>3. CASE z # y
    <3>1. Live(z) /\ FoundByLogin(q, z)
        BY <2>3, <2>1, <1>2, <1>3, <1>7 DEF Live, FoundByLogin, TypeOK
    <3>2. QED
        BY <2>3, <3>1, <2>2 DEF RevokingInv, FoundOrLate
  <2>4. CASE z = y
    <3>1. login'[y] = login[x] /\ parent'[y] = x
        BY <1>3 DEF TypeOK
    <3>2. FoundByLogin(q, x)
        BY <2>4, <2>1, <3>1, <1>3, <1>7 DEF FoundByLogin
    <3>3. CASE x \in victims[q]
        BY <2>4, <3>1, <3>3, <1>3, <1>7 DEF Overtook
    <3>4. CASE Overtook(q, x)
        BY <2>4, <2>1, <2>2, <3>1, <3>4, <1>2 DEF Overtook
    <3>5. QED
        BY <3>2, <3>3, <3>4, <1>2 DEF RevokingInv, FoundOrLate
  <2>5. QED
      BY <2>3, <2>4
<1>9. FoundAreGone'
    BY <1>3, <1>6, <1>7 DEF RevokingInv, FoundAreGone, Live, TypeOK
<1>10. QED
    BY <1>5, <1>8, <1>9 DEF RevokingInv

\* The end of a statement: what it found and is still good, it revokes.
LEMMA RevokedRevokingInv ==
    ASSUME Consistent, RevokingInv, NEW r \in Request, Revoked(r)
    PROVE  RevokingInv'
<1> USE DEF Consistent, TypeOK
<1>1. /\ status' = [x \in Row |-> IF x \in victims[r] THEN "revoked" ELSE status[x]]
      /\ phase[r] = "revoking"
      /\ phase' = [phase EXCEPT ![r] = IF kind[r] = "login" THEN "issuing" ELSE "ok"]
      /\ UNCHANGED <<login, parent, kind, victims>>
    BY DEF Revoked, Become, requestVars
<1>2. KindFits'
    BY <1>1 DEF RevokingInv, KindFits
<1>3. \A q \in Request : (Looked(q)' => Looked(q)) /\ (q # r /\ Ended(q)' => Ended(q))
    BY <1>1 DEF Looked, Ended
<1>4. \A z \in Row : Live(z)' => Live(z) /\ z \notin victims[r]
    BY <1>1 DEF Live
<1>5. FoundOrLate'
    BY <1>1, <1>3, <1>4 DEF RevokingInv, FoundOrLate, FoundByLogin, Overtook
<1>6. FoundAreGone'
    BY <1>1, <1>3, <1>4 DEF RevokingInv, FoundAreGone
<1>7. QED
    BY <1>2, <1>5, <1>6 DEF RevokingInv

\* A login's new row is of no login that anybody has found.
LEMMA IssueRevokingInv ==
    ASSUME Consistent, RevokingInv, NEW r \in Request, NEW y \in Row, Issue(r, y)
    PROVE  RevokingInv'
<1> USE DEF Consistent, TypeOK
<1>1. /\ status[y] = "none"
      /\ status' = [status EXCEPT ![y] = "live"]
      /\ parent' = [parent EXCEPT ![y] = NoRow]
      /\ login' = [login EXCEPT ![y] = y]
      /\ phase[r] = "issuing"
      /\ phase' = [phase EXCEPT ![r] = "ok"]
      /\ UNCHANGED <<kind, victims>>
    BY DEF Issue, Insert, Become, requestVars
<1>2. KindFits'
    BY <1>1 DEF RevokingInv, KindFits
<1>3. \A q \in Request : (Looked(q)' => Looked(q)) /\ (Ended(q)' => Ended(q))
    BY <1>1 DEF RevokingInv, KindFits, Looked, Ended
<1>4. \A q \in Request : \A v \in victims[q] : v \in Row /\ v # y /\ login[v] # y
    BY <1>1 DEF VictimsExist, Lineage
<1>5. FoundOrLate'
  <2> SUFFICES ASSUME NEW q \in Request, Looked(q), NEW z \in Row,
                      Live(z)', FoundByLogin(q, z)'
               PROVE  z \in victims[q] \/ Overtook(q, z)'
      BY <1>1, <1>3 DEF FoundOrLate
  <2>1. z # y /\ Live(z) /\ FoundByLogin(q, z)
      BY <1>1, <1>4 DEF Live, FoundByLogin
  <2>2. z \in victims[q] \/ Overtook(q, z)
      BY <2>1 DEF RevokingInv, FoundOrLate
  <2>3. Overtook(q, z) => Overtook(q, z)'
      BY <2>1, <1>1, <1>4, NamesAssumption DEF Overtook, Lineage
  <2>4. QED
      BY <2>2, <2>3
<1>6. FoundAreGone'
    BY <1>1, <1>3, <1>4 DEF RevokingInv, FoundAreGone, Live
<1>7. QED
    BY <1>2, <1>5, <1>6 DEF RevokingInv

\* The other steps change no row.
LEMMA NextRevokingInv == Consistent /\ RevokingInv /\ [Next]_vars => RevokingInv'
<1> SUFFICES ASSUME Consistent, RevokingInv, [Next]_vars
             PROVE  RevokingInv'
    OBVIOUS
<1>1. CASE ResetPassword \/ UNCHANGED vars
    BY <1>1 DEF ResetPassword, vars, rowVars, requestVars, RevokingInv, KindFits, FoundOrLate,
       FoundAreGone, Looked, Ended, FoundByLogin, Overtook, Live
<1>2. ASSUME NEW r \in Request, RotateVerify(r) \/ RotateRevoke(r) \/ RotateAbort(r)
      PROVE  RevokingInv'
    BY <1>2, NoRowRevokingInv DEF RotateVerify, RotateRevoke, RotateAbort, Become, requestVars
<1>3. ASSUME NEW r \in Request, StatementFails(r)
      PROVE  RevokingInv'
    BY <1>3, NoRowRevokingInv DEF StatementFails, Become, requestVars
<1>4. QED
    BY <1>1, <1>2, <1>3, ArrivalRevokingInv, CommitRevokingInv, RevokedRevokingInv,
       IssueRevokingInv DEF Next, Continue, RotateStep, IssueStep

\* After a logout everywhere, or a login on a device, only what overtook it is left.
THEOREM RevokedLoginsEnd == Spec => []RevokingEndsSessions
<1>1. Init => RevokingInv
    BY DEF Init, RevokingInv, KindFits, FoundOrLate, FoundAreGone, Looked, Ended
<1>2. Consistent /\ RevokingInv => RevokingEndsSessions
  <2> SUFFICES ASSUME RevokingInv, NEW r \in Request, Ended(r), NEW y \in Row,
                      Live(y), FoundByLogin(r, y)
               PROVE  y \notin victims[r] /\ Overtook(r, y)
      BY DEF RevokingEndsSessions
  <2>1. y \notin victims[r]
      BY DEF RevokingInv, FoundAreGone
  <2>2. Looked(r)
      BY DEF Ended, Looked
  <2>3. QED
      BY <2>1, <2>2 DEF RevokingInv, FoundOrLate
<1>3. Spec => Init /\ [][Next]_vars
    BY PTL DEF Spec
<1>4. QED
    BY <1>1, <1>2, <1>3, NextRevokingInv, SessionsConsistent, PTL

-----------------------------------------------------------------------------
(* The refinement: a rotation exchanges its token when it commits, and at no other moment. *)

goodOf == {x \in Row : Live(x)}
grantedOf == {x \in Row : status[x] # "none"}

\* Every step of the table is one of TokenExchange, or changes no token.
LEMMA StepExchanges ==
    ASSUME Consistent, [Next]_vars
    PROVE  [Exchanges!Next]_(Exchanges!vars)
<1> USE DEF Consistent, TypeOK, goodOf, grantedOf
<1> DEFINE same == UNCHANGED <<status, login, parent>>
<1>1. same => UNCHANGED Exchanges!vars
    BY DEF Exchanges!vars, Live
<1>2. ASSUME NEW r \in Request, Arrivals(r)
      PROVE  same
    BY <1>2 DEF Arrivals, LogoutAll, Logout, RotateRead, Login, LoginNewDevice, rowVars
<1>3. ASSUME NEW r \in Request,
             RotateVerify(r) \/ RotateRevoke(r) \/ RotateAbort(r) \/ StatementFails(r)
      PROVE  same
    BY <1>3 DEF RotateVerify, RotateRevoke, RotateAbort, StatementFails, rowVars
<1>4. ASSUME ResetPassword \/ UNCHANGED vars
      PROVE  same
    BY <1>4 DEF ResetPassword, vars, rowVars
<1>5. ASSUME NEW r \in Request, NEW y \in Row, RotateCommit(r, y)
      PROVE  Exchanges!Exchange(subject[r], y)
  <2> DEFINE x == subject[r]
  \* Its lock has kept the row as good as it was found.
  <2>1. x \in Row /\ Live(x) /\ x # y /\ status[y] = "none"
      BY <1>5, NamesAssumption DEF RotateCommit, Insert, LockIsRotation, RotationHasRow, Live
  <2>2. /\ status' = [status EXCEPT ![x] = "revoked", ![y] = "live"]
        /\ parent' = [parent EXCEPT ![y] = x]
        /\ login' = [login EXCEPT ![y] = login[x]]
      BY <1>5 DEF RotateCommit, Insert
  <2>3. goodOf' = (goodOf \ {x}) \cup {y} /\ grantedOf' = grantedOf \cup {y}
      BY <2>1, <2>2 DEF Live
  <2>4. x \in goodOf /\ y \in Row \ grantedOf
      BY <2>1
  <2>5. QED
      BY <2>2, <2>3, <2>4 DEF Exchanges!Exchange, Exchanges!Record
<1>6. ASSUME NEW r \in Request, NEW y \in Row, Issue(r, y)
      PROVE  Exchanges!Grant(y)
  <2>1. /\ status[y] = "none"
        /\ status' = [status EXCEPT ![y] = "live"]
        /\ parent' = [parent EXCEPT ![y] = NoRow]
        /\ login' = [login EXCEPT ![y] = y]
      BY <1>6 DEF Issue, Insert
  <2>2. goodOf' = goodOf \cup {y} /\ grantedOf' = grantedOf \cup {y} /\ y \in Row \ grantedOf
      BY <2>1 DEF Live
  <2>3. QED
      BY <2>1, <2>2 DEF Exchanges!Grant, Exchanges!Record
<1>7. ASSUME NEW r \in Request, Revoked(r)
      PROVE  \E S \in SUBSET goodOf : Exchanges!Revoke(S)
  <2> DEFINE S == goodOf \cap victims[r]
  <2>1. status' = [x \in Row |-> IF x \in victims[r] THEN "revoked" ELSE status[x]]
      BY <1>7 DEF Revoked
  <2>2. goodOf' = goodOf \ S
      BY <2>1 DEF Live
  <2>3. grantedOf' = grantedOf
      BY <2>1 DEF VictimsExist
  <2>4. UNCHANGED <<login, parent>>
      BY <1>7 DEF Revoked
  <2>5. QED
      BY <2>2, <2>3, <2>4 DEF Exchanges!Revoke
<1>8. CASE Next
  <2>1. \A r \in Request, y \in Row : RotateCommit(r, y) => subject[r] \in goodOf
      BY <1>5 DEF Exchanges!Exchange
  <2>2. QED
      BY <1>1, <1>2, <1>3, <1>4, <1>5, <1>6, <1>7, <1>8, <2>1
         DEF Next, Continue, RotateStep, IssueStep, Exchanges!Next
<1>9. QED
    BY <1>1, <1>4, <1>8 DEF Exchanges!Next

\* Transactions and statements under READ COMMITTED exchange and revoke tokens as if each
\* did so in one step.
THEOREM SessionsExchangeTokens == Spec => ImplementsTokenExchange
<1>1. Init => Exchanges!Init
    BY DEF Init, Exchanges!Init, Live
<1>2. Spec => Init /\ [][Next]_vars
    BY PTL DEF Spec
<1>3. QED
    BY <1>1, <1>2, StepExchanges, SessionsConsistent, PTL
       DEF ImplementsTokenExchange, Exchanges!Spec

=============================================================================
