--------------------------- MODULE AccountsProofs ---------------------------
(***************************************************************************)
(* An account as a whole behaves as RefreshSessions, LoginLockout and      *)
(* TwoFactorGuard each say, so that what holds of the sessions holds here, *)
(* and the properties of the lock and of the guard are proved from their   *)
(* own steps. PasswordChangeEndsSessions needs all three: it follows from  *)
(* how young the rows of a login are, and how young its password.          *)
(***************************************************************************)
EXTENDS Accounts, RefreshSessionsProofs

-----------------------------------------------------------------------------
(* The three parts. *)

\* Every request of the account is a request of RefreshSessions, or leaves it alone.
THEOREM AccountImplementsSessions == AccountSpec => Spec
<1>1. AccountInit => Init
    BY DEF AccountInit
<1>2. [AccountNext]_accountVars => [Next]_vars
  <2> SUFFICES ASSUME AccountNext
               PROVE  Next \/ UNCHANGED vars
      BY DEF accountVars
  <2> USE DEF Next
  <2>1. ASSUME NEW r \in Request, NEW d \in Device, OpenSession(r, d)
        PROVE  Next
      BY <2>1 DEF OpenSession, Arrivals
  <2>2. ASSUME NEW r \in Request, ArriveAtSessions(r)
        PROVE  Next
      BY <2>2 DEF ArriveAtSessions, Arrivals
  <2>3. ASSUME NEW r \in Request, SessionStep(r)
        PROVE  Next
      BY <2>3 DEF SessionStep, Continue, RotateStep
  <2>4. ASSUME NEW r \in Request, NEW y \in Row, OpenedSession(r, y) \/ Rotated(r, y)
        PROVE  Next
      BY <2>4 DEF OpenedSession, Rotated, Continue, RotateStep, IssueStep
  <2>5. ASSUME NEW r \in Request, ChangePassword(r)
        PROVE  Next
      BY <2>5 DEF ChangePassword
  <2>6. QED
      BY <2>1, <2>2, <2>3, <2>4, <2>5
         DEF AccountNext, ArriveAtLock, LockStep, ArriveAtGuard, GuardStep, VerifyEmail
<1>3. QED
    BY <1>1, <1>2, PTL DEF AccountSpec, Spec

\* Registrations and logins are requests of LoginLockout.
THEOREM AccountImplementsLock == AccountSpec => Lock!Spec
<1>1. AccountInit => Lock!Init
    BY DEF AccountInit
<1>2. [AccountNext]_accountVars => [Lock!Next]_(Lock!vars)
  <2> SUFFICES ASSUME AccountNext
               PROVE  Lock!Next \/ UNCHANGED Lock!vars
      BY DEF accountVars, lockVars, Lock!vars, Lock!lockVars
  <2> USE DEF Lock!Next
  <2>1. ASSUME NEW r \in Request, ArriveAtLock(r)
        PROVE  Lock!Next
      BY <2>1 DEF ArriveAtLock
  <2>2. ASSUME NEW r \in Request, LockStep(r)
        PROVE  Lock!Next
      BY <2>2 DEF LockStep
  <2>3. ASSUME NEW r \in Request, NEW d \in Device, OpenSession(r, d)
        PROVE  Lock!Next
      BY <2>3 DEF OpenSession
  <2>4. QED
      BY <2>1, <2>2, <2>3
         DEF AccountNext, ArriveAtSessions, SessionStep, OpenedSession, Rotated, ArriveAtGuard,
             GuardStep, ChangePassword, VerifyEmail, lockVars, Lock!vars, Lock!lockVars
<1>3. QED
    BY <1>1, <1>2, PTL DEF AccountSpec, Lock!Spec

\* Password changes and confirmations of the address are requests of TwoFactorGuard.
THEOREM AccountImplementsGuard == AccountSpec => Guard!Spec
<1>1. AccountInit => Guard!Init
    BY DEF AccountInit
<1>2. [AccountNext]_accountVars => [Guard!Next]_(Guard!vars)
  <2> SUFFICES ASSUME AccountNext
               PROVE  Guard!Next \/ UNCHANGED Guard!vars
      BY DEF accountVars, guardVars, Guard!vars
  <2> USE DEF Guard!Next
  <2>1. ASSUME NEW r \in Request, NEW t \in Token, ArriveAtGuard(r, t)
        PROVE  Guard!Next
      BY <2>1 DEF ArriveAtGuard
  <2>2. ASSUME NEW r \in Request, GuardStep(r)
        PROVE  Guard!Next
      BY <2>2 DEF GuardStep
  <2>3. ASSUME NEW r \in Request, ChangePassword(r) \/ VerifyEmail(r)
        PROVE  Guard!Next
      BY <2>3 DEF ChangePassword, VerifyEmail
  <2>4. QED
      BY <2>1, <2>2, <2>3
         DEF AccountNext, ArriveAtLock, LockStep, OpenSession, ArriveAtSessions, SessionStep,
             OpenedSession, Rotated, guardVars, Guard!vars
<1>3. QED
    BY <1>1, <1>2, PTL DEF AccountSpec, Guard!Spec

\* The invariant of the sessions, for the account as a whole.
THEOREM AccountSessionsConsistent == AccountSpec => []Consistent
BY AccountImplementsSessions, SessionsConsistent, PTL

\* The tokens of an account change as by exchanges, grants and revocations of one step each,
\* under registrations, logins with a lock and password changes, too.
THEOREM AccountExchangesTokens == AccountSpec => ImplementsTokenExchange
BY AccountImplementsSessions, SessionsExchangeTokens, PTL

\* A logout everywhere, and a login on a device, end of the account's sessions what they do
\* of those of RefreshSessions.
THEOREM AccountLogoutsEndSessions == AccountSpec => []RevokingEndsSessions
BY AccountImplementsSessions, RevokedLoginsEnd, PTL

-----------------------------------------------------------------------------
(* The lock. *)

LockInv == Lock!TypeOK /\ OneAccount /\ NeverLockedEarly

\* The counter is written as one more than a value read before.
LEMMA LockInvariant == AccountSpec => []LockInv
<1>1. Lock!Init => LockInv
  <2> SUFFICES ASSUME Lock!Init
               PROVE  LockInv
      OBVIOUS
  <2>1. locked \in BOOLEAN /\ ~locked
      BY Zenon DEF Lock!Init
  <2>2. /\ accounts = 0 /\ failedLoginCount = 0 /\ wrong = 0 /\ unpunished = 0
        /\ loginPhase = [r \in Request |-> "idle"] /\ seen = [r \in Request |-> 0]
      BY DEF Lock!Init
  <2>3. QED
      BY <2>1, <2>2 DEF LockInv, Lock!TypeOK, OneAccount, Lock!OneAccount, NeverLockedEarly,
                        Lock!NeverLockedEarly
<1>2. LockInv /\ [Lock!Next]_(Lock!vars) => LockInv'
  <2> SUFFICES ASSUME LockInv, [Lock!Next]_(Lock!vars)
               PROVE  LockInv'
      OBVIOUS
  <2> USE LimitAssumption
      DEF LockInv, Lock!TypeOK, OneAccount, Lock!OneAccount, NeverLockedEarly,
          Lock!NeverLockedEarly, Lock!Become, Lock!Forget, Lock!lockVars
  <2>1. ASSUME NEW r \in Request,
               Lock!FindNone(r) \/ Lock!Create(r) \/ Lock!Read(r) \/ Lock!Return(r)
        PROVE  LockInv'
      BY <2>1 DEF Lock!FindNone, Lock!Create, Lock!Read, Lock!Return
  <2>2. ASSUME NEW r \in Request, Lock!Refuse(r)
        PROVE  LockInv'
    <3>1. /\ wrong' = wrong + 1 /\ failedLoginCount' = seen[r] + 1
          /\ seen[r] \in Nat /\ seen[r] <= wrong
        BY <2>2 DEF Lock!Refuse
    <3>2. locked' => wrong' >= MaxFailures
        BY <2>2, <3>1 DEF Lock!Refuse, Lock!LocksAt
    <3>3. Lock!TypeOK'
        BY <2>2 DEF Lock!Refuse
    <3>4. \A s \in Request : seen'[s] <= wrong'
        BY <2>2, <3>1 DEF Lock!Refuse
    <3>5. UNCHANGED accounts
        BY <2>2 DEF Lock!Refuse
    <3>6. QED
        BY <3>1, <3>2, <3>3, <3>4, <3>5
  <2>3. ASSUME NEW r \in Request, Lock!Accept(r)
        PROVE  LockInv'
    <3>1. locked' \in BOOLEAN /\ ~locked'
        BY <2>3, Zenon DEF Lock!Accept
    <3>2. /\ failedLoginCount' = 0 /\ unpunished' = 0
          /\ loginPhase' = [loginPhase EXCEPT ![r] = "accepted"]
          /\ seen' = [seen EXCEPT ![r] = 0]
          /\ UNCHANGED <<accounts, wrong>>
        BY <2>3 DEF Lock!Accept
    <3>3. QED
        BY <3>1, <3>2
  <2>4. ASSUME NEW r \in Request, Lock!Fail(r)
        PROVE  LockInv'
      BY <2>4 DEF Lock!Fail
  <2>5. CASE Lock!LockExpires
      BY <2>5 DEF Lock!LockExpires
  <2>6. CASE UNCHANGED Lock!vars
      BY <2>6 DEF Lock!vars
  <2>7. QED
      BY <2>1, <2>2, <2>3, <2>4, <2>5, <2>6 DEF Lock!Next
<1>3. QED
    BY <1>1, <1>2, AccountImplementsLock, PTL DEF Lock!Spec

\* However registrations overlap, an email has one account.
THEOREM EmailHasOneAccount == AccountSpec => []OneAccount
<1>1. LockInv => OneAccount
    BY DEF LockInv
<1>2. QED
    BY <1>1, LockInvariant, PTL

\* The counter never runs ahead of the wrong passwords, for any number of requests and any
\* limit.
THEOREM LocksOnlyWhenDue == AccountSpec => []NeverLockedEarly
<1>1. LockInv => NeverLockedEarly
    BY DEF LockInv
<1>2. QED
    BY <1>1, LockInvariant, PTL

\* A login that read the row before the lock cannot lift it by what it writes back, however
\* many logins are under way: only time or a right password does.
THEOREM OnlyRightPasswordsUnlock == AccountSpec => LockOutlivesWrongPasswords
<1>1. LockInv /\ [Lock!Next]_(Lock!vars) =>
          [locked /\ ~locked' =>
               \/ loginPhase' = loginPhase
               \/ \E r \in Request :
                      loginPhase[r] = "hashing" /\ loginPhase'[r] = "accepted"]_(Lock!vars)
  <2> SUFFICES ASSUME LockInv, Lock!Next, locked, ~locked', loginPhase' # loginPhase
               PROVE  \E r \in Request :
                          loginPhase[r] = "hashing" /\ loginPhase'[r] = "accepted"
      OBVIOUS
  <2>1. ~Lock!LockExpires
      BY DEF Lock!LockExpires
  <2>2. ASSUME NEW r \in Request,
               Lock!FindNone(r) \/ Lock!Create(r) \/ Lock!Read(r) \/ Lock!Fail(r)
                   \/ Lock!Return(r)
        PROVE  FALSE
      BY <2>2, Zenon
         DEF Lock!FindNone, Lock!Create, Lock!Read, Lock!Fail, Lock!Return, Lock!lockVars
  \* Refuse writes a lock or leaves it as it is.
  <2>3. ASSUME NEW r \in Request, Lock!Refuse(r)
        PROVE  FALSE
      BY <2>3, Zenon DEF Lock!Refuse
  <2>4. PICK r \in Request : Lock!Accept(r)
      BY <2>1, <2>2, <2>3 DEF Lock!Next
  <2>5. loginPhase[r] = "hashing" /\ loginPhase' = [loginPhase EXCEPT ![r] = "accepted"]
      BY <2>4 DEF Lock!Accept, Lock!Become
  <2>6. QED
      BY <2>5 DEF LockInv, Lock!TypeOK
<1>2. QED
    BY <1>1, LockInvariant, AccountImplementsLock, PTL
       DEF Lock!Spec, LockOutlivesWrongPasswords, Lock!LockOutlivesWrongPasswords

-----------------------------------------------------------------------------
(* The guard. *)

GuardInv == Guard!TypeOK /\ Guard!GrantIsExclusive /\ TokenWorksOnce

\* For any number of tokens and of requests at a time, the unique index lets one request
\* through per token.
LEMMA GuardInvariant == AccountSpec => []GuardInv
<1>1. Guard!Init => GuardInv
    BY TokenAssumption
       DEF Guard!Init, GuardInv, Guard!TypeOK, Guard!GrantIsExclusive, TokenWorksOnce,
           Guard!TokenWorksOnce
<1>2. GuardInv /\ [Guard!Next]_(Guard!vars) => GuardInv'
  <2> SUFFICES ASSUME GuardInv, [Guard!Next]_(Guard!vars)
               PROVE  GuardInv'
      OBVIOUS
  <2> USE TokenAssumption
      DEF GuardInv, Guard!TypeOK, Guard!GrantIsExclusive, TokenWorksOnce, Guard!TokenWorksOnce,
          Guard!Become, Guard!Answer
  <2>1. ASSUME NEW r \in Request, NEW t \in Token, Guard!Present(r, t)
        PROVE  GuardInv'
      BY <2>1 DEF Guard!Present, Guard!Free
  <2>2. ASSUME NEW r \in Request, Guard!Consume(r)
        PROVE  GuardInv'
    \* A token not on record has had no effect, and nobody holds it behind the guard.
    <3>1. /\ presented[r] \in Token
          /\ presented[r] \notin used =>
                 /\ effects[presented[r]] = 0
                 /\ \A s \in Request : guardPhase[s] = "granted" => presented[s] # presented[r]
        BY <2>2 DEF Guard!Consume
    <3>2. QED
        BY <2>2, <3>1 DEF Guard!Consume
  <2>3. ASSUME NEW r \in Request, Guard!ConsumeFails(r) \/ Guard!Refuse(r)
        PROVE  GuardInv'
      BY <2>3 DEF Guard!ConsumeFails, Guard!Refuse
  <2>4. ASSUME NEW r \in Request, Guard!Perform(r)
        PROVE  GuardInv'
    <3>1. /\ presented[r] \in Token /\ presented[r] \in used /\ effects[presented[r]] = 0
          /\ \A s \in Request :
                 guardPhase[s] = "granted" /\ s # r => presented[s] # presented[r]
        BY <2>4 DEF Guard!Perform
    <3>2. QED
        BY <2>4, <3>1 DEF Guard!Perform
  <2>5. CASE UNCHANGED Guard!vars
      BY <2>5 DEF Guard!vars
  <2>6. QED
      BY <2>1, <2>2, <2>3, <2>4, <2>5 DEF Guard!Next
<1>3. QED
    BY <1>1, <1>2, AccountImplementsGuard, PTL DEF Guard!Spec

\* A two-factor token changes a password, or confirms an address, once.
THEOREM GuardPassesOnce == AccountSpec => []TokenWorksOnce
<1>1. GuardInv => TokenWorksOnce
    BY DEF GuardInv
<1>2. QED
    BY <1>1, GuardInvariant, PTL

-----------------------------------------------------------------------------
(* The password. *)

PasswordInv ==
    /\ since \in [Request -> Nat] /\ \A r \in Request : since[r] <= epoch /\ stamp[r] <= epoch
    /\ checked \in [Row -> Nat] /\ \A x \in Row : checked[x] <= epoch
    /\ overtaken \subseteq Row
    /\ RotationIsYoung
    /\ RowsAsYoungAsPassword

\* Requests arrive in the present epoch, and change no row.
LEMMA ArrivalPassword ==
    ASSUME Consistent, Consistent', PasswordInv, NEW r \in Request,
           \/ ArriveAtLock(r) \/ ArriveAtSessions(r)
           \/ \E d \in Device : OpenSession(r, d)
    PROVE  PasswordInv'
<1> USE DEF PasswordInv, RotationIsYoung, RowsAsYoungAsPassword, Consistent, TypeOK
<1>1. CASE ArriveAtLock(r)
    BY <1>1 DEF ArriveAtLock, vars, rowVars, requestVars
<1>2. ASSUME \/ \E x \in Row : Logout(r, x) \/ \E d \in Device : RotateRead(r, x, d)
             \/ LogoutAll(r)
             \/ \E d \in Device : Login(r, d) \/ LoginNewDevice(r, d),
             UNCHANGED ghostVars
      PROVE  PasswordInv'
  <2>1. /\ \E p \in {"unauthorized", "read", "revoking", "issuing"} :
               phase' = [phase EXCEPT ![r] = p]
        /\ \E x \in Row \cup {NoRow} : subject' = [subject EXCEPT ![r] = x]
        /\ stamp' = [stamp EXCEPT ![r] = epoch]
        /\ UNCHANGED <<rowVars, epoch>>
      BY <1>2 DEF Logout, RotateRead, LogoutAll, Login, LoginNewDevice, Arrive, Become
  <2>2. \A s \in Request : phase'[s] \in {"verified", "revoked"} => s # r
      BY <2>1
  <2>3. QED
      BY <1>2, <2>1, <2>2 DEF ghostVars, rowVars
<1>3. QED
    BY <1>1, <1>2 DEF ArriveAtSessions, OpenSession

\* A rotation that verifies its row has come in no later than the row's password.
LEMMA SessionStepPassword ==
    ASSUME Consistent, Consistent', PasswordInv, NEW r \in Request, SessionStep(r)
    PROVE  PasswordInv'
<1> USE DEF PasswordInv, RotationIsYoung, RowsAsYoungAsPassword, Consistent, TypeOK, SessionStep,
            ghostVars, lockVars, guardVars, Become
<1>1. CASE RotateVerify(r)
  <2>1. /\ phase[r] = "read" /\ subject[r] \in Row
        /\ phase' = [phase EXCEPT ![r] = "verified"] => stamp[r] <= born[subject[r]]
        /\ \E p \in {"verified", "unauthorized"} : phase' = [phase EXCEPT ![r] = p]
        /\ UNCHANGED <<rowVars, lock, epoch, requestVars>>
      BY <1>1 DEF RotateVerify, RotationHasRow
  <2>2. \A s \in Request : phase'[s] \in {"verified", "revoked"} =>
            IF s = r THEN stamp[r] <= born[subject[r]]
                     ELSE phase[s] \in {"verified", "revoked"}
      BY <2>1
  <2>3. QED
      BY <1>1, <2>1, <2>2 DEF rowVars, requestVars
<1>2. CASE RotateRevoke(r) \/ RotateAbort(r) \/ StatementFails(r)
    BY <1>2 DEF RotateRevoke, RotateAbort, StatementFails, rowVars, requestVars
<1>3. CASE Revoked(r)
  <2>1. /\ \A x \in Row : status'[x] # "none" => status[x] # "none"
        /\ \A s \in Request : phase'[s] \in {"verified", "revoked"} =>
               phase[s] \in {"verified", "revoked"}
        /\ UNCHANGED <<born, login, epoch, subject, stamp>>
      BY <1>3 DEF Revoked, VictimsExist, requestVars
  <2>2. QED
      BY <1>3, <2>1
<1>4. QED
    BY <1>1, <1>2, <1>3

\* A login that is not overtaken inserts a row with the epoch of its password.
LEMMA OpenedPassword ==
    ASSUME Consistent, Consistent', PasswordInv, NEW r \in Request, NEW y \in Row,
           OpenedSession(r, y)
    PROVE  PasswordInv'
<1>1. /\ status[y] = "none" /\ phase' = [phase EXCEPT ![r] = "ok"]
      /\ status' = [status EXCEPT ![y] = "live"]
      /\ born' = [born EXCEPT ![y] = epoch]
      /\ login' = [login EXCEPT ![y] = y]
      /\ checked' = [checked EXCEPT ![y] = since[r]]
      /\ overtaken' = overtaken \cup {x \in {y} : since[r] # epoch}
      /\ UNCHANGED <<since, stamp, subject, epoch>>
    BY DEF OpenedSession, Issue, Insert, Become, requestVars
<1> USE DEF PasswordInv, RotationIsYoung, RowsAsYoungAsPassword, Consistent, TypeOK
<1>2. RotationIsYoung'
    BY <1>1 DEF RotationHasRow
\* No row that was inserted before has y for its login.
<1>3. RowsAsYoungAsPassword'
    BY <1>1 DEF Lineage
<1>4. QED
    BY <1>1, <1>2, <1>3

\* So does a rotation; and the row it replaces was not younger than the login's password.
LEMMA RotatedPassword ==
    ASSUME Consistent, Consistent', PasswordInv, NEW r \in Request, NEW y \in Row,
           Rotated(r, y)
    PROVE  PasswordInv'
<1> DEFINE x == subject[r]
<1>1. PICK b \in {stamp[r], epoch} : Insert(y, dev[r], b, login[x], x)
    BY DEF Rotated, RotateCommit
<1>2. /\ x \in Row /\ status[x] # "none" /\ phase[r] = "revoked"
      /\ status[y] = "none" /\ x # y
    BY <1>1 DEF Rotated, RotateCommit, Insert, Consistent, RotationHasRow
<1>3. /\ phase' = [phase EXCEPT ![r] = "ok"]
      /\ status' = [status EXCEPT ![x] = "revoked", ![y] = "live"]
      /\ born' = [born EXCEPT ![y] = b]
      /\ login' = [login EXCEPT ![y] = login[x]]
      /\ overtaken' = overtaken \cup {z \in {login[x]} : born'[y] # stamp[r]}
      /\ UNCHANGED <<since, checked, stamp, subject, epoch>>
    BY <1>1 DEF Rotated, RotateCommit, Insert, Become, requestVars
<1> USE DEF PasswordInv, RotationIsYoung, RowsAsYoungAsPassword, Consistent, TypeOK
<1>4. born'[y] = b /\ login[x] \in Row
    BY <1>2, <1>3
<1>5. login[x] \notin overtaken' =>
          b = stamp[r] /\ stamp[r] <= born[x] /\ born[x] <= checked[login[x]]
    BY <1>2, <1>3, <1>4
<1>6. RotationIsYoung'
    BY <1>2, <1>3 DEF RotationHasRow
<1>7. RowsAsYoungAsPassword'
  <2> SUFFICES ASSUME NEW z \in Row, status'[z] # "none", login'[z] \notin overtaken'
               PROVE  checked'[login'[z]] >= born'[z]
      OBVIOUS
  <2>1. CASE z = y
      BY <1>1, <1>2, <1>3, <1>4, <1>5, <2>1
  <2>2. CASE z # y
      BY <1>2, <1>3, <2>2
  <2>3. QED
      BY <2>1, <2>2
<1>8. QED
    BY <1>3, <1>6, <1>7

\* Across registrations, logins, rotations and password changes, no row is younger than the
\* password its login was made with, but for those of a login that was overtaken.
LEMMA PasswordInvariant == AccountSpec => []PasswordInv
<1>1. AccountInit => PasswordInv
  <2> SUFFICES ASSUME AccountInit
               PROVE  PasswordInv
      OBVIOUS
  <2>1. /\ since = [r \in Request |-> 0] /\ checked = [x \in Row |-> 0] /\ overtaken = {}
        /\ stamp = [r \in Request |-> 0] /\ epoch = 0
        /\ phase = [r \in Request |-> "none"] /\ status = [x \in Row |-> "none"]
      BY DEF AccountInit, Init
  <2>2. QED
      BY <2>1 DEF PasswordInv, RotationIsYoung, RowsAsYoungAsPassword
<1>2. Consistent /\ Consistent' /\ PasswordInv /\ [AccountNext]_accountVars => PasswordInv'
  <2> SUFFICES ASSUME Consistent, Consistent', PasswordInv, [AccountNext]_accountVars
               PROVE  PasswordInv'
      OBVIOUS
  <2>1. CASE UNCHANGED <<vars, ghostVars>>
      BY <2>1 DEF PasswordInv, RotationIsYoung, RowsAsYoungAsPassword, vars, rowVars, requestVars,
                  ghostVars
  <2>2. ASSUME NEW r \in Request, ChangePassword(r)
        PROVE  PasswordInv'
      BY <2>2 DEF ChangePassword, ResetPassword, PasswordInv, RotationIsYoung,
                  RowsAsYoungAsPassword, rowVars, requestVars, ghostVars, Consistent, TypeOK
  <2>3. QED
      BY <2>1, <2>2, ArrivalPassword, SessionStepPassword, OpenedPassword, RotatedPassword
         DEF AccountNext, accountVars, LockStep, ArriveAtGuard, GuardStep, VerifyEmail
<1>3. QED
    BY <1>1, <1>2, AccountSessionsConsistent, PTL DEF AccountSpec

\* Once the password has changed, no token of an earlier login can be exchanged, for any
\* number of tokens, rotations and changes: but for requests that the change overtook.
THEOREM OldSessionsEnd == AccountSpec => []PasswordChangeEndsSessions
<1>1. Consistent /\ PasswordInv => PasswordChangeEndsSessions
  <2> SUFFICES ASSUME Consistent, PasswordInv, NEW x \in Row,
                      Live(x), born[x] >= epoch, login[x] \notin overtaken
               PROVE  checked[login[x]] = epoch
      BY DEF PasswordChangeEndsSessions
  <2>1. /\ login[x] \in Row /\ born[x] \in Nat /\ epoch \in Nat
        /\ status[x] = "live"
      BY DEF Consistent, TypeOK, Live
  <2>2. checked[login[x]] >= born[x] /\ checked[login[x]] <= epoch /\ checked[login[x]] \in Nat
      BY <2>1 DEF PasswordInv, RowsAsYoungAsPassword
  <2>3. QED
      BY <2>1, <2>2
<1>2. QED
    BY <1>1, AccountSessionsConsistent, PasswordInvariant, PTL

-----------------------------------------------------------------------------
(* The account as a whole. *)

\* A request arrives when it is idle; a login that opens a session leaves the lock.
LEMMA PartsInvariant == AccountSpec => []OnePartAtATime
<1> DEFINE Apart == \A r \in Request : /\ Free(r) \/ Lock!Free(r)
                                       /\ Lock!Free(r) \/ Guard!Free(r)
                                       /\ Guard!Free(r) \/ Free(r)
           Types == Consistent /\ LockInv /\ GuardInv
<1>1. AccountInit => Apart
    BY DEF AccountInit, Init, Lock!Init, Guard!Init, Free, Lock!Free, Guard!Free, Answered
<1>2. Apart /\ Types /\ Types' /\ [AccountNext]_accountVars => Apart'
  <2> SUFFICES ASSUME Apart, Types, Types', [AccountNext]_accountVars
               PROVE  Apart'
      OBVIOUS
  <2> USE DEF Free, Lock!Free, Guard!Free, Answered
  <2>1. /\ phase \in [Request -> Answered \cup {"none", "read", "verified", "revoked",
                                                "revoking", "issuing"}]
        /\ loginPhase \in [Request -> {"idle", "creating", "registered", "hashing", "accepted"}]
        /\ guardPhase \in [Request -> {"idle", "unused", "granted"}]
      BY DEF Consistent, TypeOK, LockInv, Lock!TypeOK, GuardInv, Guard!TypeOK
  <2>2. ASSUME NEW r \in Request, ArriveAtLock(r)
        PROVE  Apart'
    <3>1. /\ Idle(r) /\ UNCHANGED <<phase, guardPhase>>
          /\ \A s \in Request : s # r => loginPhase'[s] = loginPhase[s]
        BY <2>1, <2>2
           DEF ArriveAtLock, Lock!FindNone, Lock!Read, Lock!Become, vars, guardVars
    <3>2. QED
        BY <3>1 DEF Idle
  <2>3. ASSUME NEW r \in Request, LockStep(r)
        PROVE  Apart'
    <3>1. /\ loginPhase[r] # "idle" /\ UNCHANGED <<phase, guardPhase>>
          /\ \A s \in Request : s # r => loginPhase'[s] = loginPhase[s]
        BY <2>1, <2>3
           DEF LockStep, Lock!Create, Lock!Refuse, Lock!Accept, Lock!Fail, Lock!Become, vars,
               guardVars
    <3>2. QED
        BY <3>1
  <2>4. ASSUME NEW r \in Request, NEW d \in Device, OpenSession(r, d)
        PROVE  Apart'
    <3>1. /\ loginPhase[r] # "idle" /\ loginPhase'[r] = "idle" /\ UNCHANGED guardPhase
          /\ \A s \in Request : s # r => loginPhase'[s] = loginPhase[s] /\ phase'[s] = phase[s]
        BY <2>1, <2>4
           DEF OpenSession, Lock!Return, Lock!Become, Login, LoginNewDevice, Arrive, Become,
               guardVars
    <3>2. QED
        BY <3>1
  <2>5. ASSUME NEW r \in Request, ArriveAtSessions(r)
        PROVE  Apart'
    <3>1. /\ Idle(r) /\ UNCHANGED <<loginPhase, guardPhase>>
          /\ \A s \in Request : s # r => phase'[s] = phase[s]
        BY <2>1, <2>5
           DEF ArriveAtSessions, Logout, LogoutAll, RotateRead, Arrive, Become, lockVars,
               guardVars
    <3>2. QED
        BY <3>1 DEF Idle
  <2>6. ASSUME NEW r \in Request,
               SessionStep(r) \/ \E y \in Row : OpenedSession(r, y) \/ Rotated(r, y)
        PROVE  Apart'
    <3>1. /\ phase[r] \in {"read", "verified", "revoked", "revoking", "issuing"}
          /\ UNCHANGED <<loginPhase, guardPhase>>
          /\ \A s \in Request : s # r => phase'[s] = phase[s]
        BY <2>1, <2>6
           DEF SessionStep, OpenedSession, Rotated, RotateVerify, RotateRevoke, RotateAbort,
               Revoked, StatementFails, Issue, RotateCommit, Become, lockVars, guardVars
    <3>2. QED
        BY <3>1
  <2>7. ASSUME NEW r \in Request, NEW t \in Token, ArriveAtGuard(r, t)
        PROVE  Apart'
    <3>1. /\ Idle(r) /\ UNCHANGED <<phase, loginPhase>>
          /\ \A s \in Request : s # r => guardPhase'[s] = guardPhase[s]
        BY <2>1, <2>7 DEF ArriveAtGuard, Guard!Present, Guard!Become, vars, lockVars
    <3>2. QED
        BY <3>1 DEF Idle
  <2>8. ASSUME NEW r \in Request, GuardStep(r) \/ ChangePassword(r) \/ VerifyEmail(r)
        PROVE  Apart'
    <3>1. /\ guardPhase[r] # "idle" /\ UNCHANGED <<phase, loginPhase>>
          /\ \A s \in Request : s # r => guardPhase'[s] = guardPhase[s]
        BY <2>1, <2>8
           DEF GuardStep, ChangePassword, VerifyEmail, Guard!Consume, Guard!ConsumeFails,
               Guard!Refuse, Guard!Perform, Guard!Become, Guard!Answer, ResetPassword, vars,
               lockVars
    <3>2. QED
        BY <3>1
  <2>9. CASE UNCHANGED <<phase, loginPhase, guardPhase>>
      BY <2>9
  <2>10. QED
      BY <2>2, <2>3, <2>4, <2>5, <2>6, <2>7, <2>8, <2>9
         DEF AccountNext, accountVars, vars, lockVars, guardVars, Lock!LockExpires
<1>3. Consistent /\ PasswordInv /\ Apart => OnePartAtATime
    BY DEF PasswordInv, OnePartAtATime
<1>4. QED
    BY <1>1, <1>2, <1>3, AccountSessionsConsistent, LockInvariant, GuardInvariant,
       PasswordInvariant, PTL DEF AccountSpec

\* All that the run of the account checks together.
THEOREM AccountIsConsistent == AccountSpec => []AccountConsistent
<1>1. /\ Consistent /\ LockInv /\ GuardInv /\ PasswordInv /\ OnePartAtATime
      /\ PasswordChangeEndsSessions
      => AccountConsistent
    BY DEF LockInv, GuardInv, PasswordInv, AccountConsistent, AccountTypeOK, Consistent
<1>2. QED
    BY <1>1, AccountSessionsConsistent, LockInvariant, GuardInvariant, PasswordInvariant,
       PartsInvariant, OldSessionsEnd, PTL

=============================================================================
