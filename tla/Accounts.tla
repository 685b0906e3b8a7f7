------------------------------ MODULE Accounts ------------------------------
(***************************************************************************)
(* One account under the requests of auth.routes.ts: RefreshSessions, with *)
(* the account and its lock (LoginLockout) in front of the requests that   *)
(* open a session, and TwoFactorGuard in front of the password change. A   *)
(* request is in one of the three at a time: a login passes from the lock  *)
(* to the sessions, a password change from the guard to their clock.       *)
(***************************************************************************)
EXTENDS RefreshSessions

CONSTANTS
    MaxFailures, MaxAttempts,     \* of LoginLockout
    Token, NoToken,               \* of TwoFactorGuard
    ResetToken                    \* the tokens with scope reset-password

ASSUME LimitAssumption == MaxFailures \in Nat \ {0} /\ MaxAttempts \in Nat

ASSUME TokenAssumption == NoToken \notin Token /\ ResetToken \subseteq Token

VARIABLES
    accounts, failedLoginCount, locked, loginPhase, seen, wrong, unpunished,
    used, guardPhase, presented, effects,
    since,     \* since[r]: the epoch in which the login or registration r came in, and with
               \* it the password that it checks or sets
    checked,   \* checked[x]: of a row that a login or registration inserted, that epoch
    overtaken  \* logins of which a request came in before a password change that the row
               \* it inserts does not show, being younger

Lock == INSTANCE LoginLockout WITH phase <- loginPhase
Guard == INSTANCE TwoFactorGuard WITH phase <- guardPhase

lockVars == <<accounts, failedLoginCount, locked, loginPhase, seen, wrong, unpunished>>
guardVars == <<used, guardPhase, presented, effects>>
ghostVars == <<since, checked, overtaken>>
accountVars == <<vars, lockVars, guardVars, ghostVars>>

AccountInit ==
    /\ Init
    /\ Lock!Init
    /\ Guard!Init
    /\ since = [r \in Request |-> 0]
    /\ checked = [x \in Row |-> 0]
    /\ overtaken = {}

Idle(r) == Free(r) /\ Lock!Free(r) /\ Guard!Free(r)

-----------------------------------------------------------------------------
(* POST /auth/register and /auth/login *)

ArriveAtLock(r) ==
    /\ Idle(r)
    /\ Lock!FindNone(r) \/ Lock!Read(r)
    /\ since' = [since EXCEPT ![r] = epoch]
    /\ UNCHANGED <<vars, guardVars, checked, overtaken>>

LockStep(r) ==
    /\ Lock!Create(r) \/ Lock!Refuse(r) \/ Lock!Accept(r) \/ Lock!Fail(r)
    /\ UNCHANGED <<vars, guardVars, ghostVars>>

\* A registration opens a session for a new device; a login, for the one in its body, or
\* for a new one.
OpenSession(r, d) ==
    /\ Lock!Return(r)
    /\ \/ loginPhase[r] = "accepted" /\ Login(r, d)
       \/ LoginNewDevice(r, d)
    /\ UNCHANGED <<guardVars, ghostVars>>

OpenedSession(r, y) ==
    /\ Issue(r, y)
    /\ checked' = [checked EXCEPT ![y] = since[r]]
    /\ overtaken' = overtaken \cup {x \in {y} : since[r] # epoch}
    /\ UNCHANGED <<lockVars, guardVars, since>>

-----------------------------------------------------------------------------
(* POST /auth/refresh, /auth/logout and /auth/logout-all; for the last, authGuard has seen *)
(* an access token of the user.                                                            *)

ArriveAtSessions(r) ==
    /\ Idle(r)
    /\ \/ \E x \in Row : Logout(r, x) \/ \E d \in Device : RotateRead(r, x, d)
       \/ accounts # 0 /\ LogoutAll(r)
    /\ UNCHANGED <<lockVars, guardVars, ghostVars>>

SessionStep(r) ==
    /\ RotateVerify(r) \/ RotateRevoke(r) \/ RotateAbort(r) \/ Revoked(r) \/ StatementFails(r)
    /\ UNCHANGED <<lockVars, guardVars, ghostVars>>

Rotated(r, y) ==
    /\ RotateCommit(r, y)
    /\ overtaken' = overtaken \cup {x \in {login[subject[r]]} : born'[y] # stamp[r]}
    /\ UNCHANGED <<lockVars, guardVars, since, checked>>

-----------------------------------------------------------------------------
(* POST /auth/reset-password and /auth/verify-email, both behind authGuard and the guard. *)

ArriveAtGuard(r, t) ==
    /\ Idle(r)
    /\ accounts # 0
    /\ Guard!Present(r, t)
    /\ UNCHANGED <<vars, lockVars, ghostVars>>

GuardStep(r) ==
    /\ Guard!Consume(r) \/ Guard!ConsumeFails(r) \/ Guard!Refuse(r)
    /\ UNCHANGED <<vars, lockVars, ghostVars>>

ChangePassword(r) ==
    /\ presented[r] \in ResetToken
    /\ Guard!Perform(r)
    /\ ResetPassword
    /\ UNCHANGED <<lockVars, ghostVars>>

\* emailVerified, which nothing else reads, becomes true.
VerifyEmail(r) ==
    /\ presented[r] \notin ResetToken
    /\ Guard!Perform(r)
    /\ UNCHANGED <<vars, lockVars, ghostVars>>

-----------------------------------------------------------------------------

AccountNext ==
    \/ Lock!LockExpires /\ UNCHANGED <<vars, guardVars, ghostVars>>
    \/ \E r \in Request :
           \/ ArriveAtLock(r) \/ LockStep(r)
           \/ \E d \in Device : OpenSession(r, d)
           \/ ArriveAtSessions(r) \/ SessionStep(r)
           \/ \E y \in Row : OpenedSession(r, y) \/ Rotated(r, y)
           \/ \E t \in Token : ArriveAtGuard(r, t)
           \/ GuardStep(r) \/ ChangePassword(r) \/ VerifyEmail(r)

AccountSpec == AccountInit /\ [][AccountNext]_accountVars

-----------------------------------------------------------------------------
(* Properties. *)

AccountTypeOK ==
    /\ TypeOK
    /\ Lock!TypeOK
    /\ Guard!TypeOK
    /\ since \in [Request -> Nat]
    /\ checked \in [Row -> Nat]
    /\ overtaken \subseteq Row

\* A request is in one of the three parts at a time, and no request comes from the future.
OnePartAtATime ==
    \A r \in Request :
        /\ Free(r) \/ Lock!Free(r)
        /\ Lock!Free(r) \/ Guard!Free(r)
        /\ Guard!Free(r) \/ Free(r)
        /\ since[r] <= epoch
        /\ stamp[r] <= epoch

\* A rotation that has checked its row came in when the row was not older than the
\* password.
RotationIsYoung ==
    \A r \in Request : phase[r] \in {"verified", "revoked"} => stamp[r] <= born[subject[r]]

\* Unless one of its requests was overtaken by a password change, a login was made with a
\* password as young as each of its rows.
RowsAsYoungAsPassword ==
    \A x \in Row : status[x] # "none" /\ login[x] \notin overtaken =>
        checked[login[x]] >= born[x]

\* "You must login again after password change." (refresh.ts:83): a token that can still be
\* exchanged comes, by whatever rotations, from a login with the present password, unless a
\* request of this login was under way when the password changed.
PasswordChangeEndsSessions ==
    \A x \in Row : Live(x) /\ born[x] >= epoch /\ login[x] \notin overtaken =>
        checked[login[x]] = epoch

OneAccount == Lock!OneAccount
NeverLockedEarly == Lock!NeverLockedEarly
LockOutlivesWrongPasswords == Lock!LockOutlivesWrongPasswords
TokenWorksOnce == Guard!TokenWorksOnce

AccountConsistent ==
    /\ AccountTypeOK
    /\ Consistent
    /\ OnePartAtATime
    /\ RotationIsYoung
    /\ RowsAsYoungAsPassword
    /\ PasswordChangeEndsSessions
    /\ OneAccount
    /\ NeverLockedEarly
    /\ Guard!GrantIsExclusive
    /\ TokenWorksOnce

=============================================================================
