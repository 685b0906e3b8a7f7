---------------------------- MODULE LoginLockout ----------------------------
(***************************************************************************)
(* createUser and verifyUser of src/src/modules/auth/users.service.ts for  *)
(* one email: the account, its failed-login counter and its temporary      *)
(* lock, under requests that read the row, spend a while on a password     *)
(* hash, and then write back what follows from the row they read.          *)
(***************************************************************************)
EXTENDS Integers

CONSTANTS
    Request,       \* requests at a time
    MaxFailures,   \* 10: failures that lock the account
    MaxAttempts    \* bound: wrong passwords recorded in a behaviour

VARIABLES
    accounts,   \* rows of the table User with this email
    failedLoginCount,
    locked,     \* lockUntil is in the future
    phase,      \* phase[r]: how far request r is; "idle" once it has its answer
    seen,       \* seen[r]: the failedLoginCount that r read, while it hashes
    wrong,      \* wrong passwords recorded so far
    unpunished  \* of these, the ones since the last lock or successful login

lockVars == <<failedLoginCount, locked, wrong, unpunished>>
vars == <<accounts, lockVars, phase, seen>>

Free(r) == phase[r] = "idle"

Init ==
    /\ accounts = 0
    /\ failedLoginCount = 0
    /\ locked = FALSE
    /\ phase = [r \in Request |-> "idle"]
    /\ seen = [r \in Request |-> 0]
    /\ wrong = 0
    /\ unpunished = 0

Become(r, p) == phase' = [phase EXCEPT ![r] = p]
Forget(r) == seen' = [seen EXCEPT ![r] = 0]

-----------------------------------------------------------------------------
(* createUser *)

\* No row has the email; if one has, the answer is 409 and nothing happens.
FindNone(r) ==
    /\ Free(r)
    /\ accounts = 0
    /\ Become(r, "creating")
    /\ UNCHANGED <<accounts, lockVars, seen>>

\* The password hashed, the row is inserted. The email is unique: if a row has it by now,
\* the insertion is an error that nobody catches.
Create(r) ==
    /\ phase[r] = "creating"
    /\ \/ accounts = 0 /\ accounts' = 1 /\ Become(r, "registered")
       \/ accounts # 0 /\ Become(r, "idle") /\ UNCHANGED accounts
    /\ UNCHANGED <<lockVars, seen>>

-----------------------------------------------------------------------------
(* verifyUser *)

\* The row is read, there is no lock, and the hash is compared. A locked account and an
\* unknown email are refused here, and nothing changes.
Read(r) ==
    /\ Free(r)
    /\ accounts # 0
    /\ ~locked
    /\ Become(r, "hashing")
    /\ seen' = [seen EXCEPT ![r] = failedLoginCount]
    /\ UNCHANGED <<accounts, lockVars>>

LocksAt(newCount) == newCount >= MaxFailures

\* Mutant of Refuse: lockUntil is always written back, null for a count below the limit.
RefuseUnlocking(r) ==
    LET newCount == seen[r] + 1
    IN  /\ phase[r] = "hashing"
        /\ wrong < MaxAttempts
        /\ failedLoginCount' = newCount
        /\ locked' = LocksAt(newCount)
        /\ wrong' = wrong + 1
        /\ unpunished' = IF locked' THEN 0 ELSE unpunished + 1
        /\ Become(r, "idle")
        /\ Forget(r)
        /\ UNCHANGED accounts

\* The password is wrong: one more than the count it read is written back, with a
\* lock if that is enough. A lock written by another request meanwhile stays.
Refuse(r) ==
    LET newCount == seen[r] + 1
    IN  /\ phase[r] = "hashing"
        /\ wrong < MaxAttempts
        /\ failedLoginCount' = newCount
        /\ locked' = (LocksAt(newCount) \/ locked)
        /\ wrong' = wrong + 1
        /\ unpunished' = IF locked' THEN 0 ELSE unpunished + 1
        /\ Become(r, "idle")
        /\ Forget(r)
        /\ UNCHANGED accounts

\* The password is right: count and lock are cleared, whoever set them.
Accept(r) ==
    /\ phase[r] = "hashing"
    /\ failedLoginCount' = 0
    /\ locked' = FALSE
    /\ unpunished' = 0
    /\ Become(r, "accepted")
    /\ Forget(r)
    /\ UNCHANGED <<accounts, wrong>>

\* A query fails, or the process dies.
Fail(r) ==
    /\ phase[r] \in {"creating", "hashing"}
    /\ Become(r, "idle")
    /\ Forget(r)
    /\ UNCHANGED <<accounts, lockVars>>

\* The caller goes on to open a session.
Return(r) ==
    /\ phase[r] \in {"registered", "accepted"}
    /\ Become(r, "idle")
    /\ UNCHANGED <<accounts, lockVars, seen>>

\* Fifteen minutes have passed: the lock is over, the count is what it was.
LockExpires ==
    /\ locked
    /\ locked' = FALSE
    /\ UNCHANGED <<accounts, failedLoginCount, phase, seen, wrong, unpunished>>

Next ==
    \/ LockExpires
    \/ \E r \in Request :
           \/ FindNone(r) \/ Create(r)
           \/ Read(r) \/ Refuse(r) \/ Accept(r)
           \/ Fail(r) \/ Return(r)

Spec == Init /\ [][Next]_vars

-----------------------------------------------------------------------------
(* Properties. *)

TypeOK ==
    /\ accounts \in Nat
    /\ failedLoginCount \in Nat
    /\ locked \in BOOLEAN
    /\ phase \in [Request -> {"idle", "creating", "registered", "hashing", "accepted"}]
    /\ seen \in [Request -> Nat]
    /\ wrong \in Nat
    /\ unpunished \in Nat

\* However registrations overlap, there is one account for an email.
OneAccount == accounts <= 1

\* However requests interleave, the counter and every copy of it are at most the
\* number of wrong passwords, so no account is locked before there were MaxFailures.
NeverLockedEarly ==
    /\ failedLoginCount <= wrong
    /\ \A r \in Request : seen[r] <= wrong
    /\ locked => wrong >= MaxFailures

\* A lock ends with time or with a right password: a login that read the row before it was
\* locked, and then fails, leaves the lock as it is although its own count is below the
\* limit.
LockOutlivesWrongPasswords ==
    [][locked /\ ~locked' =>
           \/ phase' = phase
           \/ \E r \in Request : phase[r] = "hashing" /\ phase'[r] = "accepted"]_vars

-----------------------------------------------------------------------------
(* A statement that the code does not keep. *)

\* "lock for 15 min after 10 failures" (users.service.ts:38): there are never MaxFailures
\* wrong passwords in a row without a lock.
LocksAfterMaxFailures == unpunished < MaxFailures

=============================================================================
