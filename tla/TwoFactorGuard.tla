--------------------------- MODULE TwoFactorGuard ---------------------------
(***************************************************************************)
(* twoFactorAuthGuard of src/src/modules/common/authGuard.ts in front of   *)
(* POST /auth/reset-password and /auth/verify-email: the signed token a    *)
(* user got by mail, recorded as used before the handler runs.             *)
(***************************************************************************)
EXTENDS Integers

CONSTANTS
    Token,     \* valid tokens of the user, each for one of the two actions
    Request,   \* request slots
    NoToken

VARIABLES
    used,       \* tokens whose hash is in the table ExpiredTwoFactorToken
    phase,      \* phase[r]: how far request r is; "idle" once it has its answer
    presented,  \* presented[r]: the token of r, while it is served
    effects     \* effects[t]: how often the action of t was carried out

vars == <<used, phase, presented, effects>>

Free(r) == phase[r] = "idle"

Init ==
    /\ used = {}
    /\ phase = [r \in Request |-> "idle"]
    /\ presented = [r \in Request |-> NoToken]
    /\ effects = [t \in Token |-> 0]

Become(r, p) == phase' = [phase EXCEPT ![r] = p]
Answer(r) == Become(r, "idle") /\ presented' = [presented EXCEPT ![r] = NoToken]

\* The token is verified and not found in the table. One that is used, expired, of another
\* user or for the other action is refused here, and nothing changes.
Present(r, t) ==
    /\ Free(r)
    /\ t \notin used
    /\ presented' = [presented EXCEPT ![r] = t]
    /\ Become(r, "unused")
    /\ UNCHANGED <<used, effects>>

\* Mutant of Consume: the table does not keep its hashes unique.
ConsumeAgain(r) ==
    /\ phase[r] = "unused"
    /\ used' = used \cup {presented[r]}
    /\ Become(r, "granted")
    /\ UNCHANGED <<presented, effects>>

\* The row is created, and the next handler called. If it exists by now, the unique
\* index refuses a second one, and the guard answers 401 as for any other error.
Consume(r) ==
    /\ phase[r] = "unused"
    /\ \/ /\ presented[r] \notin used
          /\ used' = used \cup {presented[r]}
          /\ Become(r, "granted")
          /\ UNCHANGED presented
       \/ /\ presented[r] \in used
          /\ Answer(r)
          /\ UNCHANGED used
    /\ UNCHANGED effects

ConsumeFails(r) ==
    /\ phase[r] = "unused"
    /\ Answer(r)
    /\ UNCHANGED <<used, effects>>

\* Past the guard, the body may be refused or the update fail. The token is spent.
Refuse(r) ==
    /\ phase[r] = "granted"
    /\ Answer(r)
    /\ UNCHANGED <<used, effects>>

Perform(r) ==
    /\ phase[r] = "granted"
    /\ effects' = [effects EXCEPT ![presented[r]] = @ + 1]
    /\ Answer(r)
    /\ UNCHANGED used

Next ==
    \E r \in Request :
        \/ \E t \in Token : Present(r, t)
        \/ Consume(r) \/ ConsumeFails(r)
        \/ Refuse(r) \/ Perform(r)

Spec == Init /\ [][Next]_vars

-----------------------------------------------------------------------------
(* Properties. *)

TypeOK ==
    /\ used \subseteq Token
    /\ phase \in [Request -> {"idle", "unused", "granted"}]
    /\ presented \in [Request -> Token \cup {NoToken}]
    /\ effects \in [Token -> Nat]
    /\ \A r \in Request : phase[r] # "idle" => presented[r] \in Token

\* A request that was let through is the only one with its token, which is on record and
\* has had no effect yet.
GrantIsExclusive ==
    \A r \in Request : phase[r] = "granted" =>
        /\ presented[r] \in used
        /\ effects[presented[r]] = 0
        /\ \A s \in Request : phase[s] = "granted" /\ presented[s] = presented[r] => s = r

\* However many requests present a token at the same time, its action is carried out once
\* at most, and then the token is on record as used.
TokenWorksOnce ==
    \A t \in Token : effects[t] <= 1 /\ (effects[t] = 1 => t \in used)

=============================================================================
