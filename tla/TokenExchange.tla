--------------------------- MODULE TokenExchange ---------------------------
(***************************************************************************)
(* What refresh.ts promises its callers, with no transactions, locks or    *)
(* requests: a token is good from the step that grants it to the step that *)
(* takes it away, and an exchange does both in one step, within a family   *)
(* that a login began. A family has one good token at most, so that who    *)
(* has exchanged a token, or had it revoked, can do nothing with it.       *)
(***************************************************************************)
EXTENDS Naturals

CONSTANTS Token, None

VARIABLES
    good,      \* the tokens that can be exchanged
    granted,   \* the tokens ever granted
    family,    \* family[x]: the token of the login that x descends from
    origin     \* origin[x]: the token that x was exchanged for, or None

vars == <<good, granted, family, origin>>

Init ==
    /\ good = {}
    /\ granted = {}
    /\ family = [x \in Token |-> x]
    /\ origin = [x \in Token |-> None]

Record(y, f, o) ==
    /\ y \in Token \ granted
    /\ granted' = granted \cup {y}
    /\ family' = [family EXCEPT ![y] = f]
    /\ origin' = [origin EXCEPT ![y] = o]

\* A login or a registration.
Grant(y) ==
    /\ Record(y, y, None)
    /\ good' = good \cup {y}

\* A rotation: a token that is good until now, for a new one.
Exchange(x, y) ==
    /\ x \in good
    /\ Record(y, family[x], x)
    /\ good' = (good \ {x}) \cup {y}

\* A logout, of one token or of many: for good.
Revoke(S) ==
    /\ good' = good \ S
    /\ UNCHANGED <<granted, family, origin>>

Next ==
    \/ \E S \in SUBSET good : Revoke(S)
    \/ \E y \in Token : Grant(y) \/ \E x \in good : Exchange(x, y)

Spec == Init /\ [][Next]_vars

=============================================================================
