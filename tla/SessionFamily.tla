--------------------------- MODULE SessionFamily ---------------------------
(***************************************************************************)
(* What the identity module promises of the sessions of one account, with  *)
(* every operation a single step.  A family of refresh sessions is opened  *)
(* by the account's password, is carried by one unspent token at a time,   *)
(* ends once and for all, and never outlives the password that opened it.  *)
(***************************************************************************)
CONSTANTS Families, Tokens, Passwords, None

VARIABLES
    secret,      \* the account's password
    state,       \* [Families -> {"absent", "live", "revoked"}]
    opener,      \* [Families -> Passwords \cup {None}] the password that opened it
    owner,       \* [Tokens -> Families \cup {None}] the family of each issued token
    spent        \* the tokens that were exchanged for their successor

vars == <<secret, state, opener, owner, spent>>

Live == {f \in Families : state[f] = "live"}

Init ==
    /\ secret \in Passwords
    /\ state = [f \in Families |-> "absent"]
    /\ opener = [f \in Families |-> None]
    /\ owner = [t \in Tokens |-> None]
    /\ spent = {}

\* A login opens a family with its first token.
Open(f, t) ==
    /\ state[f] = "absent" /\ owner[t] = None
    /\ state' = [state EXCEPT ![f] = "live"]
    /\ opener' = [opener EXCEPT ![f] = secret]
    /\ owner' = [owner EXCEPT ![t] = f]
    /\ UNCHANGED <<secret, spent>>

\* A live family's only unspent token is exchanged for a new one.
Rotate(f, t, u) ==
    /\ state[f] = "live" /\ owner[u] = None
    /\ {v \in Tokens : owner[v] = f /\ v \notin spent} = {t}
    /\ owner' = [owner EXCEPT ![u] = f]
    /\ spent' = spent \cup {t}
    /\ UNCHANGED <<secret, state, opener>>

\* Some live families end together.
End(S) ==
    /\ S \subseteq Live
    /\ state' = [f \in Families |-> IF f \in S THEN "revoked" ELSE state[f]]
    /\ UNCHANGED <<secret, opener, owner, spent>>

\* A new password ends every family that is live.
Replace(p) ==
    /\ secret' = p
    /\ state' = [f \in Families |-> IF f \in Live THEN "revoked" ELSE state[f]]
    /\ UNCHANGED <<opener, owner, spent>>

Next ==
    \/ \E f \in Families, t \in Tokens : Open(f, t)
    \/ \E f \in Families, t, u \in Tokens : Rotate(f, t, u)
    \/ \E S \in SUBSET Families : End(S)
    \/ \E p \in Passwords : Replace(p)

Spec == Init /\ [][Next]_vars
=============================================================================
