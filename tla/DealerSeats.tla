---------------------------- MODULE DealerSeats ----------------------------
(***************************************************************************)
(* What dealer membership promises of one organization, with every         *)
(* operation a single step: only an active owner or admin of a verified    *)
(* organization changes the seats of others, only an owner those of        *)
(* owners, and the last active owner stays.                                *)
(***************************************************************************)
CONSTANTS Users, Roles, None

VARIABLES
    standing,   \* "none", "unverified", "verified" or "suspended"
    enabled,    \* the users whose accounts are active
    status,     \* [Users -> the status of the user's membership, "none" if there is none]
    role        \* [Users -> the role of that membership]

vars == <<standing, enabled, status, role>>

Owners == {u \in Users : status[u] = "active" /\ role[u] = "owner"}
Managers == {u \in enabled : status[u] = "active" /\ role[u] \in {"owner", "admin"}}

Init ==
    /\ standing = "none"
    /\ enabled = Users
    /\ status = [u \in Users |-> "none"]
    /\ role = [u \in Users |-> None]

\* create_organization: its founder is the first owner.
Found(u) ==
    /\ standing = "none" /\ u \in enabled
    /\ standing' = "unverified"
    /\ status' = [status EXCEPT ![u] = "active"]
    /\ role' = [role EXCEPT ![u] = "owner"]
    /\ UNCHANGED enabled

\* a may decide about a membership that has, or gets, one of the roles rs.
May(a, rs) ==
    /\ standing = "verified" /\ a \in Managers
    /\ "owner" \in rs => role[a] = "owner"

Invite(a, u, r) ==
    /\ May(a, {r}) /\ u \in enabled /\ status[u] = "none"
    /\ status' = [status EXCEPT ![u] = "invited"]
    /\ role' = [role EXCEPT ![u] = r]
    /\ UNCHANGED <<standing, enabled>>

Accept(u) ==
    /\ standing \in {"unverified", "verified"} /\ u \in enabled
    /\ status[u] = "invited"
    /\ status' = [status EXCEPT ![u] = "active"]
    /\ UNCHANGED <<standing, enabled, role>>

\* A membership gets role r and status s; revoked and left are for good.
Change(a, u, r, s) ==
    /\ May(a, {role[u], r})
    /\ status[u] # "none"
    /\ s # status[u] => <<status[u], s>> \in
           {<<"active", "suspended">>, <<"suspended", "active">>} \cup
           ({"active", "suspended", "invited"} \X {"revoked"})
    /\ u \in Owners => (r = "owner" /\ s = "active") \/ Owners # {u}
    /\ status' = [status EXCEPT ![u] = s]
    /\ role' = [role EXCEPT ![u] = r]
    /\ UNCHANGED <<standing, enabled>>

Leave(u) ==
    /\ u \in enabled /\ status[u] = "active" /\ Owners # {u}
    /\ status' = [status EXCEPT ![u] = "left"]
    /\ UNCHANGED <<standing, enabled, role>>

\* Reviews of the organization and of accounts.
Review ==
    \/ /\ standing # "none" /\ standing' \in {"unverified", "verified", "suspended"}
       /\ UNCHANGED <<enabled, status, role>>
    \/ /\ enabled' \in SUBSET Users
       /\ UNCHANGED <<standing, status, role>>

Next ==
    \/ \E u \in Users : Found(u) \/ Accept(u) \/ Leave(u)
    \/ \E a, u \in Users, r \in Roles : Invite(a, u, r)
    \/ \E a, u \in Users, r \in Roles :
           \E s \in {"invited", "active", "suspended", "left", "revoked"} : Change(a, u, r, s)
    \/ Review

Spec == Init /\ [][Next]_vars
=============================================================================
