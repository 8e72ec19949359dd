----------------------------- MODULE MCDealers -----------------------------
(***************************************************************************)
(* Dealers with the instances TLC checks: a behaviour either changes       *)
(* memberships or computes capabilities while they change, each with its   *)
(* own bounds.                                                             *)
(***************************************************************************)
EXTENDS Dealers, FiniteSetsExt, TLC

VARIABLE focus \* the requests a behaviour considers

Memberships == {"create", "invite", "accept", "update", "leave"}
Capabilities == {"create", "invite", "accept", "update", "capabilities"}

AllPatches == {[role |-> r, status |-> None] : r \in {"owner", "admin"}} \cup
              {[role |-> None, status |-> s] : s \in {"active", "suspended", "revoked"}}

Serves(ops) == \A c \in Clients : req[c].op \in ops \cup {"none", "invalidate"}

\* How far the authorization of all users has changed or is about to.
Total == MapThenSumSet(LAMBDA u : Version(u) + InFlightFor(u), Users)

\* At most one account is suspended, for good.  Founding, inviting and accepting a
\* second owner leave room for two further changes, which may overlap.
Changing ==
    /\ Serves(Memberships)
    /\ Cardinality(Users \ enabled) <= 1
    /\ Total <= MaxVersion + 3

Computed(u) ==
    cache[u] # None \/ \E c \in Clients : req[c].op = "capabilities" /\ Actor(c) = u

\* Capabilities of one user are computed at a time; entries of two users have
\* nothing to do with each other, and none are while the organization is suspended.  Versions grow together as far as creating the
\* organization, inviting a second owner and suspending one of them takes; nobody
\* is revoked or has a wrong token.
Computing ==
    /\ Serves(Capabilities)
    /\ Cardinality({u \in Users : Computed(u)}) <= IF standing = "suspended" THEN 0 ELSE 1
    /\ Total <= MaxVersion + 2
    /\ \A c \in Clients : /\ req[c].status # "revoked"
                          /\ req[c].op = "invite" => req[c].role = "owner"
                          /\ req[c].op = "update" => req[c].role # "owner"
                          /\ req[c].op = "accept" => req[c].valid

DealersInit == Init /\ focus \in {"memberships", "capabilities"}

DealersNext ==
    /\ UNCHANGED focus
    /\ \/ /\ focus = "memberships"
          /\ \/ \E c \in Clients : Arrival(c) \/ ClientStep(c) \/ Crash(c)
             \/ \E u \in Users : AccountReviewed(u)
             \/ OrganizationReviewed("verified")
          /\ enabled' \subseteq enabled
          /\ Changing'
       \/ /\ focus = "capabilities"
          /\ \/ \E c \in Clients : Arrival(c) \/ ClientStep(c)
             \/ \E u \in Users : Expire(u) \/ AccountChanges(u)
             \/ \E s \in {"verified", "suspended"} : OrganizationReviewed(s)
          /\ Computing'

DealersSpec == DealersInit /\ [][DealersNext]_<<vars, focus>>

\* Requests and users are interchangeable.
Symmetry == Permutations(Clients) \cup Permutations(Users)
=============================================================================
