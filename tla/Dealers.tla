------------------------------ MODULE Dealers ------------------------------
(***************************************************************************)
(* Membership of one dealer organization (modules/dealers/service.py) and  *)
(* the capabilities cached from it (modules/authorization/).  A request    *)
(* runs one transaction that locks rows one at a time with SELECT ... FOR  *)
(* UPDATE, checks what it just locked, and writes when it commits; after   *)
(* the commit it deletes cache entries.  A capability request reads the    *)
(* user row, the cache and the memberships one after the other, without    *)
(* locks, and stores what it computed under the version it read first.     *)
(*                                                                         *)
(* At most one membership row exists for a user (the unique key), so it is *)
(* named by its user; it is never deleted.                                 *)
(***************************************************************************)
EXTENDS Naturals, FiniteSets, Sequences, Functions

CONSTANTS
    Clients,      \* concurrent requests
    Users, None,
    Invited,      \* bound: the roles a run invites to
    Patches,      \* bound: the updates a run considers
    Operations,   \* bound: the requests and events a run considers
    MaxVersion    \* bound: how often a user's authorization changes

Roles == {"owner", "admin", "agent"}   \* the two other roles permit the same here
Patch == [role : Roles \cup {None}, status : {"active", "suspended", "revoked", None}]

ASSUME DealersAssumption ==
    /\ None \notin Clients \cup Users \cup Roles
    /\ None \notin {"active", "suspended", "revoked"}
    /\ Invited \subseteq Roles /\ Patches \subseteq Patch
    /\ MaxVersion \in Nat

VARIABLES
    standing,   \* the organization's status and verification
    enabled,    \* the users with an active account
    member,     \* [Users -> dealer_memberships row]
    past,       \* [Users -> the seats that earlier authorization versions stood for]
    cache,      \* [Users -> the entry in Redis, or None]
    holder,     \* [Rows -> the client whose transaction locked the row]
    req         \* [Clients -> the request being served]

rowVars == <<standing, enabled, member, past>>
vars == <<standing, enabled, member, past, cache, holder, req>>

Standing == {"none", "unverified", "verified", "suspended"}
MemberStatus == {"none", "invited", "active", "suspended", "left", "revoked"}
NoMember == [status |-> "none", role |-> None, version |-> 0]
Member == {NoMember} \cup [status : MemberStatus \ {"none"}, role : Roles, version : Nat]
Seats == Roles \cup {None}
Entry == [version : Nat, seat : Seats]

OrgRow == <<"organization", None>>
UserRow(u) == <<"user", u>>
MemberRow(u) == <<"membership", u>>
Rows == {OrgRow} \cup {UserRow(u) : u \in Users} \cup {MemberRow(u) : u \in Users}

Op == {"none", "create", "invite", "accept", "update", "leave", "capabilities", "invalidate"}
\* "actor", "org", "own", "target" and "seat" are the locks a transaction
\* waits for next.
Step == {"idle", "actor", "org", "own", "target", "seat", "cache", "read", "store", "delete"}
Request == [op : Op, step : Step, actor : Users \cup {None}, target : Users \cup {None},
            role : Seats, status : {"active", "suspended", "revoked", None},
            version : Nat, valid : BOOLEAN, seat : Seats, drop : SUBSET Users]

NoRequest == [op |-> "none", step |-> "idle", actor |-> None, target |-> None,
              role |-> None, status |-> None, version |-> 0, valid |-> FALSE,
              seat |-> None, drop |-> {}]

Init ==
    /\ standing = "none"
    /\ enabled = Users
    /\ member = [u \in Users |-> NoMember]
    /\ past = [u \in Users |-> <<>>]
    /\ cache = [u \in Users |-> None]
    /\ holder = [r \in Rows |-> None]
    /\ req = [c \in Clients |-> NoRequest]

\* users.authorization_version, and the seat it stands for.
Version(u) == Len(past[u]) + 1
Seat(u) == IF member[u].status = "active" THEN member[u].role ELSE None
Bump(u) == past' = [past EXCEPT ![u] = Append(@, Seat(u))]

Owners == {u \in Users : Seat(u) = "owner"}

----------------------------------------------------------------------------
(* Row locks. *)

Actor(c) == req[c].actor
Target(c) == req[c].target
At(c, ops, step) == req[c].op \in ops /\ req[c].step = step
Locking(c) == req[c].step \in {"actor", "org", "own", "target", "seat"}

Wanted(c) ==
    CASE req[c].step = "actor"  -> UserRow(Actor(c))
      [] req[c].step = "own"    -> MemberRow(Actor(c))
      [] req[c].step = "target" -> UserRow(Target(c))
      [] req[c].step = "seat"   -> MemberRow(Target(c))
      [] OTHER                  -> OrgRow

Granted(c) == holder[Wanted(c)] \in {None, c}
Released(c) == [r \in Rows |-> IF holder[r] = c THEN None ELSE holder[r]]

\* c gets the row it waits for and goes on to wait for the next.
LockThen(c, step) ==
    /\ Granted(c)
    /\ holder' = [holder EXCEPT ![Wanted(c)] = c]
    /\ req' = [req EXCEPT ![c].step = step]
    /\ UNCHANGED <<rowVars, cache>>

\* The request ends without a change: refused, rolled back or cut off.
End(c) ==
    /\ holder' = Released(c)
    /\ req' = [req EXCEPT ![c] = NoRequest]
    /\ UNCHANGED <<rowVars, cache>>

\* The transaction commits; cache entries remain to be deleted.
CommitThenDelete(c, users) ==
    /\ holder' = Released(c)
    /\ req' = [req EXCEPT ![c] = [NoRequest EXCEPT !.op = "invalidate", !.step = "delete",
                                                   !.drop = users]]
    /\ UNCHANGED cache

WaitsFor(c, d) == c # d /\ Locking(c) /\ holder[Wanted(c)] = d

InCycle(c) ==
    \E S \in SUBSET Clients : c \in S /\
        \E next \in Bijection(S, S) : \A d \in S : WaitsFor(d, next[d])

\* PostgreSQL aborts one transaction of a cycle of waiting ones.
Deadlock(c) == InCycle(c) /\ End(c)

\* The API process or its connection dies.
Crash(c) == "crash" \in Operations /\ req[c].step # "idle" /\ End(c)

----------------------------------------------------------------------------
(* Requests arrive. *)

InFlightFor(u) == Cardinality({c \in Clients : req[c].target = u})
Room(u) == Version(u) + InFlightFor(u) < MaxVersion

Begin(c, r) ==
    /\ req[c].step = "idle"
    /\ r.op \in Operations
    /\ req' = [req EXCEPT ![c] = r]
    /\ UNCHANGED <<rowVars, cache, holder>>

Write(op, a, u) == [NoRequest EXCEPT !.op = op, !.step = "actor", !.actor = a, !.target = u]

CreateOrganization(c, a) ==
    /\ standing = "none" /\ \A d \in Clients : req[d].op # "create"
    /\ Room(a)
    /\ Begin(c, Write("create", a, a))

InviteMember(c, a, u, r) ==
    /\ standing # "none" /\ Room(u)
    /\ Begin(c, [Write("invite", a, u) EXCEPT !.role = r])

\* "valid": the token given matches and had not expired at that time.
AcceptInvitation(c, a, u, v) ==
    /\ member[u].status # "none" /\ Room(u)
    /\ Begin(c, [Write("accept", a, u) EXCEPT !.valid = v])

\* The caller expects the version it sees now; an older one is refused.
UpdateMembership(c, a, u, p) ==
    /\ member[u].status # "none" /\ Room(u)
    /\ p.role # None \/ p.status # None
    /\ Begin(c, [Write("update", a, u) EXCEPT !.role = p.role, !.status = p.status,
                                              !.version = member[u].version])

LeaveOrganization(c, a, u) ==
    /\ member[u].status # "none" /\ Room(u)
    /\ Begin(c, [Write("leave", a, u) EXCEPT !.version = member[u].version])

\* get_capabilities reads the user row, with its version, first.
GetCapabilities(c, a) ==
    /\ a \in enabled
    /\ Begin(c, [NoRequest EXCEPT !.op = "capabilities", !.step = "cache", !.actor = a,
                                  !.version = Version(a)])

Arrival(c) ==
    \E a \in Users :
        \/ CreateOrganization(c, a)
        \/ GetCapabilities(c, a)
        \/ \E u \in Users :
              \/ \E r \in Invited : InviteMember(c, a, u, r)
              \/ \E v \in BOOLEAN : AcceptInvitation(c, a, u, v)
              \/ \E p \in Patches : UpdateMembership(c, a, u, p)
              \/ LeaveOrganization(c, a, u)

----------------------------------------------------------------------------
(* create_organization. *)

Creates(c) ==
    /\ At(c, {"create"}, "actor") /\ Granted(c)
    /\ Actor(c) \in enabled
    /\ standing' = "unverified"
    /\ member' = [member EXCEPT ![Actor(c)] =
                     [status |-> "active", role |-> "owner", version |-> 1]]
    /\ Bump(Actor(c))
    /\ CommitThenDelete(c, {Actor(c)})
    /\ UNCHANGED enabled

CreateDenied(c) ==
    /\ At(c, {"create"}, "actor") /\ Granted(c)
    /\ Actor(c) \notin enabled
    /\ End(c)

----------------------------------------------------------------------------
(* invite_member and update_membership lock the actor, the organization    *)
(* and the actor's membership, and check the permission.                   *)

LockActor(c) ==
    \/ At(c, {"invite", "update"}, "actor") /\ LockThen(c, "org")
    \/ At(c, {"accept", "leave"}, "actor") /\ LockThen(c, "seat")

LockOrganization(c) == At(c, {"invite", "update"}, "org") /\ LockThen(c, "own")

\* Variant of Permitted: a suspended member keeps the permissions of its role.
PermittedByRole(c) ==
    /\ standing = "verified" /\ Actor(c) \in enabled
    /\ member[Actor(c)].role \in {"owner", "admin"}
    /\ At(c, {"invite"}, "own") /\ req[c].role = "owner" => member[Actor(c)].role = "owner"

Permitted(c) ==
    /\ standing = "verified" /\ Actor(c) \in enabled
    /\ Seat(Actor(c)) \in {"owner", "admin"}
    /\ At(c, {"invite"}, "own") /\ req[c].role = "owner" => Seat(Actor(c)) = "owner"

LockOwn(c) ==
    /\ At(c, {"invite", "update"}, "own")
    /\ Permitted(c)
    /\ LockThen(c, IF req[c].op = "invite" THEN "target" ELSE "seat")

OwnDenied(c) ==
    /\ At(c, {"invite", "update"}, "own") /\ Granted(c)
    /\ ~Permitted(c)
    /\ End(c)

LockInvited(c) ==
    /\ At(c, {"invite"}, "target")
    /\ Target(c) \in enabled
    /\ LockThen(c, "seat")

Invites(c) ==
    /\ At(c, {"invite"}, "seat") /\ Granted(c)
    /\ member[Target(c)].status = "none"
    /\ member' = [member EXCEPT ![Target(c)] =
                     [status |-> "invited", role |-> req[c].role, version |-> 1]]
    /\ Bump(Target(c))
    /\ CommitThenDelete(c, {Target(c), Actor(c)})
    /\ UNCHANGED <<standing, enabled>>

InviteDenied(c) ==
    /\ \/ At(c, {"invite"}, "target") /\ Target(c) \notin enabled
       \/ At(c, {"invite"}, "seat") /\ member[Target(c)].status # "none"
    /\ Granted(c)
    /\ End(c)

----------------------------------------------------------------------------
(* update_membership goes on to the target's membership and account. *)

\* Variant of NewRole: a role that is not given is written too.
NewRoleAlways(c) == req[c].role

NewRole(c) == IF req[c].role = None THEN member[Target(c)].role ELSE req[c].role
NewStatus(c) == IF req[c].status = None THEN member[Target(c)].status ELSE req[c].status

\* _apply_status_transition.
Transition(s, t) ==
    \/ s = t
    \/ s = "active" /\ t \in {"suspended", "revoked"}
    \/ s = "suspended" /\ t \in {"active", "revoked"}
    \/ s = "invited" /\ t = "revoked"

\* _has_other_owner counts without locking what it counts.
HasOtherOwner(u) == \E o \in Users \ {u} : Seat(o) = "owner"

RemovesActiveOwner(c) ==
    /\ Seat(Target(c)) = "owner"
    /\ NewRole(c) # "owner" \/ req[c].status \in {"suspended", "revoked"}

Updatable(c) ==
    /\ member[Target(c)].version = req[c].version
    /\ "owner" \in {member[Target(c)].role, req[c].role} => member[Actor(c)].role = "owner"
    /\ RemovesActiveOwner(c) => HasOtherOwner(Target(c))
    /\ Transition(member[Target(c)].status, NewStatus(c))

Unchanging(c) ==
    NewRole(c) = member[Target(c)].role /\ NewStatus(c) = member[Target(c)].status

LockUpdated(c) ==
    /\ At(c, {"update"}, "seat")
    /\ Updatable(c) /\ ~Unchanging(c)
    /\ LockThen(c, "target")

UpdateIdle(c) ==
    /\ At(c, {"update"}, "seat") /\ Granted(c)
    /\ Updatable(c) /\ Unchanging(c)
    /\ CommitThenDelete(c, {Actor(c)})
    /\ UNCHANGED rowVars

UpdateDenied(c) ==
    /\ At(c, {"update"}, "seat") /\ Granted(c)
    /\ ~Updatable(c)
    /\ End(c)

\* Variant of Updates: the actor's version is raised, not the target's.
UpdatesActorVersion(c) ==
    /\ At(c, {"update"}, "target") /\ Granted(c)
    /\ member' = [member EXCEPT ![Target(c)] =
                     [status |-> NewStatus(c), role |-> NewRole(c), version |-> @.version + 1]]
    /\ Bump(Actor(c))
    /\ CommitThenDelete(c, {Target(c), Actor(c)})
    /\ UNCHANGED <<standing, enabled>>

Updates(c) ==
    /\ At(c, {"update"}, "target") /\ Granted(c)
    /\ member' = [member EXCEPT ![Target(c)] =
                     [status |-> NewStatus(c), role |-> NewRole(c), version |-> @.version + 1]]
    /\ Bump(Target(c))
    /\ CommitThenDelete(c, {Target(c), Actor(c)})
    /\ UNCHANGED <<standing, enabled>>

----------------------------------------------------------------------------
(* accept_invitation and leave_organization lock the actor, the membership *)
(* and then the organization.                                              *)

OwnMembership(c) == Actor(c) = Target(c) /\ Actor(c) \in enabled

Acceptable(c) == OwnMembership(c) /\ member[Target(c)].status = "invited" /\ req[c].valid
Leavable(c) ==
    /\ OwnMembership(c) /\ member[Target(c)].status = "active"
    /\ member[Target(c)].version = req[c].version

LockSeat(c) ==
    /\ \/ At(c, {"accept"}, "seat") /\ Acceptable(c)
       \/ At(c, {"leave"}, "seat") /\ Leavable(c)
    /\ LockThen(c, "org")

SeatDenied(c) ==
    /\ \/ At(c, {"accept"}, "seat") /\ ~Acceptable(c)
       \/ At(c, {"leave"}, "seat") /\ ~Leavable(c)
    /\ Granted(c)
    /\ End(c)

Moves(c, status) ==
    /\ member' = [member EXCEPT ![Target(c)].status = status,
                                ![Target(c)].version = @ + 1]
    /\ Bump(Target(c))
    /\ CommitThenDelete(c, {Actor(c)})
    /\ UNCHANGED <<standing, enabled>>

Accepts(c) ==
    /\ At(c, {"accept"}, "org") /\ Granted(c)
    /\ standing # "suspended"
    /\ Moves(c, "active")

\* Variant of Leaves: the owners are counted before the organization is locked.
LeavesUnserialized(c) ==
    /\ At(c, {"leave"}, "org")
    /\ Seat(Target(c)) = "owner" => HasOtherOwner(Target(c))
    /\ Moves(c, "left")

Leaves(c) ==
    /\ At(c, {"leave"}, "org") /\ Granted(c)
    /\ Seat(Target(c)) = "owner" => HasOtherOwner(Target(c))
    /\ Moves(c, "left")

OrganizationDenied(c) ==
    /\ \/ At(c, {"accept"}, "org") /\ standing = "suspended"
       \/ /\ At(c, {"leave"}, "org")
          /\ Seat(Target(c)) = "owner" /\ ~HasOtherOwner(Target(c))
    /\ Granted(c)
    /\ End(c)

----------------------------------------------------------------------------
(* The cache. *)

Finish(c) ==
    /\ req' = [req EXCEPT ![c] = NoRequest]
    /\ UNCHANGED <<rowVars, holder>>

\* invalidate: a failure of Redis is logged only.
Invalidate(c) ==
    /\ req[c].step = "delete"
    /\ \/ cache' = [u \in Users |-> IF u \in req[c].drop THEN None ELSE cache[u]]
       \/ UNCHANGED cache
    /\ Finish(c)

CacheHit(c) ==
    /\ req[c].step = "cache"
    /\ cache[Actor(c)] # None /\ cache[Actor(c)].version = req[c].version
    /\ Finish(c) /\ UNCHANGED cache

\* No entry, one of another version, or Redis does not answer.
CacheMiss(c) ==
    /\ req[c].step = "cache"
    /\ req' = [req EXCEPT ![c].step = "read"]
    /\ UNCHANGED <<rowVars, cache, holder>>

ReadMemberships(c) ==
    /\ req[c].step = "read"
    /\ req' = [req EXCEPT ![c].step = "store", ![c].seat = Seat(Actor(c))]
    /\ UNCHANGED <<rowVars, cache, holder>>

Store(c) ==
    /\ req[c].step = "store"
    /\ \/ cache' = [cache EXCEPT ![Actor(c)] =
                       [version |-> req[c].version, seat |-> req[c].seat]]
       \/ UNCHANGED cache
    /\ Finish(c)

----------------------------------------------------------------------------
(* What happens outside this code. *)

\* The entry's time to live ends.
Expire(u) ==
    /\ cache[u] # None
    /\ cache' = [cache EXCEPT ![u] = None]
    /\ UNCHANGED <<rowVars, holder, req>>

\* verify_challenge, create_seller_profile and password changes raise the
\* version of the account too.
AccountChanges(u) ==
    /\ "account" \in Operations
    /\ holder[UserRow(u)] = None /\ Room(u)
    /\ Bump(u)
    /\ UNCHANGED <<standing, enabled, member, cache, holder, req>>

\* No code under src/ writes these columns after the rows are created.
OrganizationReviewed(s) ==
    /\ standing # "none" /\ s \notin {"none", standing}
    /\ s = "verified" \/ "review" \in Operations
    /\ holder[OrgRow] = None
    /\ standing' = s
    /\ UNCHANGED <<enabled, member, past, cache, holder, req>>

AccountReviewed(u) ==
    /\ "suspend" \in Operations
    /\ holder[UserRow(u)] = None
    /\ enabled' = IF u \in enabled THEN enabled \ {u} ELSE enabled \cup {u}
    /\ UNCHANGED <<standing, member, past, cache, holder, req>>

----------------------------------------------------------------------------
ClientStep(c) ==
    \/ Deadlock(c)
    \/ Creates(c) \/ CreateDenied(c)
    \/ LockActor(c) \/ LockOrganization(c) \/ LockOwn(c) \/ OwnDenied(c)
    \/ LockInvited(c) \/ Invites(c) \/ InviteDenied(c)
    \/ LockUpdated(c) \/ UpdateIdle(c) \/ UpdateDenied(c) \/ Updates(c)
    \/ LockSeat(c) \/ SeatDenied(c) \/ Accepts(c) \/ Leaves(c) \/ OrganizationDenied(c)
    \/ Invalidate(c) \/ CacheHit(c) \/ CacheMiss(c) \/ ReadMemberships(c) \/ Store(c)

Environment ==
    \/ \E u \in Users : Expire(u) \/ AccountChanges(u) \/ AccountReviewed(u)
    \/ \E s \in Standing : OrganizationReviewed(s)

Next ==
    \/ \E c \in Clients : Arrival(c) \/ ClientStep(c) \/ Crash(c)
    \/ Environment

Spec == Init /\ [][Next]_vars

----------------------------------------------------------------------------
(* Properties. *)

\* Every row, entry and request has its type.
TypeOK ==
    /\ standing \in Standing
    /\ enabled \in SUBSET Users
    /\ member \in [Users -> Member]
    /\ past \in [Users -> Seq(Seats)]
    /\ cache \in [Users -> Entry \cup {None}]
    /\ holder \in [Rows -> Clients \cup {None}]
    /\ req \in [Clients -> Request]

\* An organization always has an active owner, although two owners may leave,
\* demote or suspend each other at once: each counts the other owners, without
\* locking them (docs/authentication-authorization.md:126,
\* DealerService.update_membership, leave_organization).
ActiveOwner == standing # "none" => Owners # {}

\* The seats u had while its version was v or later.
SeatsSince(u, v) == {past[u][w] : w \in v .. Len(past[u])} \cup {Seat(u)}

\* A cached projection is no older than its version: whoever finds it under
\* the version the user row had gets a seat the user held then or later, and
\* under the current version the current seat.  So capabilities computed from
\* reads around a membership change never outlive the change, even when the
\* deletion after it fails (CapabilityService.get_capabilities).
CacheNotStale ==
    \A u \in Users : cache[u] # None =>
        /\ cache[u].version \in 1 .. Version(u)
        /\ cache[u].seat \in SeatsSince(u, cache[u].version)

\* The transactions, with the rows they lock one by one, implement the
\* one-step operations of DealerSeats: who changes a membership may do so at
\* the moment it commits.
Atomic == INSTANCE DealerSeats WITH
    status <- [u \in Users |-> member[u].status],
    role <- [u \in Users |-> member[u].role]
AtomicSpec == Atomic!Spec
=============================================================================
