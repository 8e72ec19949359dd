--------------------------- MODULE DealersProofs ---------------------------
(***************************************************************************)
(* What Dealers guarantees for every number of requests and users.  A      *)
(* commit relies on checks made when earlier rows were locked: the         *)
(* inductive invariant says which rows a request holds at each step, and   *)
(* that what it checked still stands, because whoever would change it      *)
(* needs one of those rows.  Nobody locks the owners that are counted;     *)
(* they are safe because every change of a membership needs the row of the *)
(* organization in the end.                                                *)
(***************************************************************************)
EXTENDS Dealers, TLAPS, SequenceTheorems

\* There are memberships only of an organization that exists.
Founded == standing = "none" => member = [u \in Users |-> NoMember]

\* What a request carries from one step to the next.
RequestShape(c) ==
    /\ req[c].op = "create" => standing = "none"
    /\ Locking(c) => /\ req[c].op \in {"create", "invite", "accept", "update", "leave"}
                     /\ Actor(c) \in Users /\ Target(c) \in Users
                     /\ req[c].op # "create" => standing # "none"
    /\ Locking(c) /\ req[c].op = "invite" => req[c].role \in Roles
    /\ Locking(c) /\ req[c].op \in {"accept", "update", "leave"} =>
         member[Target(c)].status # "none"
RequestsShaped == \A c \in Clients : RequestShape(c)
OneCreates == \A c, d \in Clients : req[c].op = "create" /\ req[d].op = "create" => c = d

\* The rows a request holds at each step.
Holding(c) ==
    /\ Locking(c) /\ req[c].step # "actor" => holder[UserRow(Actor(c))] = c
    /\ req[c].op \in {"invite", "update"} /\ req[c].step \in {"own", "target", "seat"} =>
         holder[OrgRow] = c
    /\ At(c, {"accept", "leave"}, "org") => holder[MemberRow(Target(c))] = c
    /\ At(c, {"update"}, "target") => holder[MemberRow(Target(c))] = c
    /\ At(c, {"invite"}, "seat") => holder[UserRow(Target(c))] = c
RowsHeld == \A c \in Clients : Holding(c)

\* What a request has checked at each step.
Entitled(c) ==
    /\ standing = "verified" /\ Actor(c) \in enabled
    /\ Seat(Actor(c)) \in {"owner", "admin"}
Checked(c) ==
    /\ req[c].op \in {"invite", "update"} /\ req[c].step \in {"target", "seat"} => Entitled(c)
    /\ req[c].op = "invite" /\ req[c].step \in {"target", "seat"} /\ req[c].role = "owner" =>
         Seat(Actor(c)) = "owner"
    /\ At(c, {"invite"}, "seat") => Target(c) \in enabled
    /\ At(c, {"update"}, "target") => Updatable(c)
    /\ At(c, {"accept"}, "org") => Acceptable(c)
    /\ At(c, {"leave"}, "org") => Leavable(c)
ChecksStand == \A c \in Clients : Checked(c)

\* What a capability request has read.
Projecting(c) ==
    req[c].step \in {"cache", "read", "store"} =>
      /\ Actor(c) \in Users
      /\ req[c].version \in 1 .. Version(Actor(c))
      /\ req[c].step = "store" => req[c].seat \in SeatsSince(Actor(c), req[c].version)
ProjectionsTimely == \A c \in Clients : Projecting(c)

LockInv == TypeOK /\ Founded /\ RequestsShaped /\ OneCreates /\ RowsHeld /\ ChecksStand
DealersInv == LockInv /\ ActiveOwner /\ CacheNotStale /\ ProjectionsTimely

-----------------------------------------------------------------------------
(* Rows, seats and the forms a step takes.                                 *)

LEMMA RowsDistinct ==
  /\ OrgRow \in Rows
  /\ \A u \in Users : UserRow(u) \in Rows /\ MemberRow(u) \in Rows
  /\ \A u, v \in Users : /\ UserRow(u) # MemberRow(v) /\ UserRow(u) # OrgRow
                         /\ MemberRow(u) # OrgRow
                         /\ UserRow(u) = UserRow(v) => u = v
                         /\ MemberRow(u) = MemberRow(v) => u = v
  BY DEF OrgRow, UserRow, MemberRow, Rows

LEMMA SeatTyped ==
  ASSUME TypeOK, NEW u \in Users
  PROVE  Seat(u) \in Seats /\ Append(past[u], Seat(u)) \in Seq(Seats) /\ Version(u) \in Nat \ {0}
<1>1. member[u] \in Member
  BY DEF TypeOK
<1>2. Seat(u) \in Seats
  BY <1>1 DEF Seat, Seats, Member, NoMember
<1>3. past[u] \in Seq(Seats)
  BY DEF TypeOK
<1>4. Append(past[u], Seat(u)) \in Seq(Seats)
  BY <1>2, <1>3
<1>5. Version(u) \in Nat \ {0}
  BY <1>3 DEF Version
<1>6. QED
  BY <1>2, <1>4, <1>5

LEMMA BumpTyped ==
  ASSUME TypeOK, NEW u \in Users, Bump(u)
  PROVE  past' \in [Users -> Seq(Seats)]
  BY SeatTyped DEF Bump, TypeOK

\* A client step either refuses, locks the next row, commits, or concerns
\* the cache.
Refuses(c) ==
    \/ Deadlock(c) \/ Crash(c) \/ CreateDenied(c) \/ OwnDenied(c) \/ InviteDenied(c)
    \/ UpdateDenied(c) \/ SeatDenied(c) \/ OrganizationDenied(c)
Locks(c) ==
    \/ LockActor(c) \/ LockOrganization(c) \/ LockOwn(c) \/ LockInvited(c)
    \/ LockUpdated(c) \/ LockSeat(c)
Commits(c) ==
    Creates(c) \/ Invites(c) \/ UpdateIdle(c) \/ Updates(c) \/ Accepts(c) \/ Leaves(c)
Caches(c) ==
    Invalidate(c) \/ CacheHit(c) \/ CacheMiss(c) \/ ReadMemberships(c) \/ Store(c)

LEMMA StepKinds ==
  ASSUME NEW c \in Clients, ClientStep(c) \/ Crash(c)
  PROVE  Refuses(c) \/ Locks(c) \/ Commits(c) \/ Caches(c)
  BY DEF ClientStep, Refuses, Locks, Commits, Caches

LEMMA RefusalEnds ==
  ASSUME NEW c \in Clients, Refuses(c)
  PROVE  End(c)
  BY DEF Refuses, Deadlock, Crash, CreateDenied, OwnDenied, InviteDenied, UpdateDenied,
         SeatDenied, OrganizationDenied

LEMMA LockingTaken ==
  ASSUME NEW c \in Clients, Locks(c)
  PROVE  \E step \in {"org", "own", "target", "seat"} : LockThen(c, step)
  BY DEF Locks, LockActor, LockOrganization, LockOwn, LockInvited, LockUpdated, LockSeat

LEMMA CommitEnds ==
  ASSUME TypeOK, RequestsShaped, NEW c \in Clients, Commits(c)
  PROVE  /\ \E users \in SUBSET Users : CommitThenDelete(c, users)
         /\ Locking(c) /\ Granted(c)
<1>1. RequestShape(c)
  BY DEF RequestsShaped
<1>2. Locking(c) /\ Granted(c)
  BY DEF Commits, Creates, Invites, UpdateIdle, Updates, Accepts, Leaves, At, Locking
<1>3. Actor(c) \in Users /\ Target(c) \in Users
  BY <1>1, <1>2 DEF RequestShape
<1>4. {Actor(c)} \in SUBSET Users /\ {Target(c), Actor(c)} \in SUBSET Users
  BY <1>3
<1>5. CommitThenDelete(c, {Actor(c)}) \/ CommitThenDelete(c, {Target(c), Actor(c)})
  BY DEF Commits, Creates, Invites, UpdateIdle, Updates, Accepts, Leaves, Moves
<1>6. QED
  BY <1>2, <1>4, <1>5

-----------------------------------------------------------------------------
(* Types.                                                                  *)

LEMMA NoRequestTyped == NoRequest \in Request
  BY DEF NoRequest, Request, Op, Step, Seats

LEMMA StepTyped ==
  ASSUME NEW r \in Request, NEW step \in Step
  PROVE  [r EXCEPT !.step = step] \in Request
  BY DEF Request

LEMMA SeatReadTyped ==
  ASSUME NEW r \in Request, NEW s \in Seats
  PROVE  [r EXCEPT !.step = "store", !.seat = s] \in Request
  BY DEF Request, Step

\* The inputs a request arrives with.
LEMMA RoleTyped ==
  ASSUME NEW r \in Request, NEW ro \in Seats
  PROVE  [r EXCEPT !.role = ro] \in Request
  BY DEF Request

LEMMA ValidTyped ==
  ASSUME NEW r \in Request, NEW v \in BOOLEAN
  PROVE  [r EXCEPT !.valid = v] \in Request
  BY DEF Request

LEMMA VersionTyped ==
  ASSUME NEW r \in Request, NEW v \in Nat
  PROVE  [r EXCEPT !.version = v] \in Request
  BY DEF Request

LEMMA PatchTyped ==
  ASSUME NEW r \in Request, NEW ro \in Seats, NEW v \in Nat,
         NEW st \in {"active", "suspended", "revoked", None}
  PROVE  [r EXCEPT !.role = ro, !.status = st, !.version = v] \in Request
  BY DEF Request

LEMMA MemberMoved ==
  ASSUME NEW S, NEW R, NEW m \in [status : S, role : R, version : Nat], NEW s \in S, NEW n \in Nat
  PROVE  [m EXCEPT !.status = s, !.version = n] \in [status : S, role : R, version : Nat]
  OBVIOUS

LEMMA InitTypeOK == Init => TypeOK
<1> SUFFICES ASSUME Init PROVE TypeOK
  OBVIOUS
<1>1. standing \in Standing /\ enabled \in SUBSET Users /\ cache \in [Users -> Entry \cup {None}]
      /\ holder \in [Rows -> Clients \cup {None}] /\ req \in [Clients -> Request]
  BY NoRequestTyped DEF Init, Standing
<1>2. member \in [Users -> Member]
  BY DEF Init, Member
<1>3. past \in [Users -> Seq(Seats)]
  BY DEF Init
<1>4. QED
  BY <1>1, <1>2, <1>3 DEF TypeOK

LEMMA ArrivalTypeOK ==
  ASSUME TypeOK, NEW c \in Clients, Arrival(c)
  PROVE  TypeOK'
<1> USE DEF TypeOK
<1>n. NoRequest \in Request
  BY NoRequestTyped
<1>b. ASSUME NEW r \in Request, Begin(c, r) PROVE TypeOK'
  BY <1>b DEF Begin, rowVars
<1>w. ASSUME NEW op \in Op, NEW a \in Users, NEW u \in Users PROVE Write(op, a, u) \in Request
  BY <1>w, <1>n DEF Write, Request, Step
<1>0. {"create", "invite", "accept", "update", "leave", "capabilities"} \subseteq Op
  BY DEF Op
<1>1. ASSUME NEW a \in Users, CreateOrganization(c, a) PROVE TypeOK'
  BY <1>1, <1>0, <1>w, <1>b DEF CreateOrganization
<1>2. ASSUME NEW a \in Users, GetCapabilities(c, a) PROVE TypeOK'
  <2>1. Version(a) \in Nat
    BY SeatTyped
  <2> DEFINE v == Version(a)
  <2>2. v \in Nat
    BY <2>1
  <2>3. Begin(c, [NoRequest EXCEPT !.op = "capabilities", !.step = "cache", !.actor = a,
                                   !.version = v])
    BY <1>2 DEF GetCapabilities
  <2> HIDE DEF v
  <2>4. [NoRequest EXCEPT !.op = "capabilities", !.step = "cache", !.actor = a,
                          !.version = v] \in Request
    BY <2>2, <1>n DEF Request, Op, Step
  <2>5. QED
    BY <2>3, <2>4, <1>b
<1>3. ASSUME NEW a \in Users, NEW u \in Users, NEW r \in Invited, InviteMember(c, a, u, r)
      PROVE  TypeOK'
  <2>1. r \in Seats
    BY DealersAssumption DEF Seats
  <2>2. [Write("invite", a, u) EXCEPT !.role = r] \in Request
    BY <2>1, <1>0, <1>w, RoleTyped
  <2>3. QED
    BY <1>3, <2>2, <1>b DEF InviteMember
<1>4. ASSUME NEW a \in Users, NEW u \in Users, NEW v \in BOOLEAN, AcceptInvitation(c, a, u, v)
      PROVE  TypeOK'
  <2>1. [Write("accept", a, u) EXCEPT !.valid = v] \in Request
    BY <1>0, <1>w, ValidTyped
  <2>2. QED
    BY <1>4, <2>1, <1>b DEF AcceptInvitation
<1>v. ASSUME NEW u \in Users PROVE member[u].version \in Nat
  BY DEF Member, NoMember
<1>5. ASSUME NEW a \in Users, NEW u \in Users, NEW p \in Patches, UpdateMembership(c, a, u, p)
      PROVE  TypeOK'
  <2>1. p.role \in Seats /\ p.status \in {"active", "suspended", "revoked", None}
    BY DealersAssumption DEF Seats, Patch
  <2> DEFINE v == member[u].version
             ro == p.role
             st == p.status
  <2>2. ro \in Seats /\ st \in {"active", "suspended", "revoked", None} /\ v \in Nat
    BY <2>1, <1>v
  <2>3. Begin(c, [Write("update", a, u) EXCEPT !.role = ro, !.status = st, !.version = v])
    BY <1>5 DEF UpdateMembership
  <2> HIDE DEF v, ro, st
  <2>4. [Write("update", a, u) EXCEPT !.role = ro, !.status = st, !.version = v] \in Request
    BY <2>2, <1>0, <1>w, PatchTyped
  <2>5. QED
    BY <2>3, <2>4, <1>b
<1>6. ASSUME NEW a \in Users, NEW u \in Users, LeaveOrganization(c, a, u) PROVE TypeOK'
  <2> DEFINE v == member[u].version
  <2>1. v \in Nat
    BY <1>v
  <2>2. Begin(c, [Write("leave", a, u) EXCEPT !.version = v])
    BY <1>6 DEF LeaveOrganization
  <2> HIDE DEF v
  <2>3. [Write("leave", a, u) EXCEPT !.version = v] \in Request
    BY <2>1, <1>0, <1>w, VersionTyped
  <2>4. QED
    BY <2>2, <2>3, <1>b
<1>7. QED
  BY <1>1, <1>2, <1>3, <1>4, <1>5, <1>6 DEF Arrival

LEMMA EndTypeOK ==
  ASSUME TypeOK, NEW c \in Clients, End(c)
  PROVE  TypeOK'
  BY NoRequestTyped DEF TypeOK, End, Released, rowVars

LEMMA WantedTyped ==
  ASSUME RequestsShaped, NEW c \in Clients, Locking(c)
  PROVE  Wanted(c) \in Rows
<1>1. Actor(c) \in Users /\ Target(c) \in Users
  BY DEF RequestsShaped, RequestShape
<1>2. QED
  BY <1>1, RowsDistinct DEF Wanted

LEMMA LockTypeOK ==
  ASSUME TypeOK, NEW c \in Clients, NEW step \in Step, LockThen(c, step)
  PROVE  TypeOK'
<1>1. req' = [req EXCEPT ![c] = [req[c] EXCEPT !.step = step]]
  BY DEF TypeOK, LockThen
<1>2. req' \in [Clients -> Request]
  BY <1>1, StepTyped DEF TypeOK
<1>3. holder' \in [Rows -> Clients \cup {None}]
  BY DEF TypeOK, LockThen
<1>4. QED
  BY <1>2, <1>3 DEF TypeOK, LockThen, rowVars

LEMMA CommitTyped ==
  ASSUME TypeOK, NEW c \in Clients, NEW users \in SUBSET Users, CommitThenDelete(c, users)
  PROVE  /\ holder' \in [Rows -> Clients \cup {None}] /\ req' \in [Clients -> Request]
         /\ cache' \in [Users -> Entry \cup {None}]
<1>1. [NoRequest EXCEPT !.op = "invalidate", !.step = "delete", !.drop = users] \in Request
  BY NoRequestTyped DEF Request, Op, Step
<1>2. QED
  BY <1>1 DEF TypeOK, CommitThenDelete, Released

\* What a commit writes into member and past is typed.
LEMMA CommitTypeOK ==
  ASSUME TypeOK, RequestsShaped, NEW c \in Clients, Commits(c)
  PROVE  TypeOK'
<1>r. req[c] \in Request /\ RequestShape(c) /\ Locking(c)
  BY CommitEnds DEF TypeOK, RequestsShaped
<1>a. Actor(c) \in Users /\ Target(c) \in Users
  BY <1>r DEF RequestShape
<1>c. holder' \in [Rows -> Clients \cup {None}] /\ req' \in [Clients -> Request]
      /\ cache' \in [Users -> Entry \cup {None}]
  BY CommitEnds, CommitTyped
<1>m. ASSUME NEW u \in Users, member[u] # NoMember
      PROVE  member[u] \in [status : MemberStatus \ {"none"}, role : Roles, version : Nat]
  BY <1>m DEF TypeOK, Member
<1>1. CASE Creates(c)
  <2>1. standing' \in Standing
    BY <1>1 DEF Creates, Standing
  <2>2. [status |-> "active", role |-> "owner", version |-> 1] \in Member
    BY DEF Member, MemberStatus, Roles
  <2>3. member' \in [Users -> Member]
    BY <1>1, <2>2 DEF Creates, TypeOK
  <2>4. QED
    BY <1>1, <1>a, <1>c, <2>1, <2>3, BumpTyped DEF Creates, TypeOK
<1>2. CASE Invites(c)
  <2>1. req[c].role \in Roles
    BY <1>2, <1>r DEF Invites, At, RequestShape
  <2>2. [status |-> "invited", role |-> req[c].role, version |-> 1] \in Member
    BY <2>1 DEF Member, MemberStatus
  <2>3. member' \in [Users -> Member]
    BY <1>2, <2>2 DEF Invites, TypeOK
  <2>4. QED
    BY <1>2, <1>a, <1>c, <2>3, BumpTyped DEF Invites, TypeOK
<1>3. CASE UpdateIdle(c)
  BY <1>3, <1>c DEF UpdateIdle, rowVars, TypeOK
<1>4. CASE Updates(c)
  <2>1. member[Target(c)] # NoMember
    BY <1>4, <1>r DEF Updates, At, RequestShape, NoMember
  <2>2. member[Target(c)] \in [status : MemberStatus \ {"none"}, role : Roles, version : Nat]
    BY <2>1, <1>m, <1>a
  <2>3. NewRole(c) \in Roles /\ NewStatus(c) \in MemberStatus \ {"none"}
    BY <2>2, <1>r DEF NewRole, NewStatus, Request, Seats, MemberStatus
  <2>4. member[Target(c)].version + 1 \in Nat
    BY <2>2
  <2>5. [status |-> NewStatus(c), role |-> NewRole(c),
         version |-> member[Target(c)].version + 1] \in Member
    BY <2>3, <2>4 DEF Member
  <2>6. member' = [member EXCEPT ![Target(c)] = [status |-> NewStatus(c), role |-> NewRole(c),
                                                 version |-> member[Target(c)].version + 1]]
    BY <1>4, <1>a DEF Updates, TypeOK
  <2>7. member' \in [Users -> Member]
    BY <2>5, <2>6 DEF TypeOK
  <2>8. QED
    BY <1>4, <1>a, <1>c, <2>7, BumpTyped DEF Updates, TypeOK
<1>5. ASSUME NEW s \in {"active", "left"}, Moves(c, s), At(c, {"accept", "leave"}, "org")
      PROVE  TypeOK'
  <2>1. member[Target(c)] # NoMember
    BY <1>5, <1>r DEF At, RequestShape, NoMember
  <2>2. member[Target(c)] \in [status : MemberStatus \ {"none"}, role : Roles, version : Nat]
    BY <2>1, <1>m, <1>a
  <2> DEFINE m == member[Target(c)]
             n == member[Target(c)].version + 1
  <2>n. n \in Nat /\ m \in [status : MemberStatus \ {"none"}, role : Roles, version : Nat]
    BY <2>2
  <2>3. [m EXCEPT !.status = s, !.version = n] \in Member
    <3> HIDE DEF m, n
    <3>1. s \in MemberStatus \ {"none"}
      BY DEF MemberStatus
    <3>2. [m EXCEPT !.status = s, !.version = n]
              \in [status : MemberStatus \ {"none"}, role : Roles, version : Nat]
      BY <2>n, <3>1, MemberMoved
    <3>3. QED
      BY <3>2 DEF Member
  <2>4. member' = [member EXCEPT ![Target(c)] =
                      [member[Target(c)] EXCEPT !.status = s,
                                                !.version = member[Target(c)].version + 1]]
    BY <1>5, <1>a DEF Moves, TypeOK
  <2>5. member' \in [Users -> Member]
    BY <2>3, <2>4 DEF TypeOK
  <2>6. QED
    BY <1>5, <1>a, <1>c, <2>5, BumpTyped DEF Moves, TypeOK
<1>6. QED
  BY <1>1, <1>2, <1>3, <1>4, <1>5 DEF Commits, Accepts, Leaves, At

LEMMA CacheTypeOK ==
  ASSUME TypeOK, RequestsShaped, ProjectionsTimely, NEW c \in Clients, Caches(c)
  PROVE  TypeOK'
<1>r. req[c] \in Request /\ Projecting(c)
  BY DEF TypeOK, ProjectionsTimely
<1>f. ASSUME Finish(c) PROVE req' \in [Clients -> Request]
  BY <1>f, NoRequestTyped DEF Finish, TypeOK
<1>1. CASE Invalidate(c)
  BY <1>1, <1>f DEF Invalidate, Finish, rowVars, TypeOK
<1>2. CASE CacheHit(c)
  BY <1>2, <1>f DEF CacheHit, Finish, rowVars, TypeOK
<1>3. CASE CacheMiss(c)
  <2>1. req' = [req EXCEPT ![c] = [req[c] EXCEPT !.step = "read"]]
    BY <1>3 DEF CacheMiss, TypeOK
  <2>3. req' \in [Clients -> Request]
    BY <2>1, <1>r, StepTyped DEF TypeOK, Step
  <2>2. QED
    BY <1>3, <2>3 DEF CacheMiss, rowVars, TypeOK
<1>4. CASE ReadMemberships(c)
  <2>1. Seat(Actor(c)) \in Seats
    BY <1>4, <1>r, SeatTyped DEF ReadMemberships, Projecting
  <2>2. req' = [req EXCEPT ![c] = [req[c] EXCEPT !.step = "store", !.seat = Seat(Actor(c))]]
    BY <1>4 DEF ReadMemberships, TypeOK
  <2>3. req' \in [Clients -> Request]
    BY <2>1, <2>2, <1>r, SeatReadTyped DEF TypeOK
  <2>4. QED
    BY <1>4, <2>3 DEF ReadMemberships, rowVars, TypeOK
<1>5. CASE Store(c)
  <2>1. [version |-> req[c].version, seat |-> req[c].seat] \in Entry
    BY <1>r DEF Request, Entry
  <2>2. cache' \in [Users -> Entry \cup {None}]
    BY <1>5, <2>1 DEF Store, TypeOK
  <2>3. QED
    BY <1>5, <2>2, <1>f DEF Store, Finish, rowVars, TypeOK
<1>6. QED
  BY <1>1, <1>2, <1>3, <1>4, <1>5 DEF Caches

LEMMA EnvironmentTypeOK ==
  ASSUME TypeOK, Environment
  PROVE  TypeOK'
<1>1. ASSUME NEW u \in Users, Expire(u) PROVE TypeOK'
  BY <1>1 DEF Expire, rowVars, TypeOK
<1>2. ASSUME NEW u \in Users, AccountChanges(u) PROVE TypeOK'
  BY <1>2, BumpTyped DEF AccountChanges, TypeOK
<1>3. ASSUME NEW u \in Users, AccountReviewed(u) PROVE TypeOK'
  BY <1>3 DEF AccountReviewed, TypeOK
<1>4. ASSUME NEW s \in Standing, OrganizationReviewed(s) PROVE TypeOK'
  BY <1>4 DEF OrganizationReviewed, TypeOK
<1>5. QED
  BY <1>1, <1>2, <1>3, <1>4 DEF Environment

-----------------------------------------------------------------------------
(* What a commit writes, and what a lock protects.                         *)

\* A commit changes the membership of u and no other, and raises u's version.
Rewrites(u) ==
    /\ \A v \in Users \ {u} : member'[v] = member[v]
    /\ member'[u].status # "none"
    /\ Bump(u) /\ UNCHANGED enabled

LEMMA CreateRewrites ==
  ASSUME TypeOK, RequestsShaped, NEW c \in Clients, Creates(c)
  PROVE  Actor(c) \in Users /\ Rewrites(Actor(c))
<1>1. Actor(c) \in Users
  BY DEF RequestsShaped, RequestShape, Creates, At, Locking
<1>2. QED
  BY <1>1 DEF Creates, Rewrites, TypeOK

LEMMA SeatRewrites ==
  ASSUME TypeOK, RequestsShaped, NEW c \in Clients,
         Invites(c) \/ Updates(c) \/ Accepts(c) \/ Leaves(c)
  PROVE  Target(c) \in Users /\ Rewrites(Target(c)) /\ standing # "none" /\ standing' = standing
<1>1. Target(c) \in Users /\ standing # "none"
  BY DEF RequestsShaped, RequestShape, Invites, Updates, Accepts, Leaves, At, Locking
<1>2. req[c] \in Request /\ member[Target(c)] \in Member
  BY <1>1 DEF TypeOK
<1>3. CASE Invites(c)
  BY <1>1, <1>3 DEF Invites, Rewrites, TypeOK
<1>4. CASE Updates(c)
  <2>1. member[Target(c)].status # "none"
    BY <1>4 DEF Updates, At, RequestsShaped, RequestShape, Locking
  <2>2. NewStatus(c) # "none"
    BY <2>1, <1>2, DealersAssumption DEF NewStatus, Request
  <2>3. QED
    BY <1>1, <1>4, <2>2 DEF Updates, Rewrites, TypeOK
<1>5. ASSUME NEW s \in {"active", "left"}, Moves(c, s)
      PROVE  Rewrites(Target(c)) /\ standing' = standing
  <2>1. \A v \in Users \ {Target(c)} : member'[v] = member[v]
    BY <1>5 DEF Moves, TypeOK
  <2>2. member'[Target(c)].status = s
    <3> DEFINE m == member[Target(c)]
               n == member[Target(c)].version + 1
    <3>1. member'[Target(c)] = [m EXCEPT !.status = s, !.version = n]
      BY <1>1, <1>5 DEF Moves, TypeOK
    <3>2. m # NoMember => m \in [status : MemberStatus \ {"none"}, role : Roles, version : Nat]
      BY <1>2 DEF Member
    <3>3. m \in [status : {"none"}, role : {None}, version : {0}] \/ m # NoMember
      BY DEF NoMember
    <3>4. DOMAIN m = {"status", "role", "version"}
      <4> HIDE DEF m
      <4>1. QED
        BY <3>2, <3>3
    <3>5. QED
      <4> HIDE DEF m, n
      <4>1. QED
        BY <3>1, <3>4
  <2>3. QED
    BY <1>5, <2>1, <2>2 DEF Moves, Rewrites
<1>6. QED
  BY <1>1, <1>3, <1>4, <1>5 DEF Accepts, Leaves, Invites, Updates

LEMMA OtherSteps ==
  ASSUME TypeOK, NEW c \in Clients,
         Arrival(c) \/ Refuses(c) \/ Locks(c) \/ UpdateIdle(c) \/ Caches(c)
  PROVE  UNCHANGED rowVars
<1>1. Refuses(c) => UNCHANGED rowVars
  BY RefusalEnds DEF End
<1>2. Locks(c) => UNCHANGED rowVars
  BY LockingTaken DEF LockThen
<1>3. Caches(c) => UNCHANGED rowVars
  BY DEF Caches, Invalidate, CacheHit, CacheMiss, ReadMemberships, Store, Finish
<1>4. Arrival(c) => UNCHANGED rowVars
  BY ZenonT(30) DEF Arrival, CreateOrganization, GetCapabilities, InviteMember, AcceptInvitation,
         UpdateMembership, LeaveOrganization, Begin
<1>5. QED
  BY <1>1, <1>2, <1>3, <1>4 DEF UpdateIdle

\* A step of c touches no lock and no request of another client.
LEMMA StepIsOwn ==
  ASSUME LockInv, NEW c \in Clients, Arrival(c) \/ ClientStep(c) \/ Crash(c),
         NEW d \in Clients \ {c}
  PROVE  /\ req'[d] = req[d]
         /\ \A r \in Rows : holder[r] = d <=> holder'[r] = d
<1> USE DEF LockInv
<1>t. req \in [Clients -> Request] /\ holder \in [Rows -> Clients \cup {None}]
  BY DEF TypeOK
<1>n. None \notin Clients
  BY DealersAssumption
<1>1. CASE Arrival(c)
  BY ZenonT(30), <1>1, <1>t DEF Arrival, CreateOrganization, GetCapabilities, InviteMember, AcceptInvitation,
     UpdateMembership, LeaveOrganization, Begin
<1>2. CASE Refuses(c)
  BY <1>2, <1>t, <1>n, RefusalEnds DEF End, Released
<1>3. CASE Locks(c)
  BY <1>3, <1>t, <1>n, LockingTaken DEF LockThen, Granted
<1>4. CASE Commits(c)
  <2>1. PICK users \in SUBSET Users : CommitThenDelete(c, users)
    BY <1>4, CommitEnds
  <2>2. holder' = Released(c)
    BY <2>1 DEF CommitThenDelete
  <2>3. req'[d] = req[d]
    BY <2>1, <1>t DEF CommitThenDelete
  <2>4. QED
    BY <2>2, <2>3, <1>t, <1>n DEF Released
<1>5. CASE Caches(c)
  BY <1>5, <1>t DEF Caches, Invalidate, CacheHit, CacheMiss, ReadMemberships, Store, Finish
<1>6. QED
  BY <1>1, <1>2, <1>3, <1>4, <1>5, StepKinds

\* While d stands by the rows it holds, others and the environment leave
\* what those rows protect as it is.
Kept(d) ==
    /\ req'[d] = req[d]
    /\ \A r \in Rows : holder[r] = d <=> holder'[r] = d
    /\ req[d].op = "create" /\ standing = "none" => standing' = "none"
    /\ standing # "none" => standing' # "none"
    /\ standing # "none" /\ holder[OrgRow] = d => standing' = standing /\ member' = member
    /\ \A u \in Users : holder[UserRow(u)] = d => (u \in enabled' <=> u \in enabled)
    /\ \A u \in Users : member[u].status # "none" => member'[u].status # "none"
    /\ \A u \in Users : holder[MemberRow(u)] = d /\ member[u].status # "none" =>
         member'[u] = member[u]

LEMMA OthersKeep ==
  ASSUME LockInv, NEW c \in Clients, Arrival(c) \/ ClientStep(c) \/ Crash(c),
         NEW d \in Clients \ {c}
  PROVE  Kept(d)
<1> USE DEF LockInv
<1>0. /\ req'[d] = req[d]
      /\ \A r \in Rows : holder[r] = d <=> holder'[r] = d
  BY StepIsOwn
<1>1. CASE UNCHANGED rowVars
  BY <1>0, <1>1 DEF Kept, rowVars
<1>2. CASE Creates(c)
  <2>1. req[c].op = "create" /\ standing = "none"
    BY <1>2 DEF Creates, At, RequestsShaped, RequestShape
  <2>2. \A u \in Users : member[u].status = "none"
    BY <2>1 DEF Founded, NoMember
  <2>3. req[d].op # "create"
    BY <2>1 DEF OneCreates
  <2>4. QED
    BY <1>0, <1>2, <2>1, <2>2, <2>3 DEF Kept, Creates
<1>3. CASE Invites(c) \/ Updates(c) \/ Accepts(c) \/ Leaves(c)
  <2>1. Target(c) \in Users /\ Rewrites(Target(c)) /\ standing # "none" /\ standing' = standing
    BY <1>3, SeatRewrites
  <2>2. holder[OrgRow] # d
    <3>1. holder[OrgRow] \in {None, c}
      <4>1. CASE Invites(c) \/ Updates(c)
        BY <4>1 DEF Invites, Updates, At, RowsHeld, Holding
      <4>2. CASE Accepts(c) \/ Leaves(c)
        BY <4>2 DEF Accepts, Leaves, At, Granted, Wanted
      <4>3. QED
        BY <1>3, <4>1, <4>2
    <3>2. QED
      BY <3>1, DealersAssumption
  <2>3. holder[MemberRow(Target(c))] # d \/ member[Target(c)].status = "none"
    <3>1. CASE Invites(c)
      BY <3>1 DEF Invites
    <3>2. CASE Updates(c) \/ Accepts(c) \/ Leaves(c)
      BY <3>2 DEF Updates, Accepts, Leaves, At, RowsHeld, Holding
    <3>3. QED
      BY <1>3, <3>1, <3>2
  <2>4. QED
    BY <1>0, <2>1, <2>2, <2>3 DEF Kept, Rewrites
<1>4. QED
  BY <1>1, <1>2, <1>3, OtherSteps, StepKinds DEF Commits

LEMMA EnvironmentKeeps ==
  ASSUME LockInv, Environment, NEW d \in Clients
  PROVE  Kept(d)
<1>0. req'[d] = req[d] /\ holder' = holder /\ member' = member
  BY DEF Environment, Expire, AccountChanges, AccountReviewed, OrganizationReviewed, rowVars
<1>1. CASE UNCHANGED <<standing, enabled>>
  BY <1>0, <1>1 DEF Kept
<1>2. ASSUME NEW v \in Users, AccountReviewed(v) PROVE Kept(d)
  <2>1. holder[UserRow(v)] # d /\ standing' = standing
    BY <1>2, DealersAssumption DEF AccountReviewed
  <2>2. \A u \in Users \ {v} : u \in enabled' <=> u \in enabled
    BY <1>2 DEF AccountReviewed
  <2>3. QED
    BY <1>0, <2>1, <2>2 DEF Kept
<1>3. ASSUME NEW s \in Standing, OrganizationReviewed(s) PROVE Kept(d)
  BY <1>0, <1>3, DealersAssumption DEF OrganizationReviewed, Kept
<1>4. QED
  BY <1>1, <1>2, <1>3 DEF Environment, Expire, AccountChanges, rowVars

-----------------------------------------------------------------------------
(* The requests of the others, and the request that takes a step.          *)

LEMMA OthersStand ==
  ASSUME LockInv, NEW d \in Clients, Kept(d)
  PROVE  RequestShape(d)' /\ Holding(d)' /\ Checked(d)'
<1> USE DEF LockInv
<1>1. RequestShape(d) /\ Holding(d) /\ Checked(d)
  BY DEF RequestsShaped, RowsHeld, ChecksStand
<1>2. req'[d] = req[d]
  BY DEF Kept
<1>3. Locking(d) => Actor(d) \in Users /\ Target(d) \in Users
  BY <1>1 DEF RequestShape
<1>4. RequestShape(d)'
  BY <1>1, <1>2, <1>3 DEF RequestShape, Kept, Locking, Actor, Target
<1>5. Holding(d)'
  <2>1. CASE ~Locking(d)
    BY <1>2, <2>1 DEF Holding, Locking, At
  <2>2. CASE Locking(d)
    BY <1>1, <1>2, <1>3, <2>2, RowsDistinct DEF Holding, Kept, Locking, Actor, Target, At
  <2>3. QED
    BY <2>1, <2>2
<1>6. Checked(d)'
  <2>1. CASE ~Locking(d)
    BY <1>2, <2>1 DEF Checked, Locking, At
  <2>2. CASE At(d, {"invite"}, "target") \/ At(d, {"invite"}, "seat") \/ At(d, {"update"}, "seat")
    <3>1. Locking(d) /\ standing # "none" /\ holder[OrgRow] = d /\ holder[UserRow(Actor(d))] = d
      BY <1>1, <2>2 DEF RequestShape, Holding, Locking, At
    <3>2. /\ member' = member /\ standing' = standing
          /\ Actor(d) \in enabled' <=> Actor(d) \in enabled
      BY <1>3, <3>1 DEF Kept
    <3>3. At(d, {"invite"}, "seat") => (Target(d) \in enabled' <=> Target(d) \in enabled)
      BY <1>1, <1>3, <3>1 DEF Holding, Kept
    <3>4. Seat(Actor(d))' = Seat(Actor(d))
      BY <1>2, <3>2 DEF Seat, Actor
    <3>5. QED
      BY <1>1, <1>2, <2>2, <3>2, <3>3, <3>4 DEF Checked, Entitled, At, Actor, Target
  <2>3. CASE At(d, {"update"}, "target")
    <3>1. Locking(d) /\ standing # "none" /\ holder[OrgRow] = d /\ holder[UserRow(Actor(d))] = d
      BY <1>1, <2>3 DEF RequestShape, Holding, Locking, At
    <3>2. /\ member' = member /\ standing' = standing
          /\ Actor(d) \in enabled' <=> Actor(d) \in enabled
      BY <1>3, <3>1 DEF Kept
    <3>3. Entitled(d)' /\ Updatable(d)'
      BY <1>1, <1>2, <2>3, <3>2 DEF Checked, Entitled, At, Updatable, RemovesActiveOwner,
         HasOtherOwner, Seat, NewRole, NewStatus, Actor, Target
    <3>4. QED
      BY <1>2, <2>3, <3>3 DEF Checked, At
  <2>4. CASE At(d, {"accept", "leave"}, "org")
    <3>1. Locking(d) /\ holder[MemberRow(Target(d))] = d /\ holder[UserRow(Actor(d))] = d
          /\ member[Target(d)].status # "none"
      BY <1>1, <2>4 DEF RequestShape, Holding, Locking, At
    <3>2. /\ Actor(d) \in enabled' <=> Actor(d) \in enabled
          /\ member'[Target(d)] = member[Target(d)]
      BY <1>3, <3>1 DEF Kept
    <3>3. QED
      BY <1>1, <1>2, <2>4, <3>2 DEF Checked, At, Acceptable, Leavable, OwnMembership, Actor, Target
  <2>5. QED
    BY <1>1, <1>2, <2>1, <2>2, <2>3, <2>4 DEF Checked, Locking, At, RequestShape
<1>7. QED
  BY <1>4, <1>5, <1>6

\* A request that holds no row any more owes nothing.
LEMMA QuietStands ==
  ASSUME NEW c \in Clients, ~Locking(c)', req'[c].op = "create" => standing' = "none"
  PROVE  RequestShape(c)' /\ Holding(c)' /\ Checked(c)'
  BY DEF RequestShape, Holding, Checked, Locking, At

LEMMA WriteIs ==
  ASSUME NEW op \in Op, NEW a \in Users, NEW u \in Users
  PROVE  LET w == Write(op, a, u) IN
           /\ w \in Request
           /\ w.op = op /\ w.step = "actor" /\ w.actor = a /\ w.target = u
<1>1. NoRequest \in Request
  BY NoRequestTyped
<1>2. Write(op, a, u) \in Request
  BY <1>1 DEF Write, Request, Step
<1>3. QED
  BY <1>1, <1>2 DEF Write, NoRequest

LEMMA ArrivalStands ==
  ASSUME LockInv, NEW c \in Clients, Arrival(c)
  PROVE  /\ RequestShape(c)' /\ Holding(c)' /\ Checked(c)'
         /\ req'[c].op = "create" => \A d \in Clients : req[d].op # "create"
<1> USE DEF LockInv
<1>t. req \in [Clients -> Request]
  BY DEF TypeOK
<1>b. ASSUME NEW r, Begin(c, r), r.step = "actor", r.actor \in Users, r.target \in Users,
             r.op \in {"create", "invite", "accept", "update", "leave"},
             r.op = "create" <=> standing = "none", r.op = "invite" => r.role \in Roles,
             r.op \in {"accept", "update", "leave"} => member[r.target].status # "none"
      PROVE  req'[c].op = r.op /\ RequestShape(c)' /\ Holding(c)' /\ Checked(c)'
  <2>1. req'[c] = r /\ UNCHANGED rowVars
    BY <1>b, <1>t DEF Begin
  <2>2. RequestShape(c)'
    BY <1>b, <2>1 DEF RequestShape, Locking, Actor, Target, rowVars
  <2>3. Holding(c)' /\ Checked(c)'
    BY <1>b, <2>1 DEF Holding, Checked, At
  <2>4. QED
    BY <1>b, <2>1, <2>2, <2>3
<1>e. \A u \in Users : member[u].status # "none" => standing # "none"
  BY DEF Founded, NoMember
<1>1. ASSUME NEW a \in Users, CreateOrganization(c, a)
      PROVE  /\ RequestShape(c)' /\ Holding(c)' /\ Checked(c)'
             /\ \A d \in Clients : req[d].op # "create"
  BY <1>1, <1>b DEF CreateOrganization, Write, NoRequest
<1>2. ASSUME NEW a \in Users, GetCapabilities(c, a)
      PROVE  /\ RequestShape(c)' /\ Holding(c)' /\ Checked(c)' /\ req'[c].op # "create"
  <2>1. req'[c].step = "cache" /\ req'[c].op = "capabilities"
    BY <1>2, <1>t DEF GetCapabilities, Begin, NoRequest
  <2>2. QED
    BY <2>1, QuietStands DEF Locking
<1>3. ASSUME NEW a \in Users, NEW u \in Users, NEW r \in Invited, InviteMember(c, a, u, r)
      PROVE  /\ RequestShape(c)' /\ Holding(c)' /\ Checked(c)' /\ req'[c].op # "create"
  <2> DEFINE w == Write("invite", a, u)
             q == [w EXCEPT !.role = r]
  <2>1. w \in Request /\ w.op = "invite" /\ w.step = "actor" /\ w.actor = a /\ w.target = u
    BY WriteIs DEF Op
  <2>2. Begin(c, q) /\ standing # "none" /\ r \in Roles
    BY <1>3, DealersAssumption DEF InviteMember
  <2>3. /\ q.op = "invite" /\ q.step = "actor" /\ q.actor = a /\ q.target = u /\ q.role = r
    <3> HIDE DEF w
    <3>1. QED
      BY <2>1 DEF Request
  <2> HIDE DEF q
  <2>4. QED
    BY <2>2, <2>3, <1>b
<1>4. ASSUME NEW a \in Users, NEW u \in Users, NEW v \in BOOLEAN, AcceptInvitation(c, a, u, v)
      PROVE  /\ RequestShape(c)' /\ Holding(c)' /\ Checked(c)' /\ req'[c].op # "create"
  <2> DEFINE w == Write("accept", a, u)
             q == [w EXCEPT !.valid = v]
  <2>1. w \in Request /\ w.op = "accept" /\ w.step = "actor" /\ w.actor = a /\ w.target = u
    BY WriteIs DEF Op
  <2>2. Begin(c, q) /\ standing # "none" /\ member[u].status # "none"
    BY <1>4, <1>e DEF AcceptInvitation
  <2>3. /\ q.op = "accept" /\ q.step = "actor" /\ q.actor = a /\ q.target = u
    <3> HIDE DEF w
    <3>1. QED
      BY <2>1 DEF Request
  <2> HIDE DEF q
  <2>4. QED
    BY <2>2, <2>3, <1>b
<1>5. ASSUME NEW a \in Users, NEW u \in Users, NEW p \in Patches, UpdateMembership(c, a, u, p)
      PROVE  /\ RequestShape(c)' /\ Holding(c)' /\ Checked(c)' /\ req'[c].op # "create"
  <2> DEFINE w == Write("update", a, u)
             q == [w EXCEPT !.role = p.role, !.status = p.status,
                         !.version = member[u].version]
  <2>1. w \in Request /\ w.op = "update" /\ w.step = "actor" /\ w.actor = a /\ w.target = u
    BY WriteIs DEF Op
  <2>2. Begin(c, q) /\ standing # "none" /\ member[u].status # "none"
    BY <1>5, <1>e DEF UpdateMembership
  <2>3. /\ q.op = "update" /\ q.step = "actor" /\ q.actor = a /\ q.target = u
    <3> HIDE DEF w
    <3>1. QED
      BY <2>1 DEF Request
  <2> HIDE DEF q
  <2>4. QED
    BY <2>2, <2>3, <1>b
<1>6. ASSUME NEW a \in Users, NEW u \in Users, LeaveOrganization(c, a, u)
      PROVE  /\ RequestShape(c)' /\ Holding(c)' /\ Checked(c)' /\ req'[c].op # "create"
  <2> DEFINE w == Write("leave", a, u)
             q == [w EXCEPT !.version = member[u].version]
  <2>1. w \in Request /\ w.op = "leave" /\ w.step = "actor" /\ w.actor = a /\ w.target = u
    BY WriteIs DEF Op
  <2>2. Begin(c, q) /\ standing # "none" /\ member[u].status # "none"
    BY <1>6, <1>e DEF LeaveOrganization
  <2>3. /\ q.op = "leave" /\ q.step = "actor" /\ q.actor = a /\ q.target = u
    <3> HIDE DEF w
    <3>1. QED
      BY <2>1 DEF Request
  <2> HIDE DEF q
  <2>4. QED
    BY <2>2, <2>3, <1>b
<1>7. QED
  BY <1>1, <1>2, <1>3, <1>4, <1>5, <1>6 DEF Arrival

LEMMA LockingMoves ==
  ASSUME LockInv, NEW c \in Clients, NEW step \in Step, LockThen(c, step), Locking(c)
  PROVE  /\ req'[c].step = step /\ req'[c].op = req[c].op /\ Actor(c)' = Actor(c)
         /\ Target(c)' = Target(c) /\ req'[c].role = req[c].role /\ req'[c].status = req[c].status
         /\ req'[c].version = req[c].version /\ req'[c].valid = req[c].valid
         /\ holder'[Wanted(c)] = c /\ \A r \in Rows : holder[r] = c => holder'[r] = c
         /\ UNCHANGED rowVars
<1> USE DEF LockInv
<1>1. Wanted(c) \in Rows
  BY WantedTyped
<1>2. req \in [Clients -> Request] /\ holder \in [Rows -> Clients \cup {None}]
  BY DEF TypeOK
<1>3. req'[c] = [req[c] EXCEPT !.step = step]
  BY <1>2 DEF LockThen
<1>4. req[c] \in Request
  BY <1>2
<1>5. /\ req'[c].step = step /\ req'[c].op = req[c].op /\ req'[c].actor = req[c].actor
      /\ req'[c].target = req[c].target /\ req'[c].role = req[c].role
      /\ req'[c].status = req[c].status /\ req'[c].version = req[c].version
      /\ req'[c].valid = req[c].valid
  BY <1>3, <1>4 DEF Request
<1>6. QED
  BY <1>1, <1>2, <1>5 DEF LockThen, Actor, Target

LEMMA LockStands ==
  ASSUME LockInv, NEW c \in Clients, Locks(c)
  PROVE  RequestShape(c)' /\ Holding(c)' /\ Checked(c)'
<1> USE DEF LockInv
<1>1. RequestShape(c) /\ Holding(c) /\ Checked(c)
  BY DEF RequestsShaped, RowsHeld, ChecksStand
<1>2. Locking(c)
  BY DEF Locks, LockActor, LockOrganization, LockOwn, LockInvited, LockUpdated, LockSeat,
     At, Locking
<1>3. Actor(c) \in Users /\ Target(c) \in Users
  BY <1>1, <1>2 DEF RequestShape
<1>s. ASSUME NEW step \in {"org", "own", "target", "seat"}, LockThen(c, step)
      PROVE  RequestShape(c)'
  <2>1. step \in Step
    BY DEF Step
  <2>2. QED
    BY <1>1, <1>2, <1>3, <1>s, <2>1, LockingMoves DEF RequestShape, Locking, rowVars
<1>r. RequestShape(c)'
  BY <1>s, LockingTaken
<1>4. CASE LockActor(c)
  <2> DEFINE Goes(step) ==
           /\ LockThen(c, step) /\ req[c].step = "actor"
           /\ \/ step = "org" /\ req[c].op \in {"invite", "update"}
              \/ step = "seat" /\ req[c].op \in {"accept", "leave"}
  <2>0. Goes("org") \/ Goes("seat")
    BY <1>4 DEF LockActor, At
  <2>1. PICK step \in {"org", "seat"} : Goes(step)
    BY <2>0
  <2>2. step \in Step
    BY DEF Step
  <2>3. Wanted(c) = UserRow(Actor(c))
    BY <2>1 DEF Wanted
  <2>4. Holding(c)'
    BY <1>2, <1>3, <2>1, <2>2, <2>3, LockingMoves DEF Holding, At
  <2>5. Checked(c)'
    BY <1>2, <2>1, <2>2, LockingMoves DEF Checked, At
  <2>6. QED
    BY <1>r, <2>4, <2>5
<1>5. CASE LockOrganization(c)
  <2>1. LockThen(c, "own") /\ At(c, {"invite", "update"}, "org") /\ "own" \in Step
    BY <1>5 DEF LockOrganization, Step
  <2>2. Wanted(c) = OrgRow
    BY <2>1 DEF Wanted, At
  <2>3. Holding(c)'
    BY <1>1, <1>2, <1>3, <2>1, <2>2, LockingMoves, RowsDistinct DEF Holding, At
  <2>4. Checked(c)'
    BY <1>2, <2>1, LockingMoves DEF Checked, At
  <2>5. QED
    BY <1>r, <2>3, <2>4
<1>6. CASE LockOwn(c)
  <2> DEFINE Goes(step) ==
           /\ LockThen(c, step) /\ req[c].step = "own"
           /\ \/ step = "target" /\ req[c].op = "invite"
              \/ step = "seat" /\ req[c].op = "update"
  <2>0. Goes("target") \/ Goes("seat")
    BY <1>6 DEF LockOwn, At
  <2>1. PICK step \in {"target", "seat"} : Goes(step)
    BY <2>0
  <2>2. step \in Step /\ Permitted(c)
    BY <1>6 DEF Step, LockOwn
  <2>3. Holding(c)'
    BY <1>1, <1>2, <1>3, <2>1, <2>2, LockingMoves, RowsDistinct DEF Holding, At
  <2>4. Entitled(c) /\ (req[c].op = "invite" /\ req[c].role = "owner" => Seat(Actor(c)) = "owner")
    BY <2>1, <2>2 DEF Permitted, Entitled, At
  <2>5. Entitled(c)' /\ Seat(Actor(c))' = Seat(Actor(c))
    BY <1>2, <2>1, <2>2, <2>4, LockingMoves DEF Entitled, Seat, rowVars
  <2>6. Checked(c)'
    BY <1>2, <2>1, <2>2, <2>4, <2>5, LockingMoves DEF Checked, At
  <2>7. QED
    BY <1>r, <2>3, <2>6
<1>7. CASE LockInvited(c)
  <2>1. /\ LockThen(c, "seat") /\ At(c, {"invite"}, "target")
        /\ "seat" \in Step /\ Target(c) \in enabled
    BY <1>7 DEF LockInvited, Step
  <2>2. Wanted(c) = UserRow(Target(c))
    BY <2>1 DEF Wanted, At
  <2>3. Holding(c)'
    BY <1>1, <1>2, <1>3, <2>1, <2>2, LockingMoves, RowsDistinct DEF Holding, At
  <2>4. Entitled(c)' /\ Seat(Actor(c))' = Seat(Actor(c)) /\ Target(c)' \in enabled'
    BY <1>1, <1>2, <2>1, LockingMoves DEF Checked, At, Entitled, Seat, rowVars
  <2>5. Checked(c)'
    BY <1>1, <1>2, <2>1, <2>4, LockingMoves DEF Checked, At
  <2>6. QED
    BY <1>r, <2>3, <2>5
<1>8. CASE LockUpdated(c)
  <2>1. LockThen(c, "target") /\ At(c, {"update"}, "seat") /\ "target" \in Step /\ Updatable(c)
    BY <1>8 DEF LockUpdated, Step
  <2>2. Wanted(c) = MemberRow(Target(c))
    BY <2>1 DEF Wanted, At
  <2>3. Holding(c)'
    BY <1>1, <1>2, <1>3, <2>1, <2>2, LockingMoves, RowsDistinct DEF Holding, At
  <2>4. Entitled(c)'
    BY <1>1, <1>2, <2>1, LockingMoves DEF Checked, At, Entitled, Seat, rowVars
  <2>5. Updatable(c)'
    BY <1>2, <2>1, LockingMoves DEF Updatable, RemovesActiveOwner, HasOtherOwner, Seat, NewRole,
       NewStatus, rowVars
  <2>6. Checked(c)'
    BY <1>2, <2>1, <2>4, <2>5, LockingMoves DEF Checked, At
  <2>7. QED
    BY <1>r, <2>3, <2>6
<1>9. CASE LockSeat(c)
  <2>1. /\ LockThen(c, "org") /\ "org" \in Step
        /\ \/ At(c, {"accept"}, "seat") /\ Acceptable(c)
           \/ At(c, {"leave"}, "seat") /\ Leavable(c)
    BY <1>9 DEF LockSeat, Step
  <2>2. Wanted(c) = MemberRow(Target(c))
    BY <2>1 DEF Wanted, At
  <2>3. Holding(c)'
    BY <1>1, <1>2, <1>3, <2>1, <2>2, LockingMoves, RowsDistinct DEF Holding, At
  <2>4. (Acceptable(c) => Acceptable(c)') /\ (Leavable(c) => Leavable(c)')
    BY <1>2, <2>1, LockingMoves DEF Acceptable, Leavable, OwnMembership, rowVars
  <2>5. Checked(c)'
    BY <1>2, <2>1, <2>4, LockingMoves DEF Checked, At
  <2>6. QED
    BY <1>r, <2>3, <2>5
<1>10. QED
  BY <1>4, <1>5, <1>6, <1>7, <1>8, <1>9 DEF Locks

-----------------------------------------------------------------------------
(* The lock invariant is inductive.                                        *)

LEMMA InitLockInv == Init => LockInv
<1> SUFFICES ASSUME Init PROVE LockInv
  OBVIOUS
<1>1. TypeOK
  BY InitTypeOK
<1>2. Founded
  BY DEF Init, Founded
<1>3. \A c \in Clients : req[c].op = "none" /\ req[c].step = "idle"
  BY DEF Init, NoRequest
<1>4. RequestsShaped /\ OneCreates /\ RowsHeld /\ ChecksStand
  BY <1>3 DEF RequestsShaped, RequestShape, OneCreates, RowsHeld, Holding, ChecksStand, Checked,
     Locking, At
<1>5. QED
  BY <1>1, <1>2, <1>4 DEF LockInv

\* After an end, a commit or a step of the cache the request holds no row.
LEMMA QuietSteps ==
  ASSUME LockInv, NEW c \in Clients, Refuses(c) \/ Commits(c) \/ Caches(c)
  PROVE  ~Locking(c)' /\ (req'[c].op = "create" => req[c].op = "create" /\ standing' = standing)
<1> USE DEF LockInv
<1>t. req \in [Clients -> Request]
  BY DEF TypeOK
<1>n. NoRequest.step = "idle" /\ NoRequest.op = "none"
  BY DEF NoRequest
<1>1. CASE Refuses(c)
  BY <1>1, <1>t, <1>n, RefusalEnds DEF End, Locking
<1>2. CASE Commits(c)
  <2>1. PICK users \in SUBSET Users : CommitThenDelete(c, users)
    BY <1>2, CommitEnds
  <2>2. req'[c].op = "invalidate" /\ req'[c].step = "delete"
    BY <2>1, <1>t DEF CommitThenDelete, NoRequest
  <2>3. QED
    BY <2>2 DEF Locking
<1>3. CASE Finish(c)
  BY <1>3, <1>t, <1>n DEF Finish, Locking
<1>4. CASE CacheMiss(c)
  <2>1. req'[c] = [req[c] EXCEPT !.step = "read"] /\ standing' = standing
    BY <1>4, <1>t DEF CacheMiss, rowVars
  <2>2. req'[c].step = "read" /\ req'[c].op = req[c].op
    BY <2>1, <1>t DEF Request
  <2>3. QED
    BY <2>1, <2>2 DEF Locking
<1>5. CASE ReadMemberships(c)
  <2>1. req'[c] = [req[c] EXCEPT !.step = "store", !.seat = Seat(Actor(c))] /\ standing' = standing
    BY <1>5, <1>t DEF ReadMemberships, rowVars
  <2>2. req'[c].step = "store" /\ req'[c].op = req[c].op
    BY <2>1, <1>t DEF Request
  <2>3. QED
    BY <2>1, <2>2 DEF Locking
<1>6. QED
  BY <1>1, <1>2, <1>3, <1>4, <1>5 DEF Caches, Invalidate, CacheHit, Store

LEMMA OwnStands ==
  ASSUME LockInv, NEW c \in Clients, Arrival(c) \/ ClientStep(c) \/ Crash(c)
  PROVE  /\ RequestShape(c)' /\ Holding(c)' /\ Checked(c)'
         /\ req'[c].op = "create" =>
              req[c].op = "create" \/ \A d \in Clients : req[d].op # "create"
<1> USE DEF LockInv
<1>1. CASE Arrival(c)
  BY <1>1, ArrivalStands
<1>2. CASE Locks(c)
  <2>1. PICK step \in {"org", "own", "target", "seat"} : LockThen(c, step)
    BY <1>2, LockingTaken
  <2>2. step \in Step
    BY DEF Step
  <2>3. Locking(c)
    BY <1>2 DEF Locks, LockActor, LockOrganization, LockOwn, LockInvited, LockUpdated, LockSeat,
       At, Locking
  <2>4. req'[c].op = req[c].op
    BY <2>1, <2>2, <2>3, LockingMoves
  <2>5. QED
    BY <1>2, <2>4, LockStands
<1>3. CASE Refuses(c) \/ Commits(c) \/ Caches(c)
  <2>1. req[c].op = "create" => standing = "none"
    BY DEF RequestsShaped, RequestShape
  <2>2. QED
    BY <1>3, <2>1, QuietSteps, QuietStands
<1>4. QED
  BY <1>1, <1>2, <1>3, StepKinds

LEMMA FoundedStays ==
  ASSUME LockInv, Next
  PROVE  Founded'
<1> USE DEF LockInv
<1>1. CASE UNCHANGED <<standing, member>>
  BY <1>1 DEF Founded
<1>2. CASE standing' # "none"
  BY <1>2 DEF Founded
<1>3. ASSUME NEW c \in Clients, Commits(c)
      PROVE  UNCHANGED <<standing, member>> \/ standing' # "none"
  BY <1>3, SeatRewrites DEF Commits, Creates, UpdateIdle, rowVars
<1>4. ASSUME NEW c \in Clients, Arrival(c) \/ ClientStep(c) \/ Crash(c)
      PROVE  UNCHANGED <<standing, member>> \/ standing' # "none"
  BY <1>3, <1>4, OtherSteps, StepKinds DEF rowVars
<1>5. Environment => UNCHANGED <<standing, member>> \/ standing' # "none"
  BY DEF Environment, Expire, AccountChanges, AccountReviewed, OrganizationReviewed, rowVars
<1>6. QED
  BY <1>1, <1>2, <1>4, <1>5 DEF Next

LEMMA NextTypeOK ==
  ASSUME LockInv, ProjectionsTimely, Next
  PROVE  TypeOK'
<1> USE DEF LockInv
<1>1. ASSUME NEW c \in Clients, Arrival(c) \/ ClientStep(c) \/ Crash(c) PROVE TypeOK'
  <2>1. CASE Arrival(c)
    BY <2>1, ArrivalTypeOK
  <2>2. CASE Refuses(c)
    BY <2>2, RefusalEnds, EndTypeOK
  <2>3. CASE Locks(c)
    <3>1. PICK step \in {"org", "own", "target", "seat"} : LockThen(c, step)
      BY <2>3, LockingTaken
    <3>2. step \in Step
      BY DEF Step
    <3>3. QED
      BY <3>1, <3>2, LockTypeOK
  <2>4. CASE Commits(c)
    BY <2>4, CommitTypeOK
  <2>5. CASE Caches(c)
    BY <2>5, CacheTypeOK
  <2>6. QED
    BY <1>1, <2>1, <2>2, <2>3, <2>4, <2>5, StepKinds
<1>2. QED
  BY <1>1, EnvironmentTypeOK DEF Next

LEMMA LockInvStays ==
  ASSUME LockInv, ProjectionsTimely, Next
  PROVE  LockInv'
<1>1. TypeOK' /\ Founded'
  BY NextTypeOK, FoundedStays
<1>2. ASSUME NEW c \in Clients, Arrival(c) \/ ClientStep(c) \/ Crash(c)
      PROVE  RequestsShaped' /\ OneCreates' /\ RowsHeld' /\ ChecksStand'
  <2>1. \A d \in Clients \ {c} : Kept(d) /\ RequestShape(d)' /\ Holding(d)' /\ Checked(d)'
    BY <1>2, OthersKeep, OthersStand
  <2>2. RequestShape(c)' /\ Holding(c)' /\ Checked(c)'
    BY <1>2, OwnStands
  <2>3. \A d \in Clients \ {c} : req'[d] = req[d]
    BY <2>1 DEF Kept
  <2>4. OneCreates'
    BY <1>2, <2>3, OwnStands DEF LockInv, OneCreates
  <2>5. QED
    BY <2>1, <2>2, <2>4 DEF RequestsShaped, RowsHeld, ChecksStand
<1>3. ASSUME Environment
      PROVE  RequestsShaped' /\ OneCreates' /\ RowsHeld' /\ ChecksStand'
  <2>1. \A d \in Clients : Kept(d) /\ RequestShape(d)' /\ Holding(d)' /\ Checked(d)'
    BY <1>3, EnvironmentKeeps, OthersStand
  <2>2. OneCreates'
    BY <2>1 DEF Kept, LockInv, OneCreates
  <2>3. QED
    BY <2>1, <2>2 DEF RequestsShaped, RowsHeld, ChecksStand
<1>4. QED
  BY <1>1, <1>2, <1>3 DEF Next, LockInv

-----------------------------------------------------------------------------
(* The last owner.                                                         *)

LEMMA OwnersStay ==
  ASSUME LockInv, ActiveOwner, Next
  PROVE  ActiveOwner'
<1> USE DEF LockInv
<1>1. CASE UNCHANGED member /\ (standing = "none" => standing' = "none")
  BY <1>1 DEF ActiveOwner, Owners, Seat
<1>2. ASSUME NEW c \in Clients, Creates(c) PROVE ActiveOwner'
  <2>1. Actor(c) \in Users
    BY <1>2, CreateRewrites
  <2>2. member'[Actor(c)] = [status |-> "active", role |-> "owner", version |-> 1]
    BY <1>2, <2>1 DEF Creates, TypeOK
  <2>3. Actor(c) \in Owners'
    BY <2>1, <2>2 DEF Owners, Seat
  <2>4. QED
    BY <2>3 DEF ActiveOwner
<1>3. ASSUME NEW c \in Clients, Invites(c) \/ Updates(c) \/ Accepts(c) \/ Leaves(c)
      PROVE  ActiveOwner'
  <2>1. Target(c) \in Users /\ Rewrites(Target(c)) /\ standing # "none"
    BY <1>3, SeatRewrites
  <2>2. \A o \in Users \ {Target(c)} : Seat(o)' = Seat(o)
    BY <2>1 DEF Rewrites, Seat
  <2>3. PICK o \in Users : Seat(o) = "owner"
    BY <2>1 DEF ActiveOwner, Owners
  <2>4. CASE Seat(Target(c)) # "owner"
    BY <2>2, <2>3, <2>4 DEF ActiveOwner, Owners
  <2>5. CASE Seat(Target(c)) = "owner" /\ HasOtherOwner(Target(c))
    BY <2>2, <2>5 DEF ActiveOwner, Owners, HasOtherOwner
  <2>6. CASE Seat(Target(c)) = "owner" /\ ~HasOtherOwner(Target(c))
    <3>1. member[Target(c)].status = "active" /\ member[Target(c)].role = "owner"
      BY <2>6, DealersAssumption DEF Seat, Roles
    <3>2. ~Invites(c) /\ ~Leaves(c)
      BY <2>6, <3>1 DEF Invites, Leaves
    <3>3. ~Accepts(c)
      BY <3>1 DEF Accepts, ChecksStand, Checked, At, Acceptable
    <3>4. Updates(c) /\ Updatable(c)
      BY <1>3, <3>2, <3>3 DEF Updates, ChecksStand, Checked, At
    <3>5. NewRole(c) = "owner" /\ req[c].status \notin {"suspended", "revoked"}
      BY <2>6, <3>4 DEF Updatable, RemovesActiveOwner
    <3>6. NewStatus(c) = "active"
      BY <3>1, <3>5 DEF NewStatus, TypeOK, Request
    <3>7. member'[Target(c)].status = "active" /\ member'[Target(c)].role = "owner"
      BY <2>1, <3>4, <3>5, <3>6 DEF Updates, TypeOK
    <3>8. Target(c) \in Owners'
      BY <2>1, <3>7 DEF Owners, Seat
    <3>9. QED
      BY <3>8 DEF ActiveOwner
  <2>7. QED
    BY <2>4, <2>5, <2>6
<1>4. ASSUME NEW c \in Clients, Arrival(c) \/ ClientStep(c) \/ Crash(c) PROVE ActiveOwner'
  BY <1>1, <1>2, <1>3, <1>4, OtherSteps, StepKinds DEF Commits, rowVars
<1>5. Environment => ActiveOwner'
  BY <1>1 DEF Environment, Expire, AccountChanges, AccountReviewed, OrganizationReviewed, rowVars
<1>6. QED
  BY <1>4, <1>5 DEF Next

-----------------------------------------------------------------------------
(* The cache.                                                              *)

\* u's seat stays, or it joins the seats of earlier versions.
Grows(u) ==
    \/ past'[u] = past[u] /\ Seat(u)' = Seat(u)
    \/ past'[u] = Append(past[u], Seat(u))

LEMMA SeatsGrow ==
  ASSUME TypeOK, NEW u \in Users, Grows(u), NEW v \in 1 .. Version(u)
  PROVE  v \in 1 .. Version(u)' /\ SeatsSince(u, v) \subseteq SeatsSince(u, v)'
<1>1. past[u] \in Seq(Seats) /\ Seat(u) \in Seats
  BY SeatTyped DEF TypeOK
<1>2. CASE past'[u] = past[u] /\ Seat(u)' = Seat(u)
  BY <1>2 DEF Version, SeatsSince
<1>3. CASE past'[u] = Append(past[u], Seat(u))
  <2>1. /\ Len(past'[u]) = Len(past[u]) + 1 /\ Len(past[u]) \in Nat
        /\ \A w \in 1 .. Len(past[u]) : past'[u][w] = past[u][w]
        /\ past'[u][Len(past[u]) + 1] = Seat(u)
    BY <1>1, <1>3, AppendProperties
  <2>2. v \in 1 .. Version(u)'
    BY <2>1 DEF Version
  <2>3. \A w \in v .. Len(past[u]) : past[u][w] \in SeatsSince(u, v)'
    BY <2>1 DEF Version, SeatsSince
  <2>4. Seat(u) \in SeatsSince(u, v)'
    BY <2>1 DEF Version, SeatsSince
  <2>5. QED
    BY <2>2, <2>3, <2>4 DEF SeatsSince
<1>4. QED
  BY <1>2, <1>3 DEF Grows

LEMMA NextGrows ==
  ASSUME LockInv, Next, NEW u \in Users
  PROVE  Grows(u)
<1> USE DEF LockInv
<1>1. CASE UNCHANGED <<member, past>>
  BY <1>1 DEF Grows, Seat
<1>2. ASSUME NEW w \in Users, Rewrites(w) PROVE Grows(u)
  <2>1. past' = [past EXCEPT ![w] = Append(past[w], Seat(w))]
    BY <1>2 DEF Rewrites, Bump, TypeOK
  <2>2. CASE u = w
    BY <2>1, <2>2 DEF Grows, TypeOK
  <2>3. CASE u # w
    BY <1>2, <2>1, <2>3 DEF Grows, TypeOK, Seat, Rewrites
  <2>4. QED
    BY <2>2, <2>3
<1>3. ASSUME NEW c \in Clients, Arrival(c) \/ ClientStep(c) \/ Crash(c) PROVE Grows(u)
  BY <1>1, <1>2, <1>3, OtherSteps, StepKinds, CreateRewrites, SeatRewrites DEF Commits, rowVars
<1>4. ASSUME NEW w \in Users, AccountChanges(w) PROVE Grows(u)
  <2>1. past' = [past EXCEPT ![w] = Append(past[w], Seat(w))] /\ member' = member
    BY <1>4 DEF AccountChanges, Bump, TypeOK
  <2>2. QED
    BY <2>1 DEF Grows, TypeOK, Seat
<1>5. QED
  BY <1>1, <1>3, <1>4 DEF Next, Environment, Expire, AccountReviewed, OrganizationReviewed, rowVars

\* What c has read is still timely after a step of any other client.
LEMMA ReadingStays ==
  ASSUME LockInv, Next, NEW d \in Clients, Projecting(d), req'[d] = req[d]
  PROVE  Projecting(d)'
<1>1. SUFFICES ASSUME req[d].step \in {"cache", "read", "store"} PROVE Projecting(d)'
  BY DEF Projecting
<1>2. Actor(d) \in Users /\ req[d].version \in 1 .. Version(Actor(d))
  BY <1>1 DEF Projecting
<1>3. Grows(Actor(d))
  BY <1>2, NextGrows
<1>4. /\ req[d].version \in 1 .. Version(Actor(d))'
      /\ SeatsSince(Actor(d), req[d].version) \subseteq SeatsSince(Actor(d), req[d].version)'
  <2> DEFINE a == Actor(d)
             v == req[d].version
  <2>1. a \in Users /\ v \in 1 .. Version(a) /\ Grows(a)
    BY <1>2, <1>3
  <2>2. a' = a /\ v' = v
    BY DEF Actor
  <2>3. v \in 1 .. Len(past'[a]) + 1
    BY <2>1, SeatsGrow DEF LockInv, Version
  <2>5. QED
    BY <2>1, <2>2, <2>3, SeatsGrow DEF LockInv
<1>5. QED
  BY <1>1, <1>2, <1>4 DEF Projecting, Actor

LEMMA OwnReading ==
  ASSUME LockInv, Next, NEW c \in Clients, Projecting(c), Arrival(c) \/ ClientStep(c) \/ Crash(c)
  PROVE  Projecting(c)'
<1> USE DEF LockInv
<1>t. req \in [Clients -> Request] /\ NoRequest.step = "idle"
  BY DEF TypeOK, NoRequest
<1>1. CASE Refuses(c) \/ Finish(c)
  BY <1>1, <1>t, RefusalEnds DEF End, Finish, Projecting
<1>2. CASE Locks(c)
  <2>1. Locking(c)'
    <3>1. PICK step \in {"org", "own", "target", "seat"} : LockThen(c, step)
      BY <1>2, LockingTaken
    <3>2. req'[c].step = step
      <4>1. req'[c] = [req[c] EXCEPT !.step = step]
        BY <3>1, <1>t DEF LockThen
      <4>2. QED
        BY <4>1, <1>t DEF Request
    <3>3. QED
      BY <3>2 DEF Locking
  <2>2. QED
    BY <2>1 DEF Locking, Projecting
<1>3. CASE Commits(c)
  <2>1. PICK users \in SUBSET Users : CommitThenDelete(c, users)
    BY <1>3, CommitEnds
  <2>2. req'[c].step = "delete"
    BY <2>1, <1>t DEF CommitThenDelete, NoRequest
  <2>3. QED
    BY <2>2 DEF Projecting
<1>4. CASE CacheMiss(c)
  <2>1. req'[c] = [req[c] EXCEPT !.step = "read"] /\ UNCHANGED rowVars /\ req[c].step = "cache"
    BY <1>4, <1>t DEF CacheMiss
  <2>2. req'[c].step = "read" /\ req'[c].actor = req[c].actor /\ req'[c].version = req[c].version
    BY <2>1, <1>t DEF Request
  <2>3. QED
    BY <2>1, <2>2 DEF Projecting, Actor, Version, rowVars
<1>5. CASE ReadMemberships(c)
  <2>1. /\ req'[c] = [req[c] EXCEPT !.step = "store", !.seat = Seat(Actor(c))]
        /\ UNCHANGED rowVars /\ req[c].step = "read"
    BY <1>5, <1>t DEF ReadMemberships
  <2>2. /\ req'[c].step = "store" /\ req'[c].actor = req[c].actor
        /\ req'[c].version = req[c].version /\ req'[c].seat = Seat(Actor(c))
    BY <2>1, <1>t DEF Request
  <2>3. QED
    BY <2>1, <2>2 DEF Projecting, Actor, Version, rowVars, SeatsSince, Seat
<1>6. CASE Arrival(c)
  <2>1. ASSUME NEW a \in Users, GetCapabilities(c, a) PROVE Projecting(c)'
    <3>1. /\ req'[c].step = "cache" /\ req'[c].actor = a /\ req'[c].version = Version(a)
          /\ UNCHANGED rowVars
      BY <2>1, <1>t DEF GetCapabilities, Begin, NoRequest
    <3>2. Version(a) \in Nat \ {0} /\ Version(a)' = Version(a)
      BY <3>1, SeatTyped DEF Version, rowVars
    <3>3. QED
      BY <3>1, <3>2 DEF Projecting, Actor
  <2>2. ASSUME req'[c].step = "actor" PROVE Projecting(c)'
    BY <2>2 DEF Projecting
  <2>3. ASSUME NEW op \in Op, NEW a \in Users, NEW u \in Users
        PROVE  Write(op, a, u) \in Request /\ Write(op, a, u).step = "actor"
    BY WriteIs
  <2>4. ASSUME NEW w \in Request, w.step = "actor", NEW ro, NEW st, NEW v,
               \/ Begin(c, w) \/ Begin(c, [w EXCEPT !.role = ro]) \/ Begin(c, [w EXCEPT !.valid = v])
               \/ Begin(c, [w EXCEPT !.version = v])
               \/ Begin(c, [w EXCEPT !.role = ro, !.status = st, !.version = v])
        PROVE  req'[c].step = "actor"
    BY ZenonT(30), <2>4, <1>t DEF Begin, Request
  <2>5. {"create", "invite", "accept", "update", "leave"} \subseteq Op
    BY DEF Op
  <2>6. QED
    BY ZenonT(30), <1>6, <2>1, <2>2, <2>3, <2>4, <2>5 DEF Arrival, CreateOrganization, InviteMember,
       AcceptInvitation, UpdateMembership, LeaveOrganization
<1>7. QED
  BY <1>1, <1>2, <1>3, <1>4, <1>5, <1>6, StepKinds DEF Caches, Invalidate, CacheHit, Store

LEMMA ProjectionsStay ==
  ASSUME LockInv, ProjectionsTimely, Next
  PROVE  ProjectionsTimely'
<1>1. ASSUME NEW c \in Clients, Arrival(c) \/ ClientStep(c) \/ Crash(c), NEW d \in Clients
      PROVE  Projecting(d)'
  BY <1>1, StepIsOwn, OwnReading, ReadingStays DEF ProjectionsTimely
<1>2. ASSUME Environment, NEW d \in Clients PROVE Projecting(d)'
  BY <1>2, EnvironmentKeeps, ReadingStays DEF ProjectionsTimely, Kept
<1>3. QED
  BY <1>1, <1>2 DEF Next, ProjectionsTimely

\* An entry is as it was, gone, or what a projecting request stores.
LEMMA EntriesCome ==
  ASSUME LockInv, ProjectionsTimely, Next, NEW u \in Users, cache'[u] # None, cache'[u] # cache[u]
  PROVE  /\ UNCHANGED rowVars
         /\ cache'[u].version \in 1 .. Version(u)
         /\ cache'[u].seat \in SeatsSince(u, cache'[u].version)
<1> USE DEF LockInv
<1>t. cache \in [Users -> Entry \cup {None}]
  BY DEF TypeOK
<1>1. ASSUME NEW c \in Clients, Arrival(c) \/ Refuses(c) \/ Locks(c) \/ Commits(c)
      PROVE  cache' = cache
  <2>1. Refuses(c) => cache' = cache
    BY RefusalEnds DEF End
  <2>2. Locks(c) => cache' = cache
    BY LockingTaken DEF LockThen
  <2>3. Commits(c) => cache' = cache
    BY CommitEnds DEF CommitThenDelete
  <2>4. Arrival(c) => cache' = cache
    BY ZenonT(30) DEF Arrival, CreateOrganization, GetCapabilities, InviteMember, AcceptInvitation,
       UpdateMembership, LeaveOrganization, Begin
  <2>5. QED
    BY <1>1, <2>1, <2>2, <2>3, <2>4
<1>2. ASSUME NEW c \in Clients, Invalidate(c) \/ CacheHit(c) \/ CacheMiss(c) \/ ReadMemberships(c)
      PROVE  cache'[u] \in {None, cache[u]}
  BY <1>2, <1>t DEF Invalidate, CacheHit, CacheMiss, ReadMemberships
<1>3. Environment => cache'[u] \in {None, cache[u]}
  BY <1>t DEF Environment, Expire, AccountChanges, AccountReviewed, OrganizationReviewed
<1>4. PICK c \in Clients : Store(c)
  BY <1>1, <1>2, <1>3, StepKinds DEF Next, Caches
<1>5. cache' = [cache EXCEPT ![Actor(c)] = [version |-> req[c].version, seat |-> req[c].seat]]
  BY <1>4 DEF Store
<1>6. u = Actor(c) /\ cache'[u] = [version |-> req[c].version, seat |-> req[c].seat]
  BY <1>5, <1>t
<1>7. Projecting(c) /\ req[c].step = "store" /\ UNCHANGED rowVars
  BY <1>4 DEF ProjectionsTimely, Store, Finish
<1>8. QED
  BY <1>6, <1>7 DEF Projecting

LEMMA CacheStays ==
  ASSUME LockInv, ProjectionsTimely, CacheNotStale, Next
  PROVE  CacheNotStale'
<1> USE DEF LockInv
<1>1. SUFFICES ASSUME NEW u \in Users, cache'[u] # None
               PROVE  /\ cache'[u].version \in 1 .. Version(u)'
                      /\ cache'[u].seat \in {past'[u][w] : w \in cache'[u].version .. Len(past'[u])}
                                             \cup {Seat(u)'}
  BY DEF CacheNotStale, SeatsSince
<1>2. /\ cache'[u].version \in 1 .. Version(u)
      /\ cache'[u].seat \in SeatsSince(u, cache'[u].version)
  <2>1. CASE cache'[u] = cache[u]
    BY <1>1, <2>1 DEF CacheNotStale
  <2>2. CASE cache'[u] # cache[u]
    BY <1>1, <2>2, EntriesCome
  <2>3. QED
    BY <2>1, <2>2
<1>3. PICK v \in 1 .. Version(u) : v = cache'[u].version
  BY <1>2
<1>4. v \in 1 .. Version(u)' /\ SeatsSince(u, v) \subseteq SeatsSince(u, v)'
  BY NextGrows, SeatsGrow
<1>5. SeatsSince(u, v)' = {past'[u][w] : w \in v .. Len(past'[u])} \cup {Seat(u)'}
  BY DEF SeatsSince
<1>6. QED
  BY <1>2, <1>3, <1>4, <1>5

-----------------------------------------------------------------------------
(* The theorems.                                                           *)

LEMMA InitInv == Init => DealersInv
<1> SUFFICES ASSUME Init PROVE DealersInv
  OBVIOUS
<1>1. LockInv
  BY InitLockInv
<1>2. ActiveOwner
  BY DEF Init, ActiveOwner
<1>3. CacheNotStale
  BY DEF Init, CacheNotStale
<1>4. ProjectionsTimely
  BY DEF Init, NoRequest, ProjectionsTimely, Projecting
<1>5. QED
  BY <1>1, <1>2, <1>3, <1>4 DEF DealersInv

LEMMA Stutters == DealersInv /\ UNCHANGED vars => DealersInv'
<1> SUFFICES ASSUME DealersInv, UNCHANGED vars PROVE DealersInv'
  OBVIOUS
<1> USE DEF vars, rowVars
<1>1. TypeOK' /\ Founded' /\ OneCreates' /\ ActiveOwner'
  BY DEF DealersInv, LockInv, TypeOK, Founded, OneCreates, ActiveOwner, Owners, Seat
<1>2. RequestsShaped' /\ RowsHeld'
  BY DEF DealersInv, LockInv, RequestsShaped, RequestShape, RowsHeld, Holding, At, Locking,
     Actor, Target
<1>3. ChecksStand'
  BY DEF DealersInv, LockInv, ChecksStand, Checked, At, Actor, Target, Entitled, Updatable,
     RemovesActiveOwner, HasOtherOwner, NewRole, NewStatus, Seat, Acceptable, Leavable,
     OwnMembership
<1>4. CacheNotStale' /\ ProjectionsTimely'
  BY DEF DealersInv, CacheNotStale, ProjectionsTimely, Projecting, SeatsSince, Version, Seat,
     Actor
<1>5. QED
  BY <1>1, <1>2, <1>3, <1>4 DEF DealersInv, LockInv

\* What a request has checked stands until it commits, and what is cached is
\* timely: the induction the theorems below rest on.
THEOREM Invariant == Spec => []DealersInv
<1>1. DealersInv /\ [Next]_vars => DealersInv'
  BY LockInvStays, OwnersStay, ProjectionsStay, CacheStays, Stutters DEF DealersInv
<1>2. QED
  BY <1>1, InitInv, PTL DEF Spec

\* Rows, cache entries, locks and requests keep their types, for any number
\* of users and requests.
THEOREM TypeCorrect == Spec => []TypeOK
<1>1. DealersInv => TypeOK
  BY DEF DealersInv, LockInv
<1>2. QED
  BY <1>1, Invariant, PTL

\* Whatever memberships are changed and left at once, in whatever order the
\* rows are locked, the organization keeps an active owner.
THEOREM OwnerRemains == Spec => []ActiveOwner
<1>1. DealersInv => ActiveOwner
  BY DEF DealersInv
<1>2. QED
  BY <1>1, Invariant, PTL

\* Capabilities computed from reads before and after a membership change are
\* never cached under a version that should not see them.
THEOREM CacheTimely == Spec => []CacheNotStale
<1>1. DealersInv => CacheNotStale
  BY DEF DealersInv
<1>2. QED
  BY <1>1, Invariant, PTL

-----------------------------------------------------------------------------
(* The refinement of DealerSeats.                                          *)

LEMMA MapsRewrite ==
  ASSUME TypeOK, NEW u \in Users, Rewrites(u)
  PROVE  /\ [v \in Users |-> member[v].status]'
              = [[v \in Users |-> member[v].status] EXCEPT ![u] = member'[u].status]
         /\ [v \in Users |-> member[v].role]'
              = [[v \in Users |-> member[v].role] EXCEPT ![u] = member'[u].role]
         /\ enabled' = enabled
  BY DEF Rewrites

LEMMA MovesKeepsRole ==
  ASSUME TypeOK, NEW c \in Clients, Target(c) \in Users, NEW s, Moves(c, s)
  PROVE  /\ member'[Target(c)].status = s
         /\ member'[Target(c)].role = member[Target(c)].role
<1> DEFINE m == member[Target(c)]
           n == member[Target(c)].version + 1
<1>1. m \in Member
  BY DEF TypeOK
<1>2. member'[Target(c)] = [m EXCEPT !.status = s, !.version = n]
  BY DEF Moves, TypeOK
<1>3. DOMAIN m = {"status", "role", "version"}
  <2> HIDE DEF m
  <2>1. m = NoMember \/ m \in [status : MemberStatus \ {"none"}, role : Roles, version : Nat]
    BY <1>1 DEF Member
  <2>2. DOMAIN NoMember = {"status", "role", "version"}
    BY DEF NoMember
  <2>3. QED
    BY <2>1, <2>2
<1> HIDE DEF m, n
<1>4. member'[Target(c)].status = s /\ member'[Target(c)].role = m.role
  BY <1>2, <1>3
<1>5. QED
  BY <1>4 DEF m

LEMMA SeatMeans ==
  ASSUME NEW u \in Users, NEW r \in Roles
  PROVE  Seat(u) = r <=> member[u].status = "active" /\ member[u].role = r
  BY DealersAssumption DEF Seat

LEMMA InviteImplemented ==
  ASSUME LockInv, NEW c \in Clients, Invites(c),
         NEW a, NEW u, NEW r, a = Actor(c), u = Target(c), r = req[c].role
  PROVE  Atomic!Invite(a, u, r)
<1> USE DEF LockInv
<1>1. Target(c) \in Users /\ Rewrites(Target(c)) /\ standing' = standing
  BY SeatRewrites
<1>2. Actor(c) \in Users /\ req[c].role \in Roles
  BY DEF RequestsShaped, RequestShape, Invites, At, Locking
<1>3. Entitled(c) /\ Target(c) \in enabled /\ (req[c].role = "owner" => Seat(Actor(c)) = "owner")
  BY DEF ChecksStand, Checked, Invites, At
<1>4. Atomic!May(a, {r})
  BY <1>2, <1>3, SeatMeans DEF Entitled, Atomic!May, Atomic!Managers, Roles
<1>5. /\ member[Target(c)].status = "none"
      /\ member'[Target(c)].status = "invited" /\ member'[Target(c)].role = req[c].role
  BY <1>1 DEF Invites, TypeOK
<1>6. QED
  BY <1>1, <1>3, <1>4, <1>5, MapsRewrite DEF Atomic!Invite

LEMMA AcceptImplemented ==
  ASSUME LockInv, NEW c \in Clients, Accepts(c), NEW u, u = Target(c)
  PROVE  Atomic!Accept(u)
<1> USE DEF LockInv
<1>1. Target(c) \in Users /\ Rewrites(Target(c)) /\ standing # "none" /\ standing' = standing
  BY SeatRewrites
<1>2. standing \in {"unverified", "verified"}
  BY <1>1 DEF Accepts, TypeOK, Standing
<1>3. Acceptable(c)
  BY DEF ChecksStand, Checked, Accepts, At
<1>4. member'[Target(c)].status = "active" /\ member'[Target(c)].role = member[Target(c)].role
  BY <1>1, MovesKeepsRole DEF Accepts
<1>5. [v \in Users |-> member[v].role]' = [v \in Users |-> member[v].role]
  BY <1>1, <1>4 DEF Rewrites
<1>6. QED
  BY <1>1, <1>2, <1>3, <1>4, <1>5, MapsRewrite DEF Atomic!Accept, Acceptable, OwnMembership

LEMMA LeaveImplemented ==
  ASSUME LockInv, NEW c \in Clients, Leaves(c), NEW u, u = Target(c)
  PROVE  Atomic!Leave(u)
<1> USE DEF LockInv
<1>1. Target(c) \in Users /\ Rewrites(Target(c)) /\ standing' = standing
  BY SeatRewrites
<1>2. Leavable(c)
  BY DEF ChecksStand, Checked, Leaves, At
<1>3. member'[Target(c)].status = "left" /\ member'[Target(c)].role = member[Target(c)].role
  BY <1>1, MovesKeepsRole DEF Leaves
<1>4. [v \in Users |-> member[v].role]' = [v \in Users |-> member[v].role]
  BY <1>1, <1>3 DEF Rewrites
<1>5. Atomic!Owners # {Target(c)}
  BY <1>1, SeatMeans DEF Leaves, HasOtherOwner, Atomic!Owners, Roles
<1>6. QED
  BY <1>1, <1>2, <1>3, <1>4, <1>5, MapsRewrite DEF Atomic!Leave, Leavable, OwnMembership

LEMMA UpdateImplemented ==
  ASSUME LockInv, NEW c \in Clients, Updates(c),
         NEW a, NEW u, NEW r, NEW s,
         a = Actor(c), u = Target(c), r = NewRole(c), s = NewStatus(c)
  PROVE  /\ Atomic!Change(a, u, r, s)
         /\ NewRole(c) \in Roles /\ NewStatus(c) \in MemberStatus \ {"none"}
<1> USE DEF LockInv
<1>1. Target(c) \in Users /\ Rewrites(Target(c)) /\ standing' = standing
  BY SeatRewrites
<1>2. Actor(c) \in Users /\ member[Target(c)].status # "none"
  BY DEF RequestsShaped, RequestShape, Updates, At, Locking
<1>3. Entitled(c) /\ Updatable(c)
  BY DEF ChecksStand, Checked, Updates, At
<1>4. member[Target(c)] \in [status : MemberStatus \ {"none"}, role : Roles, version : Nat]
  BY <1>1, <1>2 DEF TypeOK, Member, NoMember
<1>5. NewRole(c) \in Roles /\ NewStatus(c) \in MemberStatus \ {"none"}
  BY <1>4 DEF NewRole, NewStatus, TypeOK, Request, Seats, MemberStatus
<1>6. member'[Target(c)].status = NewStatus(c) /\ member'[Target(c)].role = NewRole(c)
  BY <1>1 DEF Updates, TypeOK
<1>7. Atomic!May(a, {member[Target(c)].role, r})
  <2>1. "owner" \in {member[Target(c)].role, NewRole(c)} => member[Actor(c)].role = "owner"
    BY <1>3 DEF Updatable, NewRole
  <2>2. QED
    BY <1>2, <1>3, <2>1, SeatMeans DEF Entitled, Atomic!May, Atomic!Managers, Roles
<1>8. NewStatus(c) # member[Target(c)].status =>
        <<member[Target(c)].status, NewStatus(c)>> \in
          {<<"active", "suspended">>, <<"suspended", "active">>} \cup
          ({"active", "suspended", "invited"} \X {"revoked"})
  BY <1>3 DEF Updatable, Transition
<1>9. Target(c) \in Atomic!Owners =>
        (NewRole(c) = "owner" /\ NewStatus(c) = "active") \/ Atomic!Owners # {Target(c)}
  <2> SUFFICES ASSUME member[Target(c)].status = "active", member[Target(c)].role = "owner"
               PROVE  (NewRole(c) = "owner" /\ NewStatus(c) = "active") \/ Atomic!Owners # {Target(c)}
    BY <1>1 DEF Atomic!Owners
  <2>1. Seat(Target(c)) = "owner"
    BY DEF Seat
  <2>2. CASE RemovesActiveOwner(c)
    BY <1>1, <1>3, <2>2, SeatMeans DEF Updatable, HasOtherOwner, Atomic!Owners, Roles
  <2>3. CASE ~RemovesActiveOwner(c)
    BY <2>1, <2>3 DEF RemovesActiveOwner, NewStatus, TypeOK, Request
  <2>4. QED
    BY <2>2, <2>3
<1>10. QED
  BY <1>1, <1>2, <1>5, <1>6, <1>7, <1>8, <1>9, MapsRewrite DEF Atomic!Change

LEMMA CreateImplemented ==
  ASSUME LockInv, NEW c \in Clients, Creates(c), NEW a, a = Actor(c)
  PROVE  Atomic!Found(a)
<1> USE DEF LockInv
<1>1. Actor(c) \in Users /\ Rewrites(Actor(c))
  BY CreateRewrites
<1>2. standing = "none"
  BY DEF Creates, At, RequestsShaped, RequestShape
<1>3. member'[Actor(c)].status = "active" /\ member'[Actor(c)].role = "owner"
  BY <1>1 DEF Creates, TypeOK
<1>4. QED
  BY <1>1, <1>2, <1>3, MapsRewrite DEF Atomic!Found, Creates

LEMMA StepImplemented ==
  ASSUME LockInv, [Next]_vars
  PROVE  [Atomic!Next]_Atomic!vars
<1>1. CASE UNCHANGED <<standing, enabled, member>>
  BY <1>1 DEF Atomic!vars
<1>2. ASSUME NEW c \in Clients, Commits(c) PROVE Atomic!Next \/ UNCHANGED rowVars
  <2>1. CASE Creates(c)
    <3>1. PICK a \in Users : a = Actor(c)
      BY <2>1, CreateRewrites DEF LockInv
    <3>2. QED
      BY <2>1, <3>1, CreateImplemented DEF Atomic!Next
  <2>2. CASE Invites(c)
    <3>1. PICK a \in Users, u \in Users, r \in Roles :
                a = Actor(c) /\ u = Target(c) /\ r = req[c].role
      BY <2>2 DEF LockInv, RequestsShaped, RequestShape, Invites, At, Locking
    <3>2. QED
      BY <2>2, <3>1, InviteImplemented DEF Atomic!Next
  <2>3. CASE Accepts(c) \/ Leaves(c)
    <3>1. PICK u \in Users : u = Target(c)
      BY <2>3, SeatRewrites DEF LockInv
    <3>2. QED
      BY <2>3, <3>1, AcceptImplemented, LeaveImplemented DEF Atomic!Next
  <2>4. CASE Updates(c)
    <3>1. PICK a \in Users, u \in Users : a = Actor(c) /\ u = Target(c)
      BY <2>4 DEF LockInv, RequestsShaped, RequestShape, Updates, At, Locking
    <3>2. NewRole(c) \in Roles /\ NewStatus(c) \in MemberStatus \ {"none"}
      BY <2>4, UpdateImplemented
    <3>3. PICK r \in Roles, s \in {"invited", "active", "suspended", "left", "revoked"} :
                r = NewRole(c) /\ s = NewStatus(c)
      BY <3>2 DEF MemberStatus
    <3>4. QED
      BY <2>4, <3>1, <3>3, UpdateImplemented DEF Atomic!Next
  <2>5. QED
    BY <1>2, <2>1, <2>2, <2>3, <2>4 DEF Commits, UpdateIdle
<1>3. ASSUME NEW c \in Clients, Arrival(c) \/ ClientStep(c) \/ Crash(c)
      PROVE  Atomic!Next \/ UNCHANGED rowVars
  BY <1>2, <1>3, OtherSteps, StepKinds DEF LockInv
<1>4. ASSUME NEW u \in Users, AccountReviewed(u) PROVE Atomic!Next
  <2>1. enabled' \in SUBSET Users /\ UNCHANGED <<standing, member>>
    BY <1>4 DEF AccountReviewed, LockInv, TypeOK
  <2>2. QED
    BY <2>1 DEF Atomic!Next, Atomic!Review
<1>5. ASSUME NEW s \in Standing, OrganizationReviewed(s) PROVE Atomic!Next
  BY <1>5 DEF OrganizationReviewed, Standing, Atomic!Next, Atomic!Review
<1>6. QED
  BY <1>1, <1>3, <1>4, <1>5 DEF Next, Environment, Expire, AccountChanges, vars, rowVars

LEMMA InitImplemented == Init => Atomic!Init
  BY DEF Init, NoMember, Atomic!Init

\* The transactions, which lock rows one by one, change memberships only as
\* the one-step operations of DealerSeats do.
THEOREM ImplementsDealerSeats == Spec => AtomicSpec
<1>1. DealersInv => LockInv
  BY DEF DealersInv
<1>2. QED
  BY <1>1, InitImplemented, StepImplemented, Invariant, PTL DEF Spec, AtomicSpec, Atomic!Spec

=============================================================================
