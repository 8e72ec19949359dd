------------------------ MODULE OwnershipVerification ------------------------
(***************************************************************************)
(* Verification of who owns a vehicle, for one owner with several personal *)
(* listings.  A claim links the listing to its canonical vehicle and then  *)
(* reuses evidence, joins the attempt under way or opens a new one; the    *)
(* provider is called between two transactions as in IdentityVerification. *)
(* The owner's identity is the projection that module implements.          *)
(*                                                                         *)
(* A transaction is one step.  Claims lock the listing, the projection,    *)
(* the vehicle and its attempts; results lock the attempt, the projection, *)
(* the listing and the vehicle; of two that wait for each other PostgreSQL *)
(* rolls one back, which changes nothing (see TransactionLocks).           *)
(***************************************************************************)
EXTENDS OwnershipReuse, FiniteSets

CONSTANTS
    Listings,       \* the owner's personal listings
    Claimers,       \* requests that start a verification
    Registrations,  \* keyed registration numbers
    Vins,           \* keyed vehicle identification numbers (or chassis numbers)
    Bases,          \* ownership bases
    Absent,         \* an identifier that is not given
    MaxProofs,      \* bound: attempts per vehicle
    MaxProjection   \* bound: versions of the owner's projection

ASSUME OwnershipAssumption ==
    IsFiniteSet(Registrations) /\ MaxProofs \in Nat /\ MaxProjection \in Nat

VARIABLES
    lapsed,         \* the projection's version whose expires_at has passed, or 0
    ownerActive,    \* the owner's account is active
    version,        \* listings.version, 0 when the draft is not created
    vehicleOf,      \* listings.canonical_vehicle_id, 0 for none
    vehicles,       \* canonical_vehicles: registration and vin
    proofs,         \* vehicle_ownership_verifications by vehicle and number
    claims,         \* the requests in flight
    reuses          \* ownership.verification.reused events: <<listing, vehicle, number>>

ownershipVars ==
    <<projection, lapsed, ownerActive, version, vehicleOf, vehicles, proofs, claims, reuses>>
evidenceVars == <<lapsed, ownerActive, version, vehicleOf, vehicles>>

VehicleIds == 1 .. Cardinality(Registrations)
NoClaim == [at |-> "idle", vehicle |-> 0, attempt |-> 0]

OwnershipInit ==
    /\ ProjectionInit
    /\ lapsed = 0
    /\ ownerActive = TRUE
    /\ version = [l \in Listings |-> 0]
    /\ vehicleOf = [l \in Listings |-> 0]
    /\ vehicles = <<>>
    /\ proofs = [v \in VehicleIds |-> <<>>]
    /\ claims = [c \in Claimers |-> NoClaim]
    /\ reuses = {}

IdentityValid == projection.status = "verified" /\ projection.attempt # 0
                 /\ lapsed # projection.version
Context(l, basis) == [listing |-> l, identity |-> projection.version,
                      verified |-> IdentityValid, basis |-> basis]
IdentityStale(attempt) == attempt.identity # projection.version

ProofTransitions(status) ==
    CASE status = "session_pending" -> {"pending", "failed"}
      [] status = "pending" -> ResultStatuses
      [] OTHER -> {}

-----------------------------------------------------------------------------
(* The canonical vehicle. *)

\* Variant of Known: only the registration number is looked up.
KnownByRegistration(g, w) == {i \in DOMAIN vehicles : vehicles[i].registration = g}

Known(g, w) == {i \in DOMAIN vehicles : \/ vehicles[i].registration = g
                                        \/ w # Absent /\ vehicles[i].vin = w}

\* No vehicle is known by the identifiers, or exactly one and it contradicts none.
Resolvable(g, w) ==
    /\ Cardinality(Known(g, w)) <= 1
    /\ \A i \in Known(g, w) :
          /\ vehicles[i].registration = g
          /\ w = Absent \/ vehicles[i].vin \in {Absent, w}

ResolvedId(g, w) == IF Known(g, w) = {} THEN Len(vehicles) + 1 ELSE CHOOSE i \in Known(g, w) : TRUE

\* A new vehicle, or the known one with the identifier it lacked.
ResolveCanonical(g, w) ==
    vehicles' = IF Known(g, w) = {} THEN Append(vehicles, [registration |-> g, vin |-> w])
                ELSE [vehicles EXCEPT ![ResolvedId(g, w)].vin = IF @ = Absent THEN w ELSE @]

\* What every claim checks and does first: a draft of an active owner whose
\* identity is valid, linked to the vehicle unless it has another.
Link(l, g, w) ==
    /\ version[l] # 0
    /\ ownerActive
    /\ IdentityValid
    /\ Resolvable(g, w)
    /\ vehicleOf[l] \in {0, ResolvedId(g, w)}
    /\ ResolveCanonical(g, w)
    /\ vehicleOf' = [vehicleOf EXCEPT ![l] = ResolvedId(g, w)]
    /\ version' = [version EXCEPT ![l] = IF vehicleOf[l] = 0 THEN @ + 1 ELSE @]

-----------------------------------------------------------------------------
(* Starting a verification. *)

Enter(c, v, n) == claims' = [claims EXCEPT ![c] = [at |-> "claimed", vehicle |-> v, attempt |-> n]]
Answer(c) == claims' = [claims EXCEPT ![c] = NoClaim]

\* Evidence is at hand: the request is answered "verified" and, when another
\* listing's evidence serves, the reuse is recorded once.
ReuseProof(c, l, g, w, basis) ==
    LET v == ResolvedId(g, w)
        selection == Select(proofs[v], Context(l, basis))
    IN
    /\ claims[c].at = "idle"
    /\ Link(l, g, w)
    /\ selection.attempt # 0
    /\ reuses' = IF selection.reused THEN reuses \cup {<<l, v, selection.attempt>>} ELSE reuses
    /\ UNCHANGED <<projection, lapsed, ownerActive, proofs, claims>>

\* The newest attempt still open and not superseded.
ActiveProofs(rows) == {n \in DOMAIN rows : rows[n].status \in ActiveStatuses /\ ~rows[n].superseded}
ActiveProof(rows) == NewestOf(ActiveProofs(rows))

JoinProof(c, l, g, w, basis) ==
    LET v == ResolvedId(g, w)
        rows == proofs[v]
    IN
    /\ claims[c].at = "idle"
    /\ Link(l, g, w)
    /\ Select(rows, Context(l, basis)).attempt = 0
    /\ ActiveProofs(rows) # {}
    /\ ~IdentityStale(rows[ActiveProof(rows)])
    /\ Enter(c, v, ActiveProof(rows))
    /\ UNCHANGED <<projection, lapsed, ownerActive, proofs, reuses>>

\* An open attempt of an older identity is superseded, and the newest attempt too.
OpenProof(c, l, g, w, basis) ==
    LET v == ResolvedId(g, w)
        rows == proofs[v]
    IN
    /\ claims[c].at = "idle"
    /\ Link(l, g, w)
    /\ Select(rows, Context(l, basis)).attempt = 0
    /\ ActiveProofs(rows) # {} => IdentityStale(rows[ActiveProof(rows)])
    /\ Len(rows) < MaxProofs
    /\ proofs' = [proofs EXCEPT ![v] =
                     Append([n \in DOMAIN rows |->
                                IF n = Len(rows) \/ n \in ActiveProofs(rows)
                                THEN [rows[n] EXCEPT !.superseded = TRUE] ELSE rows[n]],
                            [listing |-> l, identity |-> projection.version, basis |-> basis,
                             status |-> "session_pending", known |-> FALSE,
                             superseded |-> FALSE, age |-> "fresh"])]
    /\ Enter(c, v, Len(rows) + 1)
    /\ UNCHANGED <<projection, lapsed, ownerActive, reuses>>

\* A completed idempotency key answers with the attempt it named, as it is now.
ReplayClaim(c, v, n) ==
    /\ claims[c].at = "idle"
    /\ n \in DOMAIN proofs[v]
    /\ Enter(c, v, n)
    /\ UNCHANGED <<evidenceVars, projection, proofs, reuses>>

Claim(c) == proofs[claims[c].vehicle][claims[c].attempt]

\* The attempt is read without a lock; a closed one rejects the request.
ProofClosed(c) ==
    /\ claims[c].at = "claimed"
    /\ Claim(c).status \in TerminalStatuses
    /\ Answer(c)
    /\ UNCHANGED <<evidenceVars, projection, proofs, reuses>>

\* The provider creates a session, refuses for good, or cannot be reached.
CallOwnershipProvider(c) ==
    /\ claims[c].at = "claimed"
    /\ Claim(c).status \notin TerminalStatuses
    /\ \/ \E at \in {"created", "refused"} : claims' = [claims EXCEPT ![c].at = at]
       \/ Answer(c)
    /\ UNCHANGED <<evidenceVars, projection, proofs, reuses>>

SetProof(v, n, status, known) ==
    proofs' = [proofs EXCEPT ![v][n].status = status, ![v][n].known = known]

\* The session is recorded under the attempt's lock alone: that the attempt may
\* have been superseded meanwhile is not looked at.
FinalizeProofSession(c) ==
    /\ claims[c].at = "created"
    /\ Answer(c)
    /\ IF Claim(c).status \in {"session_pending", "pending"}
       THEN SetProof(claims[c].vehicle, claims[c].attempt, "pending", TRUE)
       ELSE UNCHANGED proofs
    /\ UNCHANGED <<evidenceVars, projection, reuses>>

FinalizeProofFailure(c) ==
    /\ claims[c].at = "refused"
    /\ Answer(c)
    /\ IF Claim(c).status = "session_pending"
       THEN SetProof(claims[c].vehicle, claims[c].attempt, "failed", Claim(c).known)
       ELSE UNCHANGED proofs
    /\ UNCHANGED <<evidenceVars, projection, reuses>>

ClaimerDies(c) ==
    /\ claims[c].at # "idle"
    /\ Answer(c)
    /\ UNCHANGED <<evidenceVars, projection, proofs, reuses>>

-----------------------------------------------------------------------------
(* The provider's results, at any time and in any order.  A result whose     *)
(* event id was seen before changes nothing.                                 *)

\* Variant of StaleResult: that the attempt was superseded is not looked at.
StaleResultUnmarked(attempt, v) ==
    \/ ~ownerActive
    \/ ~IdentityValid
    \/ IdentityStale(attempt)
    \/ vehicleOf[attempt.listing] # v

\* Variant of StaleResult: that the owner was verified anew is not looked at.
StaleResultUnbound(attempt, v) ==
    \/ attempt.superseded
    \/ ~ownerActive
    \/ ~IdentityValid
    \/ vehicleOf[attempt.listing] # v

StaleResult(attempt, v) ==
    \/ attempt.superseded
    \/ ~ownerActive
    \/ ~IdentityValid
    \/ IdentityStale(attempt)
    \/ vehicleOf[attempt.listing] # v

\* A stale result supersedes its attempt instead of applying.
ApplyProofResult(v, n, status) ==
    /\ n \in DOMAIN proofs[v]
    /\ proofs[v][n].known
    /\ \/ /\ StaleResult(proofs[v][n], v)
          /\ proofs' = [proofs EXCEPT ![v][n].superseded = TRUE]
       \/ /\ ~StaleResult(proofs[v][n], v)
          /\ status \in ProofTransitions(proofs[v][n].status)
          /\ SetProof(v, n, status, TRUE)
    /\ UNCHANGED <<evidenceVars, projection, claims, reuses>>

-----------------------------------------------------------------------------
(* Around it: the owner's identity, time, the account, the drafts. *)

IdentityMoves ==
    /\ projection.version < MaxProjection
    /\ ProjectionNext
    /\ UNCHANGED <<evidenceVars, proofs, claims, reuses>>

IdentityLapses ==
    /\ projection.status = "verified"
    /\ lapsed # projection.version
    /\ lapsed' = projection.version
    /\ UNCHANGED <<projection, ownerActive, version, vehicleOf, vehicles, proofs, claims, reuses>>

ProofAges(v, n) ==
    /\ n \in DOMAIN proofs[v]
    /\ proofs[v][n].status = "verified"
    /\ \E age \in {"aged", "expired"} :
          /\ proofs[v][n].age \in {"fresh", "aged"} \ {age}
          /\ proofs' = [proofs EXCEPT ![v][n].age = age]
    /\ UNCHANGED <<evidenceVars, projection, claims, reuses>>

OwnerChanges ==
    /\ ownerActive' = ~ownerActive
    /\ UNCHANGED <<projection, lapsed, version, vehicleOf, vehicles, proofs, claims, reuses>>

CreateDraft(l) ==
    /\ version[l] = 0
    /\ ownerActive
    /\ version' = [version EXCEPT ![l] = 1]
    /\ UNCHANGED <<projection, lapsed, ownerActive, vehicleOf, vehicles, proofs, claims, reuses>>

ClaimerStep(c) ==
    \/ \E l \in Listings, g \in Registrations, w \in Vins \cup {Absent}, basis \in Bases :
          ReuseProof(c, l, g, w, basis) \/ JoinProof(c, l, g, w, basis) \/ OpenProof(c, l, g, w, basis)
    \/ \E v \in VehicleIds, n \in 1 .. MaxProofs : ReplayClaim(c, v, n)
    \/ ProofClosed(c) \/ CallOwnershipProvider(c)
    \/ FinalizeProofSession(c) \/ FinalizeProofFailure(c) \/ ClaimerDies(c)

OwnershipNext ==
    \/ \E c \in Claimers : ClaimerStep(c)
    \/ \E v \in VehicleIds, n \in 1 .. MaxProofs :
          \/ \E status \in ResultStatuses : ApplyProofResult(v, n, status)
          \/ ProofAges(v, n)
    \/ \E l \in Listings : CreateDraft(l)
    \/ IdentityMoves \/ IdentityLapses \/ OwnerChanges

OwnershipSpec == OwnershipInit /\ [][OwnershipNext]_ownershipVars

-----------------------------------------------------------------------------
Proof == [listing : Listings, identity : 1 .. MaxProjection, basis : Bases, status : AttemptStatuses,
          known : BOOLEAN, superseded : BOOLEAN, age : {"fresh", "aged", "expired"}]

\* Every variable has the shape the service gives it.
OwnershipTypeOK ==
    /\ lapsed \in 0 .. MaxProjection
    /\ ownerActive \in BOOLEAN
    /\ version \in [Listings -> Nat]
    /\ vehicles \in Seq([registration : Registrations, vin : Vins \cup {Absent}])
    /\ vehicleOf \in [Listings -> 0 .. Len(vehicles)]
    /\ \A v \in VehicleIds : proofs[v] \in Seq(Proof) /\ Len(proofs[v]) <= MaxProofs
    /\ \A c \in Claimers :
          /\ claims[c].at \in {"idle", "claimed", "created", "refused"}
          /\ claims[c].at # "idle" => claims[c].attempt \in DOMAIN proofs[claims[c].vehicle]
    /\ reuses \subseteq Listings \X VehicleIds \X (1 .. MaxProofs)

\* Listings of one owner compete for one vehicle's evidence, attempts outlive
\* the identity they were opened under, and requests die between their parts:
\* still only the newest attempt of a vehicle ever stands, and the reuse policy's
\* two searches over old and new attempts find evidence exactly when that one
\* proves ownership now, whatever listing and basis ask.
SelectionIsNewestProof ==
    \A v \in VehicleIds :
        /\ \A n \in DOMAIN proofs[v] : n < Len(proofs[v]) => proofs[v][n].superseded
        /\ \A l \in Listings, basis \in Bases :
              Select(proofs[v], Context(l, basis)).attempt =
                  IF Proves(proofs[v], Context(l, basis)) THEN Len(proofs[v]) ELSE 0

\* A superseded attempt never becomes evidence, also when its session is
\* recorded late and its result arrives later still.
SupersededNeverVerified ==
    [][\A v \in VehicleIds : \A n \in DOMAIN proofs[v] :
          proofs'[v][n].status = "verified" /\ proofs[v][n].status # "verified" =>
              ~proofs[v][n].superseded /\ n = Len(proofs[v])]_ownershipVars

\* An attempt is not superseded when the owner's identity is lost or verified
\* anew, and its session and results come whenever they do: still it is
\* verified only while the identity it was opened under is the valid one.
VerdictsFollowIdentity ==
    [][\A v \in VehicleIds : \A n \in DOMAIN proofs[v] :
          proofs'[v][n].status = "verified" /\ proofs[v][n].status # "verified" =>
              IdentityValid /\ proofs[v][n].identity = projection.version]_ownershipVars

\* Claims of several listings create vehicles and add identifiers to them: no
\* identifier ever belongs to two vehicles or moves, and no listing is relinked.
VehicleIdentityStable ==
    [][/\ \A i, j \in DOMAIN vehicles' :
             i # j => /\ vehicles'[i].registration # vehicles'[j].registration
                      /\ vehicles'[i].vin # vehicles'[j].vin \/ vehicles'[i].vin = Absent
       /\ \A i \in DOMAIN vehicles : vehicles[i].vin \in {Absent, vehicles'[i].vin}
       /\ \A l \in Listings : vehicleOf[l] \in {0, vehicleOf'[l]}]_ownershipVars
=============================================================================
