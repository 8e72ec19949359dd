---------------------------- MODULE MCMarketplace ----------------------------
(***************************************************************************)
(* One run for the components behind the marketplace's accounts, evidence  *)
(* and listings.  They share no variable but the owner's projection, so a  *)
(* behaviour runs one of them, chosen at the start, and leaves the others  *)
(* in their initial state.                                                 *)
(***************************************************************************)
EXTENDS IdentityVerification, RateLimiter, Registration, AccountAccess, ListingSubmission,
        TransactionLocks, TLC

CONSTANTS
    Offered,   \* the listing that is prepared and submitted
    MaxEdits,  \* bound: changes to it that follow
    MaxSubmissions \* bound: its rows

\* There is a prepared listing, with room for its evidence and one image.
ASSUME PreparedAssumption ==
    /\ Offered \in Listings
    /\ Registrations # {} /\ Orders # {}
    /\ MaxProofs >= 1 /\ MaxProjection >= 6

VARIABLE focus \* the component that runs

Focuses == {"identity", "limiter", "registration", "access", "vehicles", "ownership", "submission",
            "locks"}

identityRest == <<attempts, accountActive, startKeys, starts, sessions, verdicts, announced>>
ownershipRest == <<lapsed, ownerActive, version, vehicleOf, vehicles, proofs, claims, reuses>>
marketplaceVars == <<focus, identityRest, submissionVars, limiterVars, registrationVars, accessVars,
                     locksVars>>

OneList == {<<"address", "account">>}

\* Bounds of the ownership of one vehicle: all claims give the same registration, one
\* reuse is recorded, and the account is closed or the identity expires while no claim
\* is in flight.
TheVehicle == [registration |-> CHOOSE g \in Registrations : TRUE, vin |-> Absent]
OneVehicle ==
    /\ vehicles \in {<<>>, <<TheVehicle>>}
    /\ Cardinality(reuses) <= 1
    /\ (ownerActive /\ lapsed = 0) \/ \A c \in Claimers : claims[c] = NoClaim

\* Bounds of an identity that is verified anew while attempts of the older one are open:
\* the account is open, no identity has expired, and a proof expires at once.
VerifiedAnew ==
    projection.version > 4 =>
        /\ ownerActive /\ lapsed = 0
        /\ \A v \in VehicleIds : \A n \in DOMAIN proofs[v] : proofs[v][n].age # "aged"

\* Bounds of the resolution of vehicles: each gets one attempt, which stays open.
OneProofEach ==
    /\ projection.version <= 3
    /\ \A v \in VehicleIds : Len(proofs[v]) <= 1
    /\ \A v \in VehicleIds : \A n \in DOMAIN proofs[v] : proofs[v][n].status = "session_pending"

\* Bounds of an account's access: at most one challenge is spent in vain, and an
\* account is restricted while nothing is cached: it is found active before the cache.
Considered ==
    /\ \E k \in Kinds : challenge[k].consumed \/ Usable(k)
    /\ account.status = "active" \/ cached = NoEntry

\* The owner has prepared the offered listing: complete and located, with an image
\* uploaded and its vehicle proved.  Since then the owner's identity was verified
\* anew, so that the proof is bound to an older version.  Other listings are new drafts.
PreparedInit ==
    /\ projection = [attempt |-> 2, status |-> "verified", version |-> 6]
    /\ lapsed = 0
    /\ ownerActive = TRUE
    /\ version = [l \in Listings |-> IF l = Offered THEN 6 ELSE 1]
    /\ vehicleOf = [l \in Listings |-> IF l = Offered THEN 1 ELSE 0]
    /\ vehicles = <<TheVehicle>>
    /\ \E basis \in Bases : proofs = [v \in VehicleIds |-> IF v # 1 THEN <<>> ELSE
           <<[listing |-> Offered, identity |-> 3, basis |-> basis, status |-> "verified",
              known |-> TRUE, superseded |-> FALSE, age |-> "fresh"]>>]
    /\ claims = [c \in Claimers |-> NoClaim]
    /\ reuses = {}
    /\ draft = [l \in Listings |-> [complete |-> l = Offered, located |-> l = Offered]]
    /\ media = [l \in Listings |-> [o \in Orders |->
                   IF l = Offered /\ o = CHOOSE p \in Orders : TRUE THEN "processing" ELSE "none"]]
    /\ sellerReady = TRUE
    /\ submissions = [l \in Listings |-> <<>>]
    /\ publication = [l \in Listings |-> [moderation |-> "not_started", submitted |-> 0]]
    /\ requests = {}

\* Bounds of a submission: the owner and the identity stay, the other listings only
\* lie there, the provider refuses no session, a proof expires at once, and the seller
\* is restricted while no claim is in flight.
Prepared ==
    /\ ownerActive
    /\ sellerReady \/ \A c \in Claimers : claims[c] = NoClaim
    /\ OneVehicle
    /\ \A c \in Claimers : claims[c].at # "refused"
    /\ \A v \in VehicleIds : \A n \in DOMAIN proofs[v] : proofs[v][n].age # "aged"
    /\ projection.version = 6
    /\ \A l \in Listings :
          IF l = Offered THEN version[l] <= 6 + MaxEdits /\ Len(submissions[l]) <= MaxSubmissions
          ELSE version[l] = 1 /\ submissions[l] = <<>>

MarketplaceInit ==
    /\ focus \in Focuses
    /\ ServiceInit /\ LimiterInit /\ RegistrationInit /\ AccessInit /\ LocksInit
    /\ IF focus = "submission" THEN PreparedInit ELSE SubmissionInit

MarketplaceNext ==
    \/ /\ focus = "identity"
       /\ IdentityNext
       /\ UNCHANGED <<focus, ownershipRest, contentVars, recordVars, limiterVars, registrationVars,
                      accessVars, locksVars>>
    \/ /\ focus \in {"vehicles", "ownership"}
       /\ OwnershipNext
       /\ IF focus = "vehicles" THEN OneProofEach' ELSE OneVehicle' /\ VerifiedAnew'
       /\ UNCHANGED <<focus, identityRest, contentVars, recordVars, limiterVars, registrationVars,
                      accessVars, locksVars>>
    \/ /\ focus = "submission"
       /\ SubmissionNext
       /\ Prepared'
       /\ UNCHANGED <<focus, identityRest, limiterVars, registrationVars, accessVars, locksVars>>
    \/ /\ focus = "limiter"
       /\ LimiterNext
       /\ UNCHANGED <<focus, identityRest, submissionVars, registrationVars, accessVars, locksVars>>
    \/ /\ focus = "registration"
       /\ RegistrationNext
       /\ UNCHANGED <<focus, identityRest, submissionVars, limiterVars, accessVars, locksVars>>
    \/ /\ focus = "access"
       /\ AccessNext
       /\ Considered'
       /\ UNCHANGED <<focus, identityRest, submissionVars, limiterVars, registrationVars, locksVars>>
    \/ /\ focus = "locks"
       /\ LocksNext
       /\ UNCHANGED <<focus, identityRest, submissionVars, limiterVars, registrationVars, accessVars>>

MarketplaceSpec == MarketplaceInit /\ [][MarketplaceNext]_marketplaceVars

\* The type invariants of the components.
MarketplaceTypeOK ==
    /\ focus \in Focuses
    /\ IdentityTypeOK /\ LimiterTypeOK /\ RegistrationTypeOK /\ AccessTypeOK
    /\ SubmissionTypeOK /\ LocksTypeOK

\* The sets of equal size share their model values, which are permuted together.
Symmetry == Permutations(Transactions) \cup Permutations(Starters)
=============================================================================
