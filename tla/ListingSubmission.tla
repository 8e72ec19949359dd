-------------------------- MODULE ListingSubmission --------------------------
(***************************************************************************)
(* Personal listing drafts and their submission to moderation, on top of   *)
(* the evidence of OwnershipVerification: a submission reads the listing,  *)
(* its media, the seller profile, the owner's projection, the vehicle and  *)
(* its attempts in one transaction that locks them, evaluates the gates of *)
(* readiness.py, and records the outcome under the listing's version.      *)
(* Every change to the content of a draft adds one to that version; the    *)
(* evidence and the media worker's results change without it.              *)
(***************************************************************************)
EXTENDS OwnershipVerification

CONSTANTS
    Orders,             \* sort orders of the media of a listing
    MaxMedia,           \* MediaService max_count
    MaxListingVersion   \* bound: listings.version

ASSUME SubmissionAssumption == MaxMedia \in Nat /\ MaxListingVersion \in Nat

VARIABLES
    draft,        \* the content: whether it is complete, whether it has a location
    media,        \* the status of the row at each sort order that is not removed
    sellerReady,  \* the seller profile is active and ready
    submissions,  \* listing_submission_attempts, by listing and attempt number
    publication,  \* the listing's moderation status and submitted version
    requests      \* listing.moderation.requested events

contentVars == <<draft, media, sellerReady>>
recordVars == <<submissions, publication, requests>>
submissionVars == <<ownershipVars, contentVars, recordVars>>
otherOwnershipVars == <<projection, lapsed, ownerActive, vehicleOf, vehicles, proofs, claims, reuses>>

MediaStatuses == {"none", "intent_created", "processing", "moderation_pending", "failed"}

SubmissionInit ==
    /\ OwnershipInit
    /\ draft = [l \in Listings |-> [complete |-> FALSE, located |-> FALSE]]
    /\ media = [l \in Listings |-> [o \in Orders |-> "none"]]
    /\ sellerReady = FALSE
    /\ submissions = [l \in Listings |-> <<>>]
    /\ publication = [l \in Listings |-> [moderation |-> "not_started", submitted |-> 0]]
    /\ requests = {}

ActiveMedia(l) == {o \in Orders : media[l][o] # "none"}

-----------------------------------------------------------------------------
(* The gates. *)

ProofsOf(l) == IF vehicleOf[l] = 0 THEN <<>> ELSE proofs[vehicleOf[l]]
Selection(l) == Select(ProofsOf(l), Context(l, PreferredBasis(ProofsOf(l), l)))
OwnProofs(l) == {n \in DOMAIN ProofsOf(l) : ProofsOf(l)[n].listing = l}

\* What the policy says of evidence it did not select; otherwise the attempt's own status.
BlockedStatus(code, fallback) == IF code \in {"expired", "pending"} THEN code ELSE fallback

\* The ownership evidence: the attempt selected, else the listing's newest one.
Evidence(l) ==
    CASE Selection(l).attempt # 0 -> [attempt |-> Selection(l).attempt, status |-> "verified"]
      [] Selection(l).attempt = 0 /\ OwnProofs(l) # {} ->
           [attempt |-> NewestOf(OwnProofs(l)),
            status |-> BlockedStatus(Selection(l).code, ProofsOf(l)[NewestOf(OwnProofs(l))].status)]
      [] OTHER -> [attempt |-> 0, status |-> BlockedStatus(Selection(l).code, "none")]

\* Variant of OwnershipReady: the identity the proof is bound to is not compared.
OwnershipReadyUnbound(l) ==
    LET attempt == ProofsOf(l)[Evidence(l).attempt] IN
    /\ Evidence(l).attempt # 0
    /\ Evidence(l).status = "verified"
    /\ attempt.age # "expired"

OwnershipReady(l) ==
    LET attempt == ProofsOf(l)[Evidence(l).attempt] IN
    /\ Evidence(l).attempt # 0
    /\ Evidence(l).status = "verified"
    /\ attempt.age # "expired"
    /\ ~IdentityStale(attempt)

ContentReady(l) ==
    /\ sellerReady
    /\ draft[l].complete
    /\ draft[l].located
    /\ vehicleOf[l] # 0

MediaReady(l) ==
    /\ ActiveMedia(l) # {}
    /\ \A o \in ActiveMedia(l) : media[l][o] = "moderation_pending"

SubmissionStatus(l) ==
    IF ~IdentityValid \/ ~OwnershipReady(l) THEN "verification_pending"
    ELSE IF ~ContentReady(l) \/ ~MediaReady(l) THEN "blocked"
    ELSE "moderation_pending"

-----------------------------------------------------------------------------
(* Submitting. *)

Live(rows) == {i \in DOMAIN rows : ~rows[i].superseded}
OfVersion(rows, v) == {i \in Live(rows) : rows[i].version = v}

SupersedeOtherVersions(rows, v) ==
    [i \in DOMAIN rows |-> IF rows[i].version # v THEN [rows[i] EXCEPT !.superseded = TRUE]
                           ELSE rows[i]]

\* The row of the version is written again, or a new one is added.
RecordAttempt(rows, row) ==
    IF OfVersion(rows, row.version) = {}
    THEN Append(SupersedeOtherVersions(rows, row.version), row)
    ELSE [SupersedeOtherVersions(rows, row.version)
             EXCEPT ![NewestOf(OfVersion(rows, row.version))] = row]

\* Moderation is asked for when the row becomes "moderation_pending".
AsksModeration(l, status) ==
    /\ status = "moderation_pending"
    /\ \A i \in OfVersion(submissions[l], version[l]) :
          submissions[l][i].status # "moderation_pending"

Submit(l) ==
    LET status == SubmissionStatus(l)
        row == [version |-> version[l], status |-> status, proof |-> Evidence(l).attempt,
                identity |-> projection.version, superseded |-> FALSE]
    IN
    /\ version[l] # 0
    /\ ownerActive
    /\ submissions' = [submissions EXCEPT ![l] = RecordAttempt(@, row)]
    /\ publication' = [publication EXCEPT ![l] =
           [moderation |-> IF status = "moderation_pending" THEN "pending" ELSE "not_started",
            submitted |-> version[l]]]
    /\ requests' = IF AsksModeration(l, status)
                   THEN requests \cup {[listing |-> l, version |-> version[l],
                                        vehicle |-> vehicleOf[l], proof |-> row.proof,
                                        identity |-> row.identity]}
                   ELSE requests
    /\ UNCHANGED <<ownershipVars, contentVars>>

-----------------------------------------------------------------------------
(* Changes to the content of a draft, under the listing's lock. *)

Edit(l) ==
    /\ version[l] \in 1 .. MaxListingVersion - 1
    /\ ownerActive
    /\ version' = [version EXCEPT ![l] = @ + 1]
    /\ UNCHANGED <<otherOwnershipVars, recordVars, sellerReady>>

UpdateListing(l) ==
    /\ Edit(l)
    /\ \E complete \in BOOLEAN : draft' = [draft EXCEPT ![l].complete = complete]
    /\ UNCHANGED media

WriteLocation(l) ==
    /\ Edit(l)
    /\ draft' = [draft EXCEPT ![l].located = TRUE]
    /\ UNCHANGED media

CreateIntent(l, o) ==
    /\ media[l][o] = "none"
    /\ Cardinality(ActiveMedia(l)) < MaxMedia
    /\ Edit(l)
    /\ media' = [media EXCEPT ![l][o] = "intent_created"]
    /\ UNCHANGED draft

CompleteUpload(l, o) ==
    /\ media[l][o] = "intent_created"
    /\ Edit(l)
    /\ media' = [media EXCEPT ![l][o] = "processing"]
    /\ UNCHANGED draft

\* Variant of RemoveMedia: the listing keeps its version.
RemoveMediaUnversioned(l, o) ==
    /\ media[l][o] # "none"
    /\ ownerActive
    /\ media' = [media EXCEPT ![l][o] = "none"]
    /\ UNCHANGED <<ownershipVars, draft, sellerReady, recordVars>>

RemoveMedia(l, o) ==
    /\ media[l][o] # "none"
    /\ Edit(l)
    /\ media' = [media EXCEPT ![l][o] = "none"]
    /\ UNCHANGED draft

\* The media worker ends its work (see MediaProcessing); the version stays.
FinishMedia(l, o) ==
    /\ media[l][o] = "processing"
    /\ \E status \in {"moderation_pending", "failed"} : media' = [media EXCEPT ![l][o] = status]
    /\ UNCHANGED <<ownershipVars, draft, sellerReady, recordVars>>

\* An operator activates or restricts the seller.
SellerChanges ==
    /\ sellerReady' = ~sellerReady
    /\ UNCHANGED <<ownershipVars, draft, media, recordVars>>

SubmissionNext ==
    \/ OwnershipNext /\ UNCHANGED <<contentVars, recordVars>>
    \/ \E l \in Listings :
          \/ Submit(l) \/ UpdateListing(l) \/ WriteLocation(l)
          \/ \E o \in Orders : \/ CreateIntent(l, o) \/ CompleteUpload(l, o)
                               \/ RemoveMedia(l, o) \/ FinishMedia(l, o)
    \/ SellerChanges

SubmissionSpec == SubmissionInit /\ [][SubmissionNext]_submissionVars

-----------------------------------------------------------------------------
Submission == [version : Nat, status : {"blocked", "verification_pending", "moderation_pending"},
               proof : 0 .. MaxProofs, identity : 0 .. MaxProjection, superseded : BOOLEAN]

\* Every variable has the shape the services give it.
SubmissionTypeOK ==
    /\ OwnershipTypeOK
    /\ draft \in [Listings -> [complete : BOOLEAN, located : BOOLEAN]]
    /\ media \in [Listings -> [Orders -> MediaStatuses]]
    /\ sellerReady \in BOOLEAN
    /\ submissions \in [Listings -> Seq(Submission)]
    /\ publication \in [Listings -> [moderation : {"not_started", "pending"}, submitted : Nat]]
    /\ requests \subseteq [listing : Listings, version : Nat, vehicle : VehicleIds,
                           proof : 1 .. MaxProofs, identity : 1 .. MaxProjection]

\* Submissions repeated under one version, under new versions, with evidence
\* that comes and goes: a listing has one submission that is not superseded, its
\* last, and moderation is pending exactly when a moderator was asked for that
\* version.  What moderators are asked to look at stays what they look at: while
\* the listing has the submitted version, the draft is complete and each of its
\* images is through processing, whatever was edited, added or removed meanwhile.
PendingIsLastSubmission ==
    \A l \in Listings :
        LET rows == submissions[l]
            last == rows[Len(rows)]
            pending == publication[l].moderation = "pending"
        IN
        /\ IF rows = <<>> THEN publication[l] = [moderation |-> "not_started", submitted |-> 0]
           ELSE /\ Live(rows) = {Len(rows)}
                /\ publication[l].submitted = last.version
                /\ pending <=> last.status = "moderation_pending"
                /\ pending => \E r \in requests : r.listing = l /\ r.version = last.version
        /\ pending /\ publication[l].submitted = version[l] =>
              draft[l].complete /\ draft[l].located /\ MediaReady(l)

\* A request for moderation names a verified proof of the listing's own vehicle
\* and the version of the owner's identity the proof is bound to, although
\* identity, proofs and listing change on their own between claim and submission.
RequestsBoundToIdentity ==
    \A r \in requests :
        LET proof == proofs[r.vehicle][r.proof] IN
        /\ r.vehicle = vehicleOf[r.listing]
        /\ proof.status = "verified"
        /\ proof.identity = r.identity

\* docs/verification-moderation.md:83 says that a submission uses the listing's
\* current proof or the newest eligible one, never with "a newer unresolved or
\* conflicting attempt": whenever moderation is asked for, the policy selected
\* the evidence.
ModerationOnSelectedProof ==
    [][\A r \in requests' \ requests : Selection(r.listing).attempt # 0]_submissionVars
=============================================================================
