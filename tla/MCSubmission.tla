---------------------------- MODULE MCSubmission ----------------------------
(***************************************************************************)
(* Two listings for one vehicle: the offered one is complete and located,  *)
(* its image is being processed, and its owner's identity is verified; the *)
(* other is a new draft.                                                   *)
(***************************************************************************)
EXTENDS ListingSubmission

CONSTANT
    Offered \* the listing that is submitted

OfferInit ==
    /\ projection = [attempt |-> 1, status |-> "verified", version |-> 3]
    /\ lapsed = 0
    /\ ownerActive = TRUE
    /\ version = [l \in Listings |-> IF l = Offered THEN 5 ELSE 1]
    /\ vehicleOf = [l \in Listings |-> 0]
    /\ vehicles = <<>>
    /\ proofs = [v \in VehicleIds |-> <<>>]
    /\ claims = [c \in Claimers |-> NoClaim]
    /\ reuses = {}
    /\ draft = [l \in Listings |-> [complete |-> l = Offered, located |-> l = Offered]]
    /\ media = [l \in Listings |-> [o \in Orders |-> IF l = Offered THEN "processing" ELSE "none"]]
    /\ sellerReady = TRUE
    /\ submissions = [l \in Listings |-> <<>>]
    /\ publication = [l \in Listings |-> [moderation |-> "not_started", submitted |-> 0]]
    /\ requests = {}

OfferSpec == OfferInit /\ [][SubmissionNext]_submissionVars
=============================================================================
