--------------------------- MODULE OwnershipReuse ---------------------------
(***************************************************************************)
(* The policy that selects the evidence of ownership a listing may use.    *)
(* The evidence of one owner for one vehicle is a sequence of attempts in  *)
(* the order of their numbers.  An attempt is a record with                *)
(*    listing     the listing it was started for                          *)
(*    identity    the version of the owner's projection it is bound to     *)
(*    basis, status, superseded                                            *)
(*    age         of the proof: "fresh", "aged" beyond the policy's        *)
(*                freshness, or "expired" beyond the provider's expiry     *)
(* and a context tells who asks: listing, identity (version), verified     *)
(* (the identity is verified and valid now) and basis.  Versions of the    *)
(* vehicle's identity and of the key hash are written once and compare     *)
(* equal; fingerprints of a verified result are always valid.              *)
(***************************************************************************)
EXTENDS IdentityProjection, Sequences

NewestOf(numbers) == CHOOSE n \in numbers : \A m \in numbers : m <= n

\* An attempt opened later that nothing has superseded.
NewerConflicting(rows, n) == \E m \in DOMAIN rows : m > n /\ ~rows[m].superseded

\* Variant of Evaluate: only attempts opened later count against one.
EvaluateOpenedLater(rows, n, context, reuse) ==
    IF rows[n].status \in ActiveStatuses THEN "pending"
    ELSE IF rows[n].status # "verified" THEN "unavailable"
    ELSE IF NewerConflicting(rows, n) THEN "conflict"
    ELSE IF rows[n].age = "expired" \/ (reuse /\ rows[n].age = "aged") THEN "expired"
    ELSE IF \/ ~context.verified
            \/ rows[n].identity # context.identity
            \/ rows[n].basis # context.basis
         THEN "unavailable"
    ELSE "eligible"

\* Why attempt n may not serve, or "eligible".  A proof that is reused counts
\* no longer than the policy's freshness; a listing's own counts to its expiry.
Evaluate(rows, n, context, reuse) ==
    IF rows[n].status \in ActiveStatuses THEN "pending"
    ELSE IF rows[n].status # "verified" THEN "unavailable"
    ELSE IF rows[n].superseded \/ NewerConflicting(rows, n) THEN "conflict"
    ELSE IF rows[n].age = "expired" \/ (reuse /\ rows[n].age = "aged") THEN "expired"
    ELSE IF \/ ~context.verified
            \/ rows[n].identity # context.identity
            \/ rows[n].basis # context.basis
         THEN "unavailable"
    ELSE "eligible"

\* What is said when there is nothing to reuse: the state of the newest attempt.
LatestSafeCode(rows) ==
    IF rows = <<>> THEN "required"
    ELSE IF rows[Len(rows)].status \in ActiveStatuses THEN "pending" ELSE "unavailable"

VerifiedFor(rows, listing) == {n \in DOMAIN rows : rows[n].status = "verified" /\ rows[n].listing = listing}
VerifiedElsewhere(rows, listing) ==
    {n \in DOMAIN rows : rows[n].status = "verified" /\ rows[n].listing # listing}

\* The listing's own newest verified attempt if it serves, else the newest of
\* the owner's other listings; attempt 0 when neither does.
Select(rows, context) ==
    LET own == VerifiedFor(rows, context.listing)
        other == VerifiedElsewhere(rows, context.listing)
        code == Evaluate(rows, NewestOf(other), context, TRUE)
    IN
    IF own # {} /\ Evaluate(rows, NewestOf(own), context, FALSE) = "eligible"
    THEN [attempt |-> NewestOf(own), reused |-> FALSE, code |-> "eligible"]
    ELSE IF other = {} THEN [attempt |-> 0, reused |-> FALSE, code |-> LatestSafeCode(rows)]
    ELSE [attempt |-> IF code = "eligible" THEN NewestOf(other) ELSE 0,
          reused |-> code = "eligible", code |-> code]

\* The basis looked for when the request names none.
PreferredBasis(rows, listing) ==
    IF VerifiedFor(rows, listing) # {} THEN rows[NewestOf(VerifiedFor(rows, listing))].basis
    ELSE IF VerifiedElsewhere(rows, listing) # {}
         THEN rows[NewestOf(VerifiedElsewhere(rows, listing))].basis
    ELSE "registered_owner"

\* The definition the policy is compared with: the newest attempt of all is
\* verified, stands, is bound to the owner's present identity and basis, and
\* is young enough.
Proves(rows, context) ==
    LET last == rows[Len(rows)] IN
    /\ rows # <<>>
    /\ last.status = "verified" /\ ~last.superseded
    /\ context.verified /\ last.identity = context.identity /\ last.basis = context.basis
    /\ IF last.listing = context.listing THEN last.age # "expired" ELSE last.age = "fresh"
=============================================================================
