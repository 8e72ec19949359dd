--------------------------- MODULE OwnershipProofs ---------------------------
(***************************************************************************)
(* Only the newest attempt of a vehicle ever stands, so the reuse policy's *)
(* searches find evidence exactly when that attempt proves ownership now;  *)
(* vehicles keep their identifiers; and what moderators are asked about    *)
(* stays what was submitted.  All of it is proved of SubmissionSpec, which *)
(* contains the steps of OwnershipVerification.                            *)
(***************************************************************************)
EXTENDS ListingSubmission, FiniteSetTheorems, WellFoundedInduction, TLAPS

\* Attempts before the newest are superseded.
NewestStands(rows) == \A n \in DOMAIN rows : n < Len(rows) => rows[n].superseded

-----------------------------------------------------------------------------
(* The policy. *)

LEMMA RowTyped ==
  ASSUME NEW rows \in Seq(Proof), NEW n \in DOMAIN rows
  PROVE  /\ rows[n] \in Proof /\ Len(rows) \in Nat /\ DOMAIN rows = 1 .. Len(rows)
         /\ rows[n].superseded \in BOOLEAN /\ rows[n].status \in AttemptStatuses
         /\ rows[n].age \in {"fresh", "aged", "expired"}
<1>1. rows[n] \in Proof /\ Len(rows) \in Nat /\ DOMAIN rows = 1 .. Len(rows)
  <2> HIDE DEF Proof
  <2>1. QED
    OBVIOUS
<1>2. QED
  BY <1>1 DEF Proof

\* A set of attempt numbers has a newest.
LEMMA Newest ==
  ASSUME NEW m \in Nat, NEW S \in SUBSET (1 .. m), S # {}
  PROVE  NewestOf(S) \in S /\ \A k \in S : k <= NewestOf(S)
<1> DEFINE T == {i \in Nat : m - i \in S}
<1>1. T \subseteq Nat /\ T # {}
  <2>1. PICK s \in S : s \in 1 .. m
    OBVIOUS
  <2>2. m - s \in Nat /\ m - (m - s) = s
    BY <2>1
  <2>3. QED
    BY <2>2
<1> HIDE DEF T
<1>2. PICK x \in T : \A y \in T : <<y, x>> \notin OpToRel(<, Nat)
  BY <1>1, WFMin, NatLessThanWellFounded, Zenon
<1>3. \A y \in T : ~(y < x)
  BY <1>1, <1>2 DEF OpToRel
<1>4. m - x \in S /\ \A k \in S : k <= m - x
  <2>1. x \in Nat /\ m - x \in S
    BY DEF T
  <2>2. ASSUME NEW k \in S PROVE k <= m - x
    <3>1. k \in 1 .. m
      OBVIOUS
    <3>2. m - k \in Nat /\ m - (m - k) = k
      BY <3>1
    <3>3. m - k \in T
      BY <3>2 DEF T
    <3>4. ~(m - k < x)
      BY <1>3, <3>3
    <3>5. QED
      BY <2>1, <3>1, <3>2, <3>4
  <2>3. QED
    BY <2>1, <2>2
<1>5. QED
  BY <1>4 DEF NewestOf

\* The number found is the newest of all if that is among them.
LEMMA NewestIsLast ==
  ASSUME NEW m \in Nat, NEW S \in SUBSET (1 .. m), m \in S
  PROVE  NewestOf(S) = m
<1>1. NewestOf(S) \in S /\ \A k \in S : k <= NewestOf(S)
  BY Newest
<1> DEFINE k == NewestOf(S)
<1>2. k \in 1 .. m /\ m <= k
  BY <1>1
<1> HIDE DEF k
<1>3. k = m
  BY <1>2
<1>4. QED
  BY <1>3 DEF k

\* A superseded attempt does not serve.
LEMMA SupersededIsBlocked ==
  ASSUME NEW rows, NEW n, NEW c, NEW r, rows[n].superseded
  PROVE  Evaluate(rows, n, c, r) # "eligible"
  BY DEF Evaluate

\* The newest serves when nothing is wrong with it.
LEMMA NewestServes ==
  ASSUME NEW rows \in Seq(Proof), rows # <<>>, NEW c, NEW r \in BOOLEAN
  PROVE  LET last == rows[Len(rows)] IN
         Evaluate(rows, Len(rows), c, r) = "eligible" <=>
            /\ last.status = "verified" /\ ~last.superseded
            /\ last.age # "expired" /\ (r => last.age # "aged")
            /\ c.verified /\ last.identity = c.identity /\ last.basis = c.basis
<1>1. Len(rows) \in DOMAIN rows /\ DOMAIN rows = 1 .. Len(rows) /\ Len(rows) \in Nat
  OBVIOUS
<1>2. ~NewerConflicting(rows, Len(rows))
  BY <1>1 DEF NewerConflicting
<1> DEFINE last == rows[Len(rows)]
<1>3. "verified" \notin ActiveStatuses
  BY DEF ActiveStatuses
<1> HIDE DEF last
<1>4. Evaluate(rows, Len(rows), c, r) = "eligible" <=>
            /\ last.status = "verified" /\ ~last.superseded
            /\ last.age # "expired" /\ (r => last.age # "aged")
            /\ c.verified /\ last.identity = c.identity /\ last.basis = c.basis
  BY <1>2, <1>3 DEF Evaluate, last
<1>5. QED
  BY <1>4 DEF last

LEMMA PolicyFindsNewest ==
  ASSUME NEW rows \in Seq(Proof), NewestStands(rows), NEW c
  PROVE  Select(rows, c).attempt = IF Proves(rows, c) THEN Len(rows) ELSE 0
<1> DEFINE own == VerifiedFor(rows, c.listing)
           other == VerifiedElsewhere(rows, c.listing)
           last == rows[Len(rows)]
           code == Evaluate(rows, NewestOf(other), c, TRUE)
<1>1. /\ Len(rows) \in Nat /\ DOMAIN rows = 1 .. Len(rows)
      /\ own \in SUBSET (1 .. Len(rows)) /\ other \in SUBSET (1 .. Len(rows))
  BY DEF VerifiedFor, VerifiedElsewhere
<1>2. /\ own # {} /\ Evaluate(rows, NewestOf(own), c, FALSE) = "eligible" => Len(rows) \in own
      /\ other # {} /\ code = "eligible" => Len(rows) \in other
  <2>1. ASSUME NEW S \in SUBSET (1 .. Len(rows)), S # {}, NEW r,
               Evaluate(rows, NewestOf(S), c, r) = "eligible"
        PROVE  Len(rows) \in S
    <3>1. NewestOf(S) \in S
      BY <1>1, <2>1, Newest
    <3>2. ~rows[NewestOf(S)].superseded
      BY <2>1, SupersededIsBlocked
    <3>3. ~(NewestOf(S) < Len(rows))
      BY <1>1, <3>1, <3>2 DEF NewestStands
    <3> DEFINE k == NewestOf(S)
    <3>4. k \in S /\ k \in 1 .. Len(rows) /\ ~(k < Len(rows))
      BY <3>1, <3>3
    <3> HIDE DEF k
    <3>5. k = Len(rows)
      <4>1. Len(rows) \in Nat
        BY <1>1
      <4>2. QED
        BY <4>1, <3>4
    <3>6. QED
      BY <3>4, <3>5
  <2>2. QED
    BY <1>1, <2>1
<1>3. /\ Len(rows) \in own => NewestOf(own) = Len(rows)
      /\ Len(rows) \in other => NewestOf(other) = Len(rows)
  BY <1>1, NewestIsLast
<1>4. CASE rows = <<>>
  <2>1. own = {} /\ other = {}
    BY <1>4 DEF VerifiedFor, VerifiedElsewhere
  <2>2. Select(rows, c).attempt = 0
    BY <2>1 DEF Select
  <2>3. QED
    BY <1>4, <2>2 DEF Proves
<1>5. CASE rows # <<>>
  <2>1. /\ Len(rows) \in own <=> last.status = "verified" /\ last.listing = c.listing
        /\ Len(rows) \in other <=> last.status = "verified" /\ last.listing # c.listing
    BY <1>1, <1>5 DEF VerifiedFor, VerifiedElsewhere
  <2>2. last.age \in {"fresh", "aged", "expired"}
    BY <1>1, <1>5, RowTyped
  <2>3. CASE own # {} /\ Evaluate(rows, NewestOf(own), c, FALSE) = "eligible"
    <3>1. Len(rows) \in own /\ Evaluate(rows, Len(rows), c, FALSE) = "eligible"
      BY <1>2, <1>3, <2>3
    <3>2. Proves(rows, c)
      BY <1>5, <2>1, <3>1, NewestServes DEF Proves
    <3>3. Select(rows, c).attempt = NewestOf(own)
      BY <2>3 DEF Select
    <3>4. QED
      BY <1>3, <3>1, <3>2, <3>3
  <2>4. CASE ~(own # {} /\ Evaluate(rows, NewestOf(own), c, FALSE) = "eligible") /\ other # {} /\ code = "eligible"
    <3>1. Len(rows) \in other /\ Evaluate(rows, Len(rows), c, TRUE) = "eligible"
      BY <1>2, <1>3, <2>4
    <3>2. Proves(rows, c)
      BY <1>5, <2>1, <2>2, <3>1, NewestServes DEF Proves
    <3>3. Select(rows, c).attempt = NewestOf(other)
      BY <2>4 DEF Select
    <3>4. QED
      BY <1>3, <3>1, <3>2, <3>3
  <2>5. CASE ~(own # {} /\ Evaluate(rows, NewestOf(own), c, FALSE) = "eligible") /\ ~(other # {} /\ code = "eligible")
    <3>1. Select(rows, c).attempt = 0
      BY <2>5 DEF Select
    <3>2. ASSUME Proves(rows, c) PROVE FALSE
      <4>1. last.status = "verified"
        BY <3>2 DEF Proves
      <4>2. CASE last.listing = c.listing
        <5>1. Evaluate(rows, Len(rows), c, FALSE) = "eligible"
          BY <1>5, <3>2, <4>2, NewestServes DEF Proves
        <5>2. QED
          BY <1>3, <2>1, <2>5, <4>1, <4>2, <5>1
      <4>3. CASE last.listing # c.listing
        <5>1. Evaluate(rows, Len(rows), c, TRUE) = "eligible"
          BY <1>5, <3>2, <4>3, NewestServes DEF Proves
        <5>2. QED
          BY <1>3, <2>1, <2>5, <4>1, <4>3, <5>1
      <4>4. QED
        BY <4>2, <4>3
    <3>3. QED
      BY <3>1, <3>2
  <2>6. QED
    BY <2>3, <2>4, <2>5
<1>6. QED
  BY <1>4, <1>5

-----------------------------------------------------------------------------
(* The invariant. *)

\* The owner's row has a version once it has an attempt.
ProjectionTyped ==
    /\ projection \in [attempt : Nat, status : AttemptStatuses, version : 0 .. MaxProjection]
    /\ projection.attempt # 0 => projection.version # 0

ProofsInv ==
    /\ ProjectionTyped
    /\ proofs \in [VehicleIds -> Seq(Proof)]
    /\ \A v \in VehicleIds : NewestStands(proofs[v]) /\ Len(proofs[v]) <= MaxProofs

\* What a step may do to the attempts of a vehicle, those it opens aside:
\* superseded ones stay so, and none is verified unless it stands and is bound to
\* the present identity.
RowStep(old, new) ==
    /\ new \in Proof
    /\ old.superseded => new.superseded
    /\ new.status = "verified" /\ old.status # "verified" =>
          ~old.superseded /\ old.identity = projection.version /\ IdentityValid
    /\ old.status = "verified" => new.status = "verified" /\ new.identity = old.identity
    /\ new.listing = old.listing

AttemptsStep ==
    /\ ProjectionTyped'
    /\ proofs' \in [VehicleIds -> Seq(Proof)]
    /\ \A v \in VehicleIds :
          /\ DOMAIN proofs[v] \subseteq DOMAIN proofs'[v]
          /\ NewestStands(proofs'[v])
          /\ Len(proofs'[v]) <= MaxProofs
          /\ \A n \in DOMAIN proofs[v] : RowStep(proofs[v][n], proofs'[v][n])

LEMMA ProofTyped ==
  ASSUME ProofsInv, NEW v \in VehicleIds
  PROVE  /\ proofs[v] \in Seq(Proof) /\ Len(proofs[v]) \in Nat
         /\ DOMAIN proofs[v] = 1 .. Len(proofs[v])
         /\ \A n \in DOMAIN proofs[v] : proofs[v][n] \in Proof
<1> HIDE DEF Proof, VehicleIds
<1>1. proofs[v] \in Seq(Proof)
  BY DEF ProofsInv
<1>2. QED
  BY <1>1

\* Nothing happens to the attempts.
LEMMA QuietStep ==
  ASSUME ProofsInv, UNCHANGED proofs, ProjectionTyped'
  PROVE  AttemptsStep
<1>1. ASSUME NEW v \in VehicleIds, NEW n \in DOMAIN proofs[v]
      PROVE  RowStep(proofs[v][n], proofs[v][n])
  BY ProofTyped DEF RowStep
<1>2. QED
  BY <1>1 DEF AttemptsStep, ProofsInv

\* One attempt changes.
LEMMA OneChanges ==
  ASSUME ProofsInv, NEW v \in VehicleIds, NEW n \in DOMAIN proofs[v], NEW row,
         RowStep(proofs[v][n], row), ProjectionTyped',
         proofs' = [proofs EXCEPT ![v] = [proofs[v] EXCEPT ![n] = row]]
  PROVE  AttemptsStep
<1> DEFINE rows == [proofs[v] EXCEPT ![n] = row]
<1>1. row \in Proof /\ (proofs[v][n].superseded => row.superseded)
  BY DEF RowStep
<1>2. /\ rows \in Seq(Proof) /\ DOMAIN rows = DOMAIN proofs[v] /\ Len(rows) = Len(proofs[v])
      /\ rows[n] = row /\ \A m \in DOMAIN proofs[v] : m # n => rows[m] = proofs[v][m]
  <2> HIDE DEF Proof, VehicleIds
  <2>1. QED
    BY <1>1, ProofTyped
<1> HIDE DEF rows, Proof, VehicleIds
<1>3. NewestStands(rows)
  BY <1>1, <1>2 DEF ProofsInv, NewestStands
<1>4. /\ proofs' \in [VehicleIds -> Seq(Proof)] /\ proofs'[v] = rows
      /\ \A u \in VehicleIds : u # v => proofs'[u] = proofs[u]
  BY <1>2 DEF ProofsInv, rows
<1>5. ASSUME NEW u \in VehicleIds, NEW m \in DOMAIN proofs[u]
      PROVE  RowStep(proofs[u][m], proofs'[u][m])
  <2>1. RowStep(proofs[u][m], proofs[u][m])
    BY ProofTyped DEF RowStep
  <2>2. proofs'[u][m] = proofs[u][m] \/ (u = v /\ m = n /\ proofs'[u][m] = row)
    BY <1>2, <1>4
  <2>3. QED
    BY <2>1, <2>2
<1>6. \A u \in VehicleIds : /\ DOMAIN proofs[u] \subseteq DOMAIN proofs'[u]
                            /\ NewestStands(proofs'[u]) /\ Len(proofs'[u]) <= MaxProofs
  BY <1>2, <1>3, <1>4 DEF ProofsInv
<1>7. QED
  BY <1>4, <1>5, <1>6 DEF AttemptsStep

\* A transition of an attempt, which may also not exist.
LEMMA SetKeeps ==
  ASSUME ProofsInv, NEW v, NEW n, NEW status, NEW known, SetProof(v, n, status, known),
         ProjectionTyped',
         v \in VehicleIds /\ n \in DOMAIN proofs[v] =>
            /\ known \in BOOLEAN
            /\ status \in AttemptStatuses /\ proofs[v][n].status # "verified"
            /\ status = "verified" => /\ ~proofs[v][n].superseded
                                     /\ proofs[v][n].identity = projection.version /\ IdentityValid
  PROVE  AttemptsStep
<1>1. CASE v \in VehicleIds /\ n \in DOMAIN proofs[v]
  <2> DEFINE row == [proofs[v][n] EXCEPT !.status = status, !.known = known]
  <2>1. proofs[v][n] \in Proof
    BY <1>1, ProofTyped
  <2>2. RowStep(proofs[v][n], row)
    BY <1>1, <2>1 DEF RowStep, Proof
  <2>3. proofs' = [proofs EXCEPT ![v] = [proofs[v] EXCEPT ![n] = row]]
    <3> HIDE DEF VehicleIds
    <3>1. DOMAIN proofs = VehicleIds
      BY DEF ProofsInv
    <3>2. QED
      BY <1>1, <3>1 DEF SetProof
  <2> HIDE DEF row
  <2>4. QED
    BY <1>1, <2>2, <2>3, OneChanges
<1>2. CASE ~(v \in VehicleIds /\ n \in DOMAIN proofs[v])
  <2>1. proofs' = proofs
    <3> HIDE DEF VehicleIds, Proof
    <3>1. CASE v \notin VehicleIds
      BY <3>1 DEF SetProof, ProofsInv
    <3>2. CASE v \in VehicleIds
      <4> DEFINE rows == [[proofs[v] EXCEPT ![n].status = status] EXCEPT ![n].known = known]
      <4>1. proofs' = [proofs EXCEPT ![v] = rows]
        BY <3>2 DEF SetProof, ProofsInv
      <4>2. rows = proofs[v]
        BY <1>2, <3>2, ProofTyped
      <4> HIDE DEF rows
      <4>3. QED
        BY <4>1, <4>2 DEF ProofsInv
    <3>3. QED
      BY <3>1, <3>2
  <2>2. QED
    BY <2>1, QuietStep
<1>3. QED
  BY <1>1, <1>2

LEMMA FinalizeKeeps ==
  ASSUME ProofsInv, NEW c \in Claimers, FinalizeProofSession(c) \/ FinalizeProofFailure(c)
  PROVE  AttemptsStep
<1> DEFINE v == claims[c].vehicle
           n == claims[c].attempt
<1>1. ProjectionTyped'
  BY DEF FinalizeProofSession, FinalizeProofFailure, ProofsInv, ProjectionTyped
<1>2. \/ UNCHANGED proofs
      \/ SetProof(v, n, "pending", TRUE) /\ proofs[v][n].status \in {"session_pending", "pending"}
      \/ SetProof(v, n, "failed", proofs[v][n].known) /\ proofs[v][n].status = "session_pending"
  BY DEF FinalizeProofSession, FinalizeProofFailure, Claim
<1> HIDE DEF v, n
<1>3. CASE UNCHANGED proofs
  BY <1>1, <1>3, QuietStep
<1>4. CASE SetProof(v, n, "pending", TRUE) /\ proofs[v][n].status \in {"session_pending", "pending"}
  BY <1>1, <1>4, SetKeeps DEF AttemptStatuses, ActiveStatuses
<1>5. CASE SetProof(v, n, "failed", proofs[v][n].known) /\ proofs[v][n].status = "session_pending"
  <2>1. v \in VehicleIds /\ n \in DOMAIN proofs[v] => proofs[v][n].known \in BOOLEAN
    BY ProofTyped DEF Proof
  <2>2. QED
    BY <1>1, <1>5, <2>1, SetKeeps DEF AttemptStatuses, TerminalStatuses, ResultStatuses
<1>6. QED
  BY <1>2, <1>3, <1>4, <1>5

LEMMA ResultKeeps ==
  ASSUME ProofsInv, NEW v \in VehicleIds, NEW n, NEW status \in ResultStatuses,
         ApplyProofResult(v, n, status)
  PROVE  AttemptsStep
<1>1. n \in DOMAIN proofs[v] /\ proofs[v][n] \in Proof /\ ProjectionTyped'
  BY ProofTyped DEF ApplyProofResult, ProofsInv, ProjectionTyped
<1>2. CASE proofs' = [proofs EXCEPT ![v][n].superseded = TRUE]
  <2> DEFINE row == [proofs[v][n] EXCEPT !.superseded = TRUE]
  <2>1. RowStep(proofs[v][n], row)
    BY <1>1 DEF RowStep, Proof
  <2>2. proofs' = [proofs EXCEPT ![v] = [proofs[v] EXCEPT ![n] = row]]
    BY <1>1, <1>2 DEF ProofsInv
  <2> HIDE DEF row
  <2>3. QED
    BY <1>1, <2>1, <2>2, OneChanges
<1>3. CASE /\ ~StaleResult(proofs[v][n], v) /\ status \in ProofTransitions(proofs[v][n].status)
           /\ SetProof(v, n, status, TRUE)
  <2>1. ~proofs[v][n].superseded /\ proofs[v][n].identity = projection.version /\ IdentityValid
    BY <1>3 DEF StaleResult, IdentityStale
  <2>2. proofs[v][n].status # "verified"
    BY <1>3 DEF ProofTransitions
  <2>3. status \in AttemptStatuses
    BY DEF AttemptStatuses, TerminalStatuses, ResultStatuses
  <2>4. QED
    BY <1>1, <1>3, <2>1, <2>2, <2>3, SetKeeps
<1>4. QED
  BY <1>2, <1>3 DEF ApplyProofResult

LEMMA AgeKeeps ==
  ASSUME ProofsInv, NEW v \in VehicleIds, NEW n, ProofAges(v, n)
  PROVE  AttemptsStep
<1>1. n \in DOMAIN proofs[v] /\ proofs[v][n] \in Proof /\ ProjectionTyped'
  BY ProofTyped DEF ProofAges, ProofsInv, ProjectionTyped
<1>2. PICK age \in {"aged", "expired"} : proofs' = [proofs EXCEPT ![v][n].age = age]
  BY DEF ProofAges
<1> DEFINE row == [proofs[v][n] EXCEPT !.age = age]
<1>3. RowStep(proofs[v][n], row)
  BY <1>1 DEF RowStep, Proof
<1>4. proofs' = [proofs EXCEPT ![v] = [proofs[v] EXCEPT ![n] = row]]
  BY <1>1, <1>2 DEF ProofsInv
<1> HIDE DEF row
<1>5. QED
  BY <1>1, <1>3, <1>4, OneChanges

\* A new attempt supersedes the newest, and one left open under an older identity.
LEMMA OpenKeeps ==
  ASSUME ProofsInv, NEW c \in Claimers, NEW l \in Listings, NEW g, NEW w, NEW basis \in Bases,
         OpenProof(c, l, g, w, basis)
  PROVE  AttemptsStep
<1> DEFINE v == ResolvedId(g, w)
           rows == proofs[v]
           closing == ActiveProofs(rows)
           older == [n \in DOMAIN rows |-> IF n = Len(rows) \/ n \in closing
                        THEN [rows[n] EXCEPT !.superseded = TRUE] ELSE rows[n]]
           fresh == [listing |-> l, identity |-> projection.version, basis |-> basis,
                     status |-> "session_pending", known |-> FALSE,
                     superseded |-> FALSE, age |-> "fresh"]
<1>1. /\ proofs' = [proofs EXCEPT ![v] = Append(older, fresh)]
      /\ ProjectionTyped' /\ Len(rows) < MaxProofs
  BY DEF OpenProof, ProofsInv, ProjectionTyped
<1>2. fresh \in Proof
  <2>1. projection.version \in 1 .. MaxProjection
    BY OwnershipAssumption DEF OpenProof, Link, IdentityValid, ProofsInv, ProjectionTyped
  <2>2. QED
    BY <2>1 DEF Proof, AttemptStatuses, ActiveStatuses
<1> HIDE DEF v, closing, fresh
<1>3. CASE v \notin VehicleIds
  <2>1. proofs' = proofs
    BY <1>1, <1>3 DEF ProofsInv
  <2>2. QED
    BY <1>1, <2>1, QuietStep
<1>4. CASE v \in VehicleIds
  <2>1. /\ rows \in Seq(Proof) /\ Len(rows) \in Nat /\ DOMAIN rows = 1 .. Len(rows)
        /\ \A n \in DOMAIN rows : rows[n] \in Proof
    BY <1>4, ProofTyped
  <2> HIDE DEF rows
  <2>2. ASSUME NEW n \in DOMAIN rows
        PROVE  /\ older[n] \in Proof /\ RowStep(rows[n], older[n])
               /\ n = Len(rows) => older[n].superseded
    <3>1. rows[n] \in Proof
      BY <2>1
    <3>2. older[n] = rows[n] \/ older[n] = [rows[n] EXCEPT !.superseded = TRUE]
      OBVIOUS
    <3>3. n = Len(rows) => older[n] = [rows[n] EXCEPT !.superseded = TRUE]
      OBVIOUS
    <3> HIDE DEF older
    <3>4. QED
      BY <3>1, <3>2, <3>3 DEF RowStep, Proof
  <2>3. older \in Seq(Proof) /\ Len(older) = Len(rows) /\ DOMAIN older = DOMAIN rows
    <3> HIDE DEF Proof
    <3>1. older = [n \in 1 .. Len(rows) |-> older[n]]
      BY <2>1
    <3>2. older \in [1 .. Len(rows) -> Proof]
      BY <2>1, <2>2, <3>1
    <3> HIDE DEF older
    <3>3. QED
      BY <2>1, <3>2
  <2> HIDE DEF older, Proof, VehicleIds
  <2> DEFINE new == Append(older, fresh)
  <2>4. /\ new \in Seq(Proof) /\ Len(new) = Len(rows) + 1 /\ DOMAIN new = 1 .. Len(rows) + 1
        /\ \A n \in DOMAIN rows : new[n] = older[n]
    BY <1>2, <2>1, <2>3
  <2> HIDE DEF new
  <2>5. NewestStands(new)
    <3> SUFFICES ASSUME NEW n \in DOMAIN new, n < Len(new)
                 PROVE  new[n].superseded
      BY DEF NewestStands
    <3>1. n \in DOMAIN rows /\ new[n] = older[n] /\ (n = Len(rows) \/ n < Len(rows))
      BY <2>1, <2>4
    <3>2. n < Len(rows) => rows[n].superseded
      BY <1>4, <3>1 DEF ProofsInv, NewestStands, rows
    <3>3. QED
      BY <2>2, <3>1, <3>2 DEF RowStep
  <2>6. /\ proofs' \in [VehicleIds -> Seq(Proof)] /\ proofs'[v] = new
        /\ \A u \in VehicleIds : u # v => proofs'[u] = proofs[u]
    BY <1>1, <1>4, <2>4 DEF ProofsInv, new
  <2>7. ASSUME NEW u \in VehicleIds, NEW m \in DOMAIN proofs[u]
        PROVE  RowStep(proofs[u][m], proofs'[u][m])
    <3>1. CASE u = v
      BY <2>2, <2>4, <2>6, <3>1 DEF rows
    <3>2. CASE u # v
      <4>1. RowStep(proofs[u][m], proofs[u][m])
        BY ProofTyped DEF RowStep
      <4>2. QED
        BY <2>6, <3>2, <4>1
    <3>3. QED
      BY <3>1, <3>2
  <2>8. ASSUME NEW u \in VehicleIds
        PROVE  /\ DOMAIN proofs[u] \subseteq DOMAIN proofs'[u] /\ NewestStands(proofs'[u])
               /\ Len(proofs'[u]) <= MaxProofs
    <3>1. CASE u = v
      <4>1. Len(rows) < MaxProofs
        BY <1>1 DEF rows
      <4>2. Len(new) <= MaxProofs
        BY <2>1, <2>4, <4>1, OwnershipAssumption
      <4>3. DOMAIN rows \subseteq DOMAIN new
        BY <2>1, <2>4
      <4>4. proofs'[u] = new /\ proofs[u] = rows
        BY <2>6, <3>1 DEF rows
      <4>5. QED
        BY <2>5, <4>2, <4>3, <4>4
    <3>2. CASE u # v
      BY <2>6, <3>2 DEF ProofsInv
    <3>3. QED
      BY <3>1, <3>2
  <2>9. QED
    BY <1>1, <2>6, <2>7, <2>8 DEF AttemptsStep
<1>5. QED
  BY <1>3, <1>4

LEMMA ClaimsKeep ==
  ASSUME ProofsInv, NEW c \in Claimers, ClaimerStep(c)
  PROVE  AttemptsStep
<1>1. ASSUME NEW l \in Listings, NEW g, NEW w, NEW basis \in Bases,
             ReuseProof(c, l, g, w, basis) \/ JoinProof(c, l, g, w, basis)
      PROVE  AttemptsStep
  BY <1>1, QuietStep DEF ReuseProof, JoinProof, ProofsInv, ProjectionTyped
<1>2. ASSUME NEW v, NEW n, ReplayClaim(c, v, n)
      PROVE  AttemptsStep
  BY <1>2, QuietStep DEF ReplayClaim, ProofsInv, ProjectionTyped
<1>3. CASE ProofClosed(c) \/ CallOwnershipProvider(c) \/ ClaimerDies(c)
  BY <1>3, QuietStep DEF ProofClosed, CallOwnershipProvider, ClaimerDies, ProofsInv, ProjectionTyped
<1>4. QED
  BY <1>1, <1>2, <1>3, OpenKeeps, FinalizeKeeps DEF ClaimerStep

LEMMA OwnershipKeeps ==
  ASSUME ProofsInv, OwnershipNext
  PROVE  AttemptsStep
<1>1. ASSUME NEW l \in Listings, CreateDraft(l)
      PROVE  AttemptsStep
  BY <1>1, QuietStep DEF CreateDraft, ProofsInv, ProjectionTyped
<1>2. CASE IdentityMoves
  <2>1. PICK attempt \in Nat, status \in AttemptStatuses : Project(attempt, status)
    BY <1>2 DEF IdentityMoves, ProjectionNext, OpenAttempt, Progress, Transitions, ProofsInv,
       ProjectionTyped, AttemptStatuses, ActiveStatuses, TerminalStatuses, ResultStatuses
  <2>2. projection.version + 1 \in 1 .. MaxProjection
    BY <1>2, OwnershipAssumption DEF IdentityMoves, ProofsInv, ProjectionTyped
  <2>3. ProjectionTyped' /\ UNCHANGED proofs
    BY <1>2, <2>1, <2>2 DEF IdentityMoves, Project, ProjectionTyped
  <2>4. QED
    BY <2>3, QuietStep
<1>3. CASE IdentityLapses \/ OwnerChanges
  BY <1>3, QuietStep DEF IdentityLapses, OwnerChanges, ProofsInv, ProjectionTyped
<1>4. QED
  BY <1>1, <1>2, <1>3, ClaimsKeep, ResultKeeps, AgeKeeps DEF OwnershipNext

-----------------------------------------------------------------------------
(* The vehicles. *)

Vehicle == [registration : Registrations, vin : Vins \cup {Absent}]

\* No two vehicles share an identifier.
Apart(rows) ==
    \A i, j \in DOMAIN rows :
        i # j => /\ rows[i].registration # rows[j].registration
                 /\ rows[i].vin # rows[j].vin \/ rows[i].vin = Absent

VehiclesInv ==
    /\ vehicles \in Seq(Vehicle)
    /\ Apart(vehicles)
    /\ vehicleOf \in [Listings -> 0 .. Len(vehicles)]

VehiclesStep ==
    /\ VehiclesInv'
    /\ \A i \in DOMAIN vehicles : vehicles[i].vin \in {Absent, vehicles'[i].vin}
    /\ \A l \in Listings : vehicleOf[l] \in {0, vehicleOf'[l]}

LEMMA ApartTwo ==
  ASSUME VehiclesInv, NEW i \in DOMAIN vehicles, NEW j \in DOMAIN vehicles,
         \/ vehicles[i].registration = vehicles[j].registration
         \/ vehicles[i].vin = vehicles[j].vin /\ vehicles[i].vin # Absent
  PROVE  i = j
<1>1. Apart(vehicles)
  BY DEF VehiclesInv
<1>2. QED
  BY <1>1, Zenon DEF Apart

LEMMA SameVehicles ==
  ASSUME VehiclesInv, UNCHANGED <<vehicles, vehicleOf>>
  PROVE  VehiclesStep
  BY DEF VehiclesInv, VehiclesStep, Apart

\* A claim finds the one vehicle with either identifier, or adds one.
LEMMA LinkKeeps ==
  ASSUME VehiclesInv, NEW l \in Listings, NEW g \in Registrations, NEW w \in Vins \cup {Absent},
         Link(l, g, w)
  PROVE  VehiclesStep
<1> DEFINE known == Known(g, w)
           id == ResolvedId(g, w)
<1>1. /\ Cardinality(known) <= 1
      /\ \A i \in known : vehicles[i].registration = g /\ (w = Absent \/ vehicles[i].vin \in {Absent, w})
      /\ vehicleOf[l] \in {0, id}
      /\ vehicleOf' = [vehicleOf EXCEPT ![l] = id]
      /\ ResolveCanonical(g, w)
  BY DEF Link, Resolvable
<1>2. /\ vehicles \in Seq(Vehicle) /\ Len(vehicles) \in Nat /\ DOMAIN vehicles = 1 .. Len(vehicles)
      /\ \A i \in DOMAIN vehicles : vehicles[i] \in Vehicle
  <2> HIDE DEF Vehicle
  <2>1. vehicles \in Seq(Vehicle)
    BY DEF VehiclesInv
  <2>2. QED
    BY <2>1
<1>3. known \subseteq DOMAIN vehicles
      /\ \A i \in DOMAIN vehicles :
            i \in known <=> vehicles[i].registration = g \/ (w # Absent /\ vehicles[i].vin = w)
  BY DEF Known
<1>4. CASE known = {}
  <2> DEFINE row == [registration |-> g, vin |-> w]
  <2>1. vehicles' = Append(vehicles, row) /\ id = Len(vehicles) + 1
    BY <1>1, <1>4 DEF ResolveCanonical, ResolvedId
  <2>2. row \in Vehicle /\ row.registration = g /\ row.vin = w
    BY DEF Vehicle
  <2> HIDE DEF row, known, Vehicle
  <2>3. /\ vehicles' \in Seq(Vehicle) /\ Len(vehicles') = Len(vehicles) + 1
        /\ DOMAIN vehicles' = 1 .. Len(vehicles) + 1 /\ vehicles'[Len(vehicles) + 1] = row
        /\ \A i \in DOMAIN vehicles : vehicles'[i] = vehicles[i]
    BY <1>2, <2>1, <2>2
  <2>4. Apart(vehicles')
    <3> SUFFICES ASSUME NEW i \in DOMAIN vehicles', NEW j \in DOMAIN vehicles',
                        \/ vehicles'[i].registration = vehicles'[j].registration
                        \/ vehicles'[i].vin = vehicles'[j].vin /\ vehicles'[i].vin # Absent
                 PROVE  i = j
      BY DEF Apart
    <3>1. (i \in DOMAIN vehicles \/ i = Len(vehicles) + 1) /\ (j \in DOMAIN vehicles \/ j = Len(vehicles) + 1)
      BY <1>2, <2>3
    <3>2. \A m \in DOMAIN vehicles : vehicles[m].registration # g /\ (vehicles[m].vin # w \/ w = Absent)
      BY <1>3, <1>4
    <3>3. CASE i \in DOMAIN vehicles /\ j \in DOMAIN vehicles
      <4>1. vehicles'[i] = vehicles[i] /\ vehicles'[j] = vehicles[j]
        BY <2>3, <3>3
      <4>2. QED
        BY <3>3, <4>1, ApartTwo
    <3>4. CASE i = Len(vehicles) + 1 /\ j \in DOMAIN vehicles
      BY <2>2, <2>3, <3>2, <3>4
    <3>5. CASE j = Len(vehicles) + 1 /\ i \in DOMAIN vehicles
      BY <2>2, <2>3, <3>2, <3>5
    <3>6. QED
      BY <3>1, <3>3, <3>4, <3>5
  <2>5. vehicleOf' \in [Listings -> 0 .. Len(vehicles')]
    BY <1>1, <1>2, <2>1, <2>3 DEF VehiclesInv
  <2>6. \A m \in Listings : vehicleOf[m] \in {0, vehicleOf'[m]}
    BY <1>1 DEF VehiclesInv
  <2>7. QED
    BY <2>3, <2>4, <2>5, <2>6 DEF VehiclesStep, VehiclesInv
<1>5. CASE known # {}
  <2> DEFINE row == [vehicles[id] EXCEPT !.vin = IF vehicles[id].vin = Absent THEN w ELSE vehicles[id].vin]
  <2>1. id \in known
    BY <1>5 DEF ResolvedId
  <2>2. \A i \in known : i = id
    <3>1. IsFiniteSet(known)
      <4>1. IsFiniteSet(DOMAIN vehicles) /\ known \in SUBSET (DOMAIN vehicles)
        BY <1>2, <1>3, FS_Interval
      <4> HIDE DEF known
      <4>2. QED
        BY <4>1, FS_Subset
    <3>2. Cardinality(known) = 1
      BY <1>1, <1>5, <3>1, FS_CardinalityType, FS_EmptySet
    <3>3. PICK x : known = {x}
      BY <3>1, <3>2, FS_Singleton
    <3>4. QED
      BY <2>1, <3>3
  <2>3. vehicles' = [vehicles EXCEPT ![id] = row]
    <3>1. vehicles' = [vehicles EXCEPT ![id].vin = IF @ = Absent THEN w ELSE @]
      BY <1>1, <1>5 DEF ResolveCanonical
    <3>2. QED
      BY <3>1
  <2>4. /\ row \in Vehicle /\ row.registration = vehicles[id].registration /\ vehicles[id].registration = g
        /\ vehicles[id].vin \in {Absent, row.vin}
        /\ row.vin = w \/ (w = Absent /\ row.vin = vehicles[id].vin)
    <3>1. vehicles[id] \in Vehicle /\ vehicles[id].registration = g
          /\ (w = Absent \/ vehicles[id].vin \in {Absent, w})
      BY <1>1, <1>2, <1>3, <2>1
    <3>2. row \in Vehicle /\ row.registration = vehicles[id].registration
          /\ row.vin = IF vehicles[id].vin = Absent THEN w ELSE vehicles[id].vin
      BY <3>1 DEF Vehicle
    <3> HIDE DEF row, id
    <3>3. CASE vehicles[id].vin = Absent
      BY <3>1, <3>2, <3>3
    <3>4. CASE vehicles[id].vin # Absent
      BY <3>1, <3>2, <3>4
    <3>5. QED
      BY <3>3, <3>4
  <2> HIDE DEF row, known, id, Vehicle
  <2>5. /\ vehicles' \in Seq(Vehicle) /\ Len(vehicles') = Len(vehicles) /\ DOMAIN vehicles' = DOMAIN vehicles
        /\ vehicles'[id] = row /\ id \in DOMAIN vehicles
        /\ \A i \in DOMAIN vehicles : i # id => vehicles'[i] = vehicles[i]
    BY <1>2, <1>3, <2>1, <2>3, <2>4
  <2>6. Apart(vehicles')
    <3>1. ASSUME NEW i \in DOMAIN vehicles, NEW j \in DOMAIN vehicles,
                 \/ vehicles[i].registration = vehicles[j].registration
                 \/ vehicles[i].vin = vehicles[j].vin /\ vehicles[i].vin # Absent
          PROVE  i = j
      BY <3>1, ApartTwo
    <3>2. ASSUME NEW i \in DOMAIN vehicles, i # id
          PROVE  vehicles[i].registration # row.registration /\ (vehicles[i].vin # row.vin \/ row.vin = Absent)
      <4>1. i \notin known
        BY <2>2, <3>2
      <4>2. vehicles[i].registration # g /\ (vehicles[i].vin # w \/ w = Absent)
        BY <1>3, <3>2, <4>1
      <4>3. QED
        BY <2>4, <2>5, <3>1, <3>2, <4>2
    <3>3. QED
      BY <2>5, <3>1, <3>2 DEF Apart
  <2>7. \A i \in DOMAIN vehicles : vehicles[i].vin \in {Absent, vehicles'[i].vin}
    BY <2>4, <2>5
  <2>8. vehicleOf' \in [Listings -> 0 .. Len(vehicles')] /\ \A m \in Listings : vehicleOf[m] \in {0, vehicleOf'[m]}
    BY <1>1, <1>2, <2>5 DEF VehiclesInv
  <2>9. QED
    BY <2>5, <2>6, <2>7, <2>8 DEF VehiclesStep, VehiclesInv
<1>6. QED
  BY <1>4, <1>5

LEMMA VehiclesKeep ==
  ASSUME VehiclesInv, OwnershipNext
  PROVE  VehiclesStep
<1>1. ASSUME NEW c \in Claimers, ClaimerStep(c)
      PROVE  VehiclesStep
  <2>1. ASSUME NEW l \in Listings, NEW g \in Registrations, NEW w \in Vins \cup {Absent}, NEW basis \in Bases,
               ReuseProof(c, l, g, w, basis) \/ JoinProof(c, l, g, w, basis) \/ OpenProof(c, l, g, w, basis)
        PROVE  VehiclesStep
    BY <2>1, LinkKeeps DEF ReuseProof, JoinProof, OpenProof
  <2>2. ASSUME NEW v, NEW n, ReplayClaim(c, v, n)
        PROVE  VehiclesStep
    BY <2>2, SameVehicles DEF ReplayClaim, evidenceVars
  <2>3. CASE \/ ProofClosed(c) \/ CallOwnershipProvider(c) \/ ClaimerDies(c)
             \/ FinalizeProofSession(c) \/ FinalizeProofFailure(c)
    BY <2>3, SameVehicles DEF ProofClosed, CallOwnershipProvider, ClaimerDies, FinalizeProofSession,
       FinalizeProofFailure, evidenceVars
  <2>4. QED
    BY <1>1, <2>1, <2>2, <2>3 DEF ClaimerStep
<1>2. ASSUME NEW v, NEW n, NEW status, ApplyProofResult(v, n, status) \/ ProofAges(v, n)
      PROVE  VehiclesStep
  BY <1>2, SameVehicles DEF ApplyProofResult, ProofAges, evidenceVars
<1>3. ASSUME NEW l, CreateDraft(l)
      PROVE  VehiclesStep
  BY <1>3, SameVehicles DEF CreateDraft
<1>4. CASE IdentityMoves \/ IdentityLapses \/ OwnerChanges
  BY <1>4, SameVehicles DEF IdentityMoves, IdentityLapses, OwnerChanges, evidenceVars
<1>5. QED
  BY <1>1, <1>2, <1>3, <1>4 DEF OwnershipNext

-----------------------------------------------------------------------------
(* The submissions. *)

\* What moderators were asked about still holds.
RequestsInv ==
    \A r \in requests :
        /\ r.listing \in Listings /\ r.vehicle \in VehicleIds
        /\ r.vehicle = vehicleOf[r.listing]
        /\ r.proof \in DOMAIN proofs[r.vehicle]
        /\ proofs[r.vehicle][r.proof].status = "verified"
        /\ proofs[r.vehicle][r.proof].identity = r.identity

EvidenceInv == ProofsInv /\ VehiclesInv /\ RequestsInv

LEMMA EvidenceStarts == SubmissionInit => EvidenceInv
<1> SUFFICES ASSUME SubmissionInit PROVE EvidenceInv
  OBVIOUS
<1>1. OwnershipInit /\ requests = {}
  BY DEF SubmissionInit
<1>2. ProofsInv
  BY <1>1, OwnershipAssumption
  DEF OwnershipInit, ProjectionInit, NoProjection, ProofsInv, ProjectionTyped, NewestStands,
      AttemptStatuses, TerminalStatuses, ResultStatuses
<1>3. VehiclesInv
  BY <1>1 DEF OwnershipInit, VehiclesInv, Apart
<1>4. QED
  BY <1>1, <1>2, <1>3 DEF EvidenceInv, RequestsInv

\* There are no more vehicles than registration numbers.
LEMMA VehiclesBounded ==
  ASSUME NEW rows \in Seq(Vehicle), Apart(rows)
  PROVE  Len(rows) \in Nat /\ 1 .. Len(rows) \subseteq VehicleIds
<1> DEFINE f == [i \in 1 .. Len(rows) |-> rows[i].registration]
<1>1. /\ Len(rows) \in Nat /\ DOMAIN rows = 1 .. Len(rows)
      /\ \A i \in 1 .. Len(rows) : rows[i] \in Vehicle
  <2> HIDE DEF Vehicle
  <2>1. QED
    OBVIOUS
<1>2. f \in [1 .. Len(rows) -> Registrations]
  BY <1>1 DEF Vehicle
<1>3. ASSUME NEW i \in 1 .. Len(rows), NEW j \in 1 .. Len(rows), f[i] = f[j]
      PROVE  i = j
  <2>1. i \in DOMAIN rows /\ j \in DOMAIN rows /\ rows[i].registration = rows[j].registration
    BY <1>1, <1>3
  <2>2. QED
    BY <2>1, Zenon DEF Apart
<1> HIDE DEF f
<1>4. f \in Injection(1 .. Len(rows), Registrations)
  BY <1>2, <1>3 DEF Injection, IsInjective
<1>5. Cardinality(1 .. Len(rows)) <= Cardinality(Registrations) /\ Cardinality(Registrations) \in Nat
  BY <1>4, OwnershipAssumption, FS_Injection, FS_CardinalityType
<1> DEFINE size == Len(rows)
<1>6. size \in Nat
  BY <1>1
<1> HIDE DEF size
<1>7. Cardinality(1 .. size) = size
  BY <1>6, FS_Interval
<1>8. size <= Cardinality(Registrations)
  BY <1>5, <1>7 DEF size
<1>9. QED
  BY <1>5, <1>6, <1>8 DEF VehicleIds, size

LEMMA VehicleNumbers ==
  ASSUME VehiclesInv, NEW l \in Listings, vehicleOf[l] # 0
  PROVE  vehicleOf[l] \in VehicleIds
<1>1. vehicles \in Seq(Vehicle) /\ Apart(vehicles) /\ vehicleOf[l] \in 0 .. Len(vehicles)
  BY DEF VehiclesInv
<1>2. Len(vehicles) \in Nat /\ 1 .. Len(vehicles) \subseteq VehicleIds
  BY <1>1, VehiclesBounded
<1> HIDE DEF VehicleIds
<1>3. vehicleOf[l] \in 1 .. Len(vehicles)
  BY <1>1, <1>2
<1>4. QED
  BY <1>2, <1>3

\* Evidence that is called verified is a verified attempt for the vehicle.
LEMMA EvidenceIsVerified ==
  ASSUME EvidenceInv, NEW l \in Listings, vehicleOf[l] # 0, Evidence(l).attempt # 0,
         Evidence(l).status = "verified"
  PROVE  /\ vehicleOf[l] \in VehicleIds
         /\ Evidence(l).attempt \in DOMAIN proofs[vehicleOf[l]]
         /\ proofs[vehicleOf[l]][Evidence(l).attempt].status = "verified"
<1> DEFINE rows == proofs[vehicleOf[l]]
           context == Context(l, PreferredBasis(ProofsOf(l), l))
<1>1. /\ vehicleOf[l] \in VehicleIds /\ rows \in Seq(Proof) /\ NewestStands(rows)
      /\ Len(rows) \in Nat /\ DOMAIN rows = 1 .. Len(rows) /\ ProofsOf(l) = rows
  BY VehicleNumbers, ProofTyped DEF EvidenceInv, ProofsInv, ProofsOf
<1>2. Selection(l).attempt = IF Proves(rows, context) THEN Len(rows) ELSE 0
  BY <1>1, PolicyFindsNewest DEF Selection
<1>3. CASE Selection(l).attempt # 0
  <2>1. Evidence(l).attempt = Selection(l).attempt
    BY <1>3 DEF Evidence
  <2>2. Proves(rows, context) /\ Evidence(l).attempt = Len(rows)
    BY <1>2, <1>3, <2>1
  <2>3. rows # <<>> /\ rows[Len(rows)].status = "verified"
    BY <2>2 DEF Proves
  <2>4. QED
    BY <1>1, <2>2, <2>3
<1>4. CASE Selection(l).attempt = 0
  <2>1. /\ OwnProofs(l) # {} /\ Evidence(l).attempt = NewestOf(OwnProofs(l))
        /\ Evidence(l).status = BlockedStatus(Selection(l).code, rows[NewestOf(OwnProofs(l))].status)
    BY <1>1, <1>4 DEF Evidence
  <2>2. OwnProofs(l) \subseteq DOMAIN rows
    BY <1>1 DEF OwnProofs
  <2>3. NewestOf(OwnProofs(l)) \in DOMAIN rows
    BY <1>1, <2>1, <2>2, Newest
  <2>4. rows[NewestOf(OwnProofs(l))].status = "verified"
    BY <2>1 DEF BlockedStatus
  <2>5. QED
    BY <1>1, <2>1, <2>3, <2>4
<1>5. QED
  BY <1>3, <1>4

LEMMA RequestsStand ==
  ASSUME EvidenceInv, AttemptsStep, VehiclesStep, NEW r \in requests
  PROVE  /\ r.listing \in Listings /\ r.vehicle \in VehicleIds
         /\ r.vehicle = vehicleOf'[r.listing]
         /\ r.proof \in DOMAIN proofs'[r.vehicle]
         /\ proofs'[r.vehicle][r.proof].status = "verified"
         /\ proofs'[r.vehicle][r.proof].identity = r.identity
<1>1. /\ r.listing \in Listings /\ r.vehicle \in VehicleIds
      /\ r.vehicle = vehicleOf[r.listing]
      /\ r.proof \in DOMAIN proofs[r.vehicle]
      /\ proofs[r.vehicle][r.proof].status = "verified"
      /\ proofs[r.vehicle][r.proof].identity = r.identity
  BY DEF EvidenceInv, RequestsInv
<1>2. r.vehicle # 0
  BY <1>1 DEF VehicleIds
<1>3. vehicleOf'[r.listing] = r.vehicle
  BY <1>1, <1>2 DEF VehiclesStep
<1>4. DOMAIN proofs[r.vehicle] \subseteq DOMAIN proofs'[r.vehicle]
      /\ RowStep(proofs[r.vehicle][r.proof], proofs'[r.vehicle][r.proof])
  BY <1>1 DEF AttemptsStep
<1>5. QED
  BY <1>1, <1>3, <1>4 DEF RowStep

LEMMA SubmitKeeps ==
  ASSUME EvidenceInv, NEW l \in Listings, Submit(l)
  PROVE  AttemptsStep /\ VehiclesStep /\ RequestsInv'
<1>1. UNCHANGED <<projection, proofs, vehicles, vehicleOf>>
  BY DEF Submit, ownershipVars
<1>2. AttemptsStep /\ VehiclesStep
  BY <1>1, QuietStep, SameVehicles DEF EvidenceInv, ProofsInv, ProjectionTyped
<1> DEFINE q == [listing |-> l, version |-> version[l], vehicle |-> vehicleOf[l],
                 proof |-> Evidence(l).attempt, identity |-> projection.version]
<1>3. requests' = requests \/ (requests' = requests \cup {q} /\ SubmissionStatus(l) = "moderation_pending")
  BY DEF Submit, AsksModeration
<1>4. ASSUME SubmissionStatus(l) = "moderation_pending"
      PROVE  /\ q.listing \in Listings /\ q.vehicle \in VehicleIds
             /\ q.vehicle = vehicleOf[q.listing]
             /\ q.proof \in DOMAIN proofs[q.vehicle]
             /\ proofs[q.vehicle][q.proof].status = "verified"
             /\ proofs[q.vehicle][q.proof].identity = q.identity
  <2>1. OwnershipReady(l) /\ ContentReady(l)
    BY <1>4 DEF SubmissionStatus
  <2>2. vehicleOf[l] # 0 /\ ProofsOf(l) = proofs[vehicleOf[l]]
    BY <2>1 DEF ContentReady, ProofsOf
  <2>3. /\ Evidence(l).attempt # 0 /\ Evidence(l).status = "verified"
        /\ ProofsOf(l)[Evidence(l).attempt].identity = projection.version
    BY <2>1 DEF OwnershipReady, IdentityStale
  <2>4. QED
    BY <2>2, <2>3, EvidenceIsVerified
<1> HIDE DEF q
<1>5. \A r \in requests : /\ r.listing \in Listings /\ r.vehicle \in VehicleIds
                         /\ r.vehicle = vehicleOf'[r.listing]
                         /\ r.proof \in DOMAIN proofs'[r.vehicle]
                         /\ proofs'[r.vehicle][r.proof].status = "verified"
                         /\ proofs'[r.vehicle][r.proof].identity = r.identity
  BY <1>2, RequestsStand
<1>6. QED
  BY <1>1, <1>2, <1>3, <1>4, <1>5 DEF RequestsInv

LEMMA EvidenceStep ==
  EvidenceInv /\ [SubmissionNext]_submissionVars => EvidenceInv' /\ AttemptsStep /\ VehiclesStep
<1> SUFFICES ASSUME EvidenceInv, [SubmissionNext]_submissionVars
             PROVE  EvidenceInv' /\ AttemptsStep /\ VehiclesStep
  OBVIOUS
<1>1. ProofsInv /\ VehiclesInv
  BY DEF EvidenceInv
<1>2. AttemptsStep /\ VehiclesStep /\ (RequestsInv' \/ UNCHANGED requests)
  <2>1. CASE OwnershipNext /\ UNCHANGED <<contentVars, recordVars>>
    BY <1>1, <2>1, OwnershipKeeps, VehiclesKeep DEF recordVars
  <2>2. CASE UNCHANGED <<projection, proofs, vehicles, vehicleOf, requests>>
    BY <1>1, <2>2, QuietStep, SameVehicles DEF ProofsInv, ProjectionTyped
  <2>3. ASSUME NEW l \in Listings, Submit(l)
        PROVE  AttemptsStep /\ VehiclesStep /\ RequestsInv'
    BY <2>3, SubmitKeeps
  <2>4. ASSUME NEW l \in Listings, Edit(l)
        PROVE  UNCHANGED <<projection, proofs, vehicles, vehicleOf, requests>>
    BY <2>4 DEF Edit, otherOwnershipVars, recordVars
  <2>5. ASSUME NEW l \in Listings, NEW o, FinishMedia(l, o)
        PROVE  UNCHANGED <<projection, proofs, vehicles, vehicleOf, requests>>
    BY <2>5 DEF FinishMedia, ownershipVars, recordVars
  <2>6. CASE SellerChanges \/ UNCHANGED submissionVars
    <3>1. UNCHANGED <<projection, proofs, vehicles, vehicleOf, requests>>
      BY <2>6 DEF SellerChanges, submissionVars, ownershipVars, recordVars
    <3>2. QED
      BY <2>2, <3>1
  <2>7. ASSUME NEW l \in Listings, UpdateListing(l) \/ WriteLocation(l)
        PROVE  Edit(l)
    BY <2>7 DEF UpdateListing, WriteLocation
  <2>8. ASSUME NEW l \in Listings, NEW o, CreateIntent(l, o) \/ CompleteUpload(l, o) \/ RemoveMedia(l, o)
        PROVE  Edit(l)
    BY <2>8 DEF CreateIntent, CompleteUpload, RemoveMedia
  <2>9. QED
    BY <2>1, <2>2, <2>3, <2>4, <2>5, <2>6, <2>7, <2>8 DEF SubmissionNext
<1>3. ProofsInv' /\ VehiclesInv'
  BY <1>2 DEF AttemptsStep, VehiclesStep, ProofsInv
<1>4. RequestsInv'
  <2>1. CASE UNCHANGED requests
    <3>1. ASSUME NEW r \in requests
          PROVE  /\ r.listing \in Listings /\ r.vehicle \in VehicleIds
                 /\ r.vehicle = vehicleOf'[r.listing]
                 /\ r.proof \in DOMAIN proofs'[r.vehicle]
                 /\ proofs'[r.vehicle][r.proof].status = "verified"
                 /\ proofs'[r.vehicle][r.proof].identity = r.identity
      BY <1>2, RequestsStand
    <3>2. QED
      BY <2>1, <3>1 DEF RequestsInv
  <2>2. QED
    BY <1>2, <2>1
<1>5. QED
  BY <1>2, <1>3, <1>4 DEF EvidenceInv

\* The projection moves as IdentityProjection promises, and nothing else moves it.
LEMMA ProjectionMoves == OwnershipNext => ProjectionNext \/ UNCHANGED projection
<1>1. ASSUME NEW c, NEW l, NEW g, NEW w, NEW basis,
             ReuseProof(c, l, g, w, basis) \/ JoinProof(c, l, g, w, basis) \/ OpenProof(c, l, g, w, basis)
      PROVE  UNCHANGED projection
  BY <1>1 DEF ReuseProof, JoinProof, OpenProof
<1>2. ASSUME NEW c, NEW v, NEW n, ReplayClaim(c, v, n)
      PROVE  UNCHANGED projection
  BY <1>2 DEF ReplayClaim
<1>3. ASSUME NEW c, \/ ProofClosed(c) \/ CallOwnershipProvider(c) \/ ClaimerDies(c)
                    \/ FinalizeProofSession(c) \/ FinalizeProofFailure(c)
      PROVE  UNCHANGED projection
  BY <1>3 DEF ProofClosed, CallOwnershipProvider, ClaimerDies, FinalizeProofSession, FinalizeProofFailure
<1>4. ASSUME NEW c, ClaimerStep(c)
      PROVE  UNCHANGED projection
  BY <1>1, <1>2, <1>3, <1>4 DEF ClaimerStep
<1>5. ASSUME NEW v, NEW n, NEW status, ApplyProofResult(v, n, status) \/ ProofAges(v, n)
      PROVE  UNCHANGED projection
  BY <1>5 DEF ApplyProofResult, ProofAges
<1>6. ASSUME NEW l, CreateDraft(l)
      PROVE  UNCHANGED projection
  BY <1>6 DEF CreateDraft
<1>7. IdentityMoves \/ IdentityLapses \/ OwnerChanges => ProjectionNext \/ UNCHANGED projection
  BY DEF IdentityMoves, IdentityLapses, OwnerChanges
<1>8. QED
  BY <1>4, <1>5, <1>6, <1>7 DEF OwnershipNext

LEMMA SubmissionMoves == SubmissionNext => ProjectionNext \/ UNCHANGED projection
<1>1. ASSUME NEW l, Edit(l)
      PROVE  UNCHANGED projection
  BY <1>1 DEF Edit, otherOwnershipVars
<1>2. ASSUME NEW l, NEW o, \/ Submit(l) \/ UpdateListing(l) \/ WriteLocation(l) \/ CreateIntent(l, o)
                          \/ CompleteUpload(l, o) \/ RemoveMedia(l, o) \/ FinishMedia(l, o)
      PROVE  UNCHANGED projection
  BY <1>1, <1>2 DEF Submit, UpdateListing, WriteLocation, CreateIntent, CompleteUpload, RemoveMedia,
     FinishMedia, ownershipVars
<1>3. SellerChanges => UNCHANGED projection
  BY DEF SellerChanges, ownershipVars
<1>4. QED
  BY <1>2, <1>3, ProjectionMoves DEF SubmissionNext

LEMMA EvidenceSafe == SubmissionSpec => []EvidenceInv
  BY EvidenceStarts, EvidenceStep, PTL DEF SubmissionSpec

LEMMA SearchesAgree == EvidenceInv => SelectionIsNewestProof
<1>1. ASSUME EvidenceInv, NEW v \in VehicleIds
      PROVE  /\ \A n \in DOMAIN proofs[v] : n < Len(proofs[v]) => proofs[v][n].superseded
             /\ \A l \in Listings, basis \in Bases :
                   Select(proofs[v], Context(l, basis)).attempt =
                       IF Proves(proofs[v], Context(l, basis)) THEN Len(proofs[v]) ELSE 0
  <2>1. proofs[v] \in Seq(Proof) /\ NewestStands(proofs[v])
    BY <1>1 DEF EvidenceInv, ProofsInv
  <2>2. QED
    BY <2>1, PolicyFindsNewest DEF NewestStands
<1>2. QED
  BY <1>1 DEF SelectionIsNewestProof

\* The reuse policy is sound and complete: however the attempts for a vehicle
\* came about, its searches find evidence exactly when the newest attempt proves
\* ownership now (ownership_reuse.py, select_reusable_ownership).
THEOREM PolicyIsExact == SubmissionSpec => []SelectionIsNewestProof
  BY SearchesAgree, EvidenceSafe, PTL

\* A verdict comes to an attempt that stands and is bound to a valid identity, or to none.
VerdictsStandStep ==
    \A v \in VehicleIds : \A n \in DOMAIN proofs[v] :
       proofs'[v][n].status = "verified" /\ proofs[v][n].status # "verified" =>
           /\ ~proofs[v][n].superseded /\ n = Len(proofs[v])
           /\ IdentityValid /\ proofs[v][n].identity = projection.version

LEMMA StandingVerdicts == EvidenceInv /\ AttemptsStep => VerdictsStandStep
<1>1. ASSUME EvidenceInv, AttemptsStep, NEW v \in VehicleIds, NEW n \in DOMAIN proofs[v],
             proofs'[v][n].status = "verified", proofs[v][n].status # "verified"
      PROVE  /\ ~proofs[v][n].superseded /\ n = Len(proofs[v])
             /\ IdentityValid /\ proofs[v][n].identity = projection.version
  <2>1. ~proofs[v][n].superseded /\ IdentityValid /\ proofs[v][n].identity = projection.version
    BY <1>1 DEF AttemptsStep, RowStep
  <2>2. NewestStands(proofs[v]) /\ Len(proofs[v]) \in Nat /\ n \in 1 .. Len(proofs[v])
    BY <1>1, ProofTyped DEF EvidenceInv, ProofsInv
  <2>3. ~(n < Len(proofs[v]))
    BY <2>1, <2>2 DEF NewestStands
  <2>4. QED
    BY <2>1, <2>2, <2>3
<1>2. QED
  BY <1>1 DEF VerdictsStandStep

LEMMA VerdictMoves == SubmissionSpec => [][VerdictsStandStep]_ownershipVars
<1>1. EvidenceInv /\ [SubmissionNext]_submissionVars => [VerdictsStandStep]_ownershipVars
  BY StandingVerdicts, EvidenceStep
<1>2. QED
  BY <1>1, EvidenceSafe, PTL DEF SubmissionSpec

\* No late session and no late result makes an attempt evidence once a newer one
\* replaced it (OwnershipVerificationService.apply_result).
THEOREM SupersededStaysOut == SubmissionSpec => SupersededNeverVerified
<1>1. VerdictsStandStep => \A v \in VehicleIds : \A n \in DOMAIN proofs[v] :
          proofs'[v][n].status = "verified" /\ proofs[v][n].status # "verified" =>
              ~proofs[v][n].superseded /\ n = Len(proofs[v])
  BY DEF VerdictsStandStep
<1>2. QED
  BY <1>1, VerdictMoves, PTL DEF SupersededNeverVerified

\* However the owner's identity is lost and verified anew between a start and its
\* result, a verdict comes only while the identity of the attempt is the valid one
\* (_identity_valid and _identity_stale in OwnershipVerificationService.apply_result).
THEOREM VerdictsAreBound == SubmissionSpec => VerdictsFollowIdentity
<1>1. VerdictsStandStep => \A v \in VehicleIds : \A n \in DOMAIN proofs[v] :
          proofs'[v][n].status = "verified" /\ proofs[v][n].status # "verified" =>
              IdentityValid /\ proofs[v][n].identity = projection.version
  BY DEF VerdictsStandStep
<1>2. QED
  BY <1>1, VerdictMoves, PTL DEF VerdictsFollowIdentity

\* What VehicleIdentityStable asks of a step.
IdentifiersStay ==
    /\ \A i, j \in DOMAIN vehicles' :
          i # j => /\ vehicles'[i].registration # vehicles'[j].registration
                   /\ vehicles'[i].vin # vehicles'[j].vin \/ vehicles'[i].vin = Absent
    /\ \A i \in DOMAIN vehicles : vehicles[i].vin \in {Absent, vehicles'[i].vin}
    /\ \A l \in Listings : vehicleOf[l] \in {0, vehicleOf'[l]}

LEMMA StayingIdentifiers == VehiclesStep => IdentifiersStay
  BY DEF VehiclesStep, VehiclesInv, Apart, IdentifiersStay

\* No identifier moves between vehicles and no listing is relinked, whatever
\* claims come (CanonicalVehicleRepository, OwnershipVerificationService._claim).
THEOREM VehiclesStayApart == SubmissionSpec => VehicleIdentityStable
<1>1. EvidenceInv /\ [SubmissionNext]_submissionVars => [IdentifiersStay]_ownershipVars
  BY StayingIdentifiers, EvidenceStep
<1>2. SubmissionSpec => [][IdentifiersStay]_ownershipVars
  BY <1>1, EvidenceSafe, PTL DEF SubmissionSpec
<1>3. QED
  BY <1>2 DEF VehicleIdentityStable, IdentifiersStay

\* A moderator is asked only about a verified proof of the listing's own vehicle
\* bound to the owner's identity, and it stays one (ListingSubmissionService.submit).
THEOREM RequestsNameEvidence == SubmissionSpec => []RequestsBoundToIdentity
<1>1. EvidenceInv => RequestsBoundToIdentity
  BY DEF EvidenceInv, RequestsInv, RequestsBoundToIdentity
<1>2. QED
  BY <1>1, EvidenceSafe, PTL

-----------------------------------------------------------------------------
(* Moderation. *)

\* The last row is the one that is not superseded.
LastLives(rows) == rows # <<>> => Live(rows) = {Len(rows)}

RecordsTyped ==
    /\ version \in [Listings -> Nat]
    /\ draft \in [Listings -> [complete : BOOLEAN, located : BOOLEAN]]
    /\ media \in [Listings -> [Orders -> MediaStatuses]]
    /\ submissions \in [Listings -> Seq(Submission)]
    /\ publication \in [Listings -> [moderation : {"not_started", "pending"}, submitted : Nat]]

\* What the records say of the last submission.
RecordsAgree(l) ==
    /\ LastLives(submissions[l])
    /\ submissions[l] = <<>> => publication[l] = [moderation |-> "not_started", submitted |-> 0]
    /\ submissions[l] # <<>> =>
          /\ publication[l].submitted = submissions[l][Len(submissions[l])].version
          /\ publication[l].moderation = "pending" <=>
                submissions[l][Len(submissions[l])].status = "moderation_pending"
          /\ publication[l].moderation = "pending" =>
                \E r \in requests : r.listing = l /\ r.version = publication[l].submitted

\* What moderators look at: a version is submitted once it exists, and until the
\* next one the content is what was submitted.
ContentStands(l) ==
    /\ publication[l].submitted <= version[l]
    /\ publication[l].moderation = "pending" /\ publication[l].submitted = version[l] =>
          draft[l].complete /\ draft[l].located /\ MediaReady(l)

ModerationInv ==
    /\ EvidenceInv
    /\ RecordsTyped
    /\ \A l \in Listings : RecordsAgree(l) /\ ContentStands(l)

LEMMA ModerationStarts == SubmissionInit => ModerationInv
<1> SUFFICES ASSUME SubmissionInit PROVE ModerationInv
  OBVIOUS
<1>1. RecordsTyped
  BY DEF SubmissionInit, OwnershipInit, RecordsTyped, MediaStatuses
<1>2. ASSUME NEW l \in Listings
      PROVE  RecordsAgree(l) /\ ContentStands(l)
  BY DEF SubmissionInit, OwnershipInit, RecordsAgree, ContentStands, LastLives
<1>3. QED
  BY <1>1, <1>2, EvidenceStarts DEF ModerationInv

\* The row of a version, if it is the last.
LEMMA RowOfVersion ==
  ASSUME NEW rows \in Seq(Submission), LastLives(rows), NEW v
  PROVE  OfVersion(rows, v) = IF rows # <<>> /\ rows[Len(rows)].version = v THEN {Len(rows)} ELSE {}
<1>1. CASE rows = <<>>
  BY <1>1 DEF OfVersion, Live
<1>2. CASE rows # <<>>
  BY <1>2 DEF OfVersion, LastLives
<1>3. QED
  BY <1>1, <1>2

\* Recording a submission leaves it the last row, and the only one that lives.
LEMMA RecordKeeps ==
  ASSUME NEW rows \in Seq(Submission), LastLives(rows), NEW row \in Submission, ~row.superseded
  PROVE  LET new == RecordAttempt(rows, row) IN
         /\ new \in Seq(Submission) /\ new # <<>> /\ LastLives(new) /\ new[Len(new)] = row
<1> DEFINE v == row.version
           older == SupersedeOtherVersions(rows, v)
           new == RecordAttempt(rows, row)
<1>1. Len(rows) \in Nat /\ DOMAIN rows = 1 .. Len(rows) /\ \A i \in DOMAIN rows : rows[i] \in Submission
  <2> HIDE DEF Submission
  <2>1. QED
    OBVIOUS
<1>2. ASSUME NEW i \in DOMAIN rows
      PROVE  /\ older[i] \in Submission
             /\ older[i].superseded <=> rows[i].superseded \/ rows[i].version # v
  <2>1. rows[i] \in Submission
    BY <1>1
  <2>2. older[i] = IF rows[i].version # v THEN [rows[i] EXCEPT !.superseded = TRUE] ELSE rows[i]
    BY DEF SupersedeOtherVersions
  <2> HIDE DEF older, v
  <2>3. CASE rows[i].version # v
    BY <2>1, <2>2, <2>3 DEF Submission
  <2>4. CASE rows[i].version = v
    BY <2>1, <2>2, <2>4 DEF Submission
  <2>5. QED
    BY <2>3, <2>4
<1>3. older \in Seq(Submission) /\ Len(older) = Len(rows) /\ DOMAIN older = DOMAIN rows
  <2> HIDE DEF Submission
  <2>1. older = [i \in 1 .. Len(rows) |-> older[i]]
    BY <1>1 DEF SupersedeOtherVersions
  <2>2. older \in [1 .. Len(rows) -> Submission]
    BY <1>1, <1>2, <2>1
  <2> HIDE DEF older
  <2>3. QED
    BY <1>1, <2>2
<1> HIDE DEF older
<1>4. CASE OfVersion(rows, v) = {}
  <2>1. new = Append(older, row)
    BY <1>4 DEF RecordAttempt, older
  <2> HIDE DEF Submission
  <2>2. /\ new \in Seq(Submission) /\ Len(new) = Len(rows) + 1 /\ DOMAIN new = 1 .. Len(rows) + 1
        /\ new[Len(rows) + 1] = row /\ \A i \in DOMAIN rows : new[i] = older[i]
    BY <1>1, <1>3, <2>1
  <2> HIDE DEF new
  <2>3. ASSUME NEW i \in DOMAIN rows PROVE new[i].superseded
    <3>1. rows[i].superseded \/ rows[i].version # v
      BY <1>4 DEF OfVersion, Live
    <3>2. QED
      BY <1>2, <2>2, <3>1
  <2>4. Live(new) = {Len(new)}
    <3>1. \A i \in DOMAIN new : i \in DOMAIN rows \/ i = Len(new)
      BY <1>1, <2>2
    <3>2. Len(new) \in DOMAIN new /\ ~new[Len(new)].superseded
      BY <1>1, <2>2
    <3>3. QED
      BY <2>3, <3>1, <3>2 DEF Live
  <2>5. QED
    BY <1>1, <2>2, <2>4 DEF LastLives, new
<1>5. CASE OfVersion(rows, v) # {}
  <2>1. rows # <<>> /\ rows[Len(rows)].version = v /\ OfVersion(rows, v) = {Len(rows)}
    BY <1>5, RowOfVersion
  <2>2. NewestOf(OfVersion(rows, v)) = Len(rows) /\ Len(rows) \in DOMAIN rows
    BY <1>1, <2>1, NewestIsLast
  <2>3. new = [older EXCEPT ![Len(rows)] = row]
    BY <1>5, <2>2 DEF RecordAttempt, older
  <2> HIDE DEF Submission
  <2>4. /\ new \in Seq(Submission) /\ Len(new) = Len(rows) /\ DOMAIN new = DOMAIN rows
        /\ new[Len(rows)] = row /\ \A i \in DOMAIN rows : i # Len(rows) => new[i] = older[i]
    BY <1>1, <1>3, <2>2, <2>3
  <2> HIDE DEF new
  <2>5. ASSUME NEW i \in DOMAIN rows, i # Len(rows) PROVE new[i].superseded
    <3>1. rows[i].superseded
      BY <2>1, <2>5 DEF LastLives, Live
    <3>2. QED
      BY <1>2, <2>4, <2>5, <3>1
  <2>6. Live(new) = {Len(new)}
    BY <2>2, <2>4, <2>5 DEF Live
  <2>7. QED
    BY <1>1, <2>2, <2>4, <2>6 DEF LastLives, new
<1>6. QED
  BY <1>4, <1>5

\* Evidence and drafts move on beside the records.
LEMMA VersionsGrow ==
  ASSUME RecordsTyped, OwnershipNext
  PROVE  version' \in [Listings -> Nat] /\ \A l \in Listings : version[l] <= version'[l]
<1>1. version \in [Listings -> Nat]
  BY DEF RecordsTyped
<1>2. ASSUME UNCHANGED version
      PROVE  version' \in [Listings -> Nat] /\ \A l \in Listings : version[l] <= version'[l]
  BY <1>1, <1>2
<1>3. ASSUME NEW l \in Listings, NEW g, NEW w, Link(l, g, w)
      PROVE  version' \in [Listings -> Nat] /\ \A m \in Listings : version[m] <= version'[m]
  <2>1. version' = [version EXCEPT ![l] = version[l] + 1] \/ version' = [version EXCEPT ![l] = version[l]]
    BY <1>3 DEF Link
  <2>2. QED
    BY <1>1, <2>1
<1>4. ASSUME NEW c \in Claimers, ClaimerStep(c)
      PROVE  UNCHANGED version \/ \E l \in Listings : \E g, w : Link(l, g, w)
  <2>1. ASSUME NEW l \in Listings, NEW g, NEW w, NEW basis,
               ReuseProof(c, l, g, w, basis) \/ JoinProof(c, l, g, w, basis) \/ OpenProof(c, l, g, w, basis)
        PROVE  \E m \in Listings : \E h, x : Link(m, h, x)
    <3>1. Link(l, g, w)
      BY <2>1 DEF ReuseProof, JoinProof, OpenProof
    <3>2. QED
      BY <3>1
  <2>2. ASSUME NEW v, NEW n, ReplayClaim(c, v, n)
        PROVE  UNCHANGED version
    BY <2>2 DEF ReplayClaim, evidenceVars
  <2>3. CASE \/ ProofClosed(c) \/ CallOwnershipProvider(c) \/ ClaimerDies(c)
             \/ FinalizeProofSession(c) \/ FinalizeProofFailure(c)
    BY <2>3 DEF ProofClosed, CallOwnershipProvider, ClaimerDies, FinalizeProofSession,
       FinalizeProofFailure, evidenceVars
  <2>4. QED
    BY <1>4, <2>1, <2>2, <2>3 DEF ClaimerStep
<1>5. ASSUME NEW v, NEW n, NEW status, ApplyProofResult(v, n, status) \/ ProofAges(v, n)
      PROVE  UNCHANGED version
  BY <1>5 DEF ApplyProofResult, ProofAges, evidenceVars
<1>6. ASSUME NEW l \in Listings, CreateDraft(l)
      PROVE  version' \in [Listings -> Nat] /\ \A m \in Listings : version[m] <= version'[m]
  BY <1>1, <1>6 DEF CreateDraft
<1>7. CASE IdentityMoves \/ IdentityLapses \/ OwnerChanges
  BY <1>2, <1>7 DEF IdentityMoves, IdentityLapses, OwnerChanges, evidenceVars
<1>8. QED
  BY <1>2, <1>3, <1>4, <1>5, <1>6, <1>7 DEF OwnershipNext

LEMMA RecordsStay ==
  ASSUME ModerationInv, UNCHANGED recordVars, NEW l \in Listings
  PROVE  RecordsAgree(l)'
  BY DEF ModerationInv, recordVars, RecordsAgree, LastLives, Live

LEMMA ContentStays ==
  ASSUME ModerationInv, UNCHANGED <<contentVars, recordVars>>, OwnershipNext
  PROVE  RecordsTyped' /\ \A l \in Listings : ContentStands(l)'
<1>1. /\ version' \in [Listings -> Nat] /\ \A l \in Listings : version[l] <= version'[l]
      /\ version \in [Listings -> Nat] /\ \A l \in Listings : publication[l].submitted \in Nat
  BY VersionsGrow DEF ModerationInv, RecordsTyped
<1>2. RecordsTyped'
  BY <1>1 DEF ModerationInv, RecordsTyped, contentVars, recordVars
<1>3. ASSUME NEW l \in Listings
      PROVE  ContentStands(l)'
  <2>1. ContentStands(l) /\ publication'[l] = publication[l] /\ draft'[l] = draft[l] /\ media'[l] = media[l]
    BY DEF ModerationInv, contentVars, recordVars
  <2>2. publication[l].submitted = version'[l] => version'[l] = version[l]
    BY <1>1, <2>1 DEF ContentStands
  <2>3. publication[l].submitted <= version'[l]
    BY <1>1, <2>1 DEF ContentStands
  <2>4. QED
    BY <2>1, <2>2, <2>3 DEF ContentStands, MediaReady, ActiveMedia
<1>4. QED
  BY <1>2, <1>3

\* An edit moves the listing past the version that was submitted.
LEMMA EditKeeps ==
  ASSUME ModerationInv, NEW l \in Listings, Edit(l),
         draft' \in [Listings -> [complete : BOOLEAN, located : BOOLEAN]],
         media' \in [Listings -> [Orders -> MediaStatuses]],
         \A m \in Listings : m # l => draft'[m] = draft[m] /\ media'[m] = media[m]
  PROVE  RecordsTyped' /\ \A m \in Listings : ContentStands(m)'
<1>1. /\ version' = [version EXCEPT ![l] = version[l] + 1] /\ UNCHANGED recordVars
      /\ version \in [Listings -> Nat] /\ \A m \in Listings : publication[m].submitted \in Nat
  BY DEF Edit, ModerationInv, RecordsTyped
<1>2. RecordsTyped'
  BY <1>1 DEF ModerationInv, RecordsTyped, recordVars
<1>3. ASSUME NEW m \in Listings
      PROVE  ContentStands(m)'
  <2>1. ContentStands(m) /\ publication'[m] = publication[m]
    BY <1>1 DEF ModerationInv, recordVars
  <2>2. CASE m = l
    <3>1. version'[m] = version[m] + 1 /\ version[m] \in Nat
      BY <1>1, <2>2
    <3>2. publication[m].submitted < version'[m]
      BY <1>1, <2>1, <3>1 DEF ContentStands
    <3>3. QED
      BY <1>1, <2>1, <3>1, <3>2 DEF ContentStands
  <2>3. CASE m # l
    <3>1. version'[m] = version[m] /\ draft'[m] = draft[m] /\ media'[m] = media[m]
      BY <1>1, <2>3
    <3>2. QED
      BY <2>1, <3>1 DEF ContentStands, MediaReady, ActiveMedia
  <2>4. QED
    BY <2>2, <2>3
<1>4. QED
  BY <1>2, <1>3

LEMMA EditsKeep ==
  ASSUME ModerationInv, NEW l \in Listings,
         \/ UpdateListing(l) \/ WriteLocation(l)
         \/ \E o \in Orders : CreateIntent(l, o) \/ CompleteUpload(l, o) \/ RemoveMedia(l, o)
  PROVE  RecordsTyped' /\ \A m \in Listings : ContentStands(m)'
<1>1. /\ draft \in [Listings -> [complete : BOOLEAN, located : BOOLEAN]]
      /\ media \in [Listings -> [Orders -> MediaStatuses]]
  BY DEF ModerationInv, RecordsTyped
<1>2. CASE UpdateListing(l) \/ WriteLocation(l)
  <2>1. Edit(l) /\ UNCHANGED media
    BY <1>2 DEF UpdateListing, WriteLocation
  <2>2. /\ draft' \in [Listings -> [complete : BOOLEAN, located : BOOLEAN]]
        /\ \A m \in Listings : m # l => draft'[m] = draft[m]
    <3>1. PICK row \in [complete : BOOLEAN, located : BOOLEAN] : draft' = [draft EXCEPT ![l] = row]
      <4>1. draft[l] \in [complete : BOOLEAN, located : BOOLEAN]
        BY <1>1
      <4>2. CASE UpdateListing(l)
        <5>1. PICK complete \in BOOLEAN : draft' = [draft EXCEPT ![l].complete = complete]
          BY <4>2 DEF UpdateListing
        <5>2. /\ [draft[l] EXCEPT !.complete = complete] \in [complete : BOOLEAN, located : BOOLEAN]
              /\ draft' = [draft EXCEPT ![l] = [draft[l] EXCEPT !.complete = complete]]
          BY <1>1, <4>1, <5>1
        <5>3. QED
          BY <5>2
      <4>3. CASE WriteLocation(l)
        <5>1. draft' = [draft EXCEPT ![l].located = TRUE]
          BY <4>3 DEF WriteLocation
        <5>2. /\ [draft[l] EXCEPT !.located = TRUE] \in [complete : BOOLEAN, located : BOOLEAN]
              /\ draft' = [draft EXCEPT ![l] = [draft[l] EXCEPT !.located = TRUE]]
          BY <1>1, <4>1, <5>1
        <5>3. QED
          BY <5>2
      <4>4. QED
        BY <1>2, <4>2, <4>3
    <3>2. QED
      BY <1>1, <3>1
  <2>3. QED
    BY <1>1, <2>1, <2>2, EditKeeps
<1>3. ASSUME NEW o \in Orders, CreateIntent(l, o) \/ CompleteUpload(l, o) \/ RemoveMedia(l, o)
      PROVE  RecordsTyped' /\ \A m \in Listings : ContentStands(m)'
  <2>1. Edit(l) /\ UNCHANGED draft
    BY <1>3 DEF CreateIntent, CompleteUpload, RemoveMedia
  <2>2. PICK status \in MediaStatuses : media' = [media EXCEPT ![l][o] = status]
    BY <1>3 DEF CreateIntent, CompleteUpload, RemoveMedia, MediaStatuses
  <2>3. /\ media' \in [Listings -> [Orders -> MediaStatuses]]
        /\ \A m \in Listings : m # l => media'[m] = media[m]
    BY <1>1, <2>2
  <2>4. QED
    BY <1>1, <2>1, <2>3, EditKeeps
<1>4. QED
  BY <1>2, <1>3

\* The worker's results come to media that no moderator was asked about.
LEMMA FinishKeeps ==
  ASSUME ModerationInv, NEW l \in Listings, NEW o \in Orders, FinishMedia(l, o)
  PROVE  RecordsTyped' /\ \A m \in Listings : ContentStands(m)'
<1>1. /\ media \in [Listings -> [Orders -> MediaStatuses]] /\ media[l][o] = "processing"
      /\ UNCHANGED <<version, draft, recordVars>>
  BY DEF ModerationInv, RecordsTyped, FinishMedia, ownershipVars
<1>2. PICK status \in MediaStatuses : media' = [media EXCEPT ![l][o] = status]
  BY DEF FinishMedia, MediaStatuses
<1>3. /\ media' \in [Listings -> [Orders -> MediaStatuses]]
      /\ \A m \in Listings : m # l => media'[m] = media[m]
  BY <1>1, <1>2
<1>4. RecordsTyped'
  BY <1>1, <1>3 DEF ModerationInv, RecordsTyped, recordVars
<1>5. ~MediaReady(l)
  BY <1>1 DEF MediaReady, ActiveMedia
<1>6. ASSUME NEW m \in Listings
      PROVE  ContentStands(m)'
  <2>1. ContentStands(m) /\ publication'[m] = publication[m] /\ version'[m] = version[m] /\ draft'[m] = draft[m]
    BY <1>1 DEF ModerationInv, recordVars
  <2>2. CASE m = l
    BY <1>5, <2>1, <2>2 DEF ContentStands
  <2>3. CASE m # l
    BY <1>3, <2>1, <2>3 DEF ContentStands, MediaReady, ActiveMedia
  <2>4. QED
    BY <2>2, <2>3
<1>7. QED
  BY <1>4, <1>6

LEMMA EvidenceNumber ==
  ASSUME EvidenceInv, NEW l \in Listings
  PROVE  Evidence(l).attempt \in 0 .. MaxProofs
<1> DEFINE rows == ProofsOf(l)
           context == Context(l, PreferredBasis(rows, l))
<1>1. /\ rows \in Seq(Proof) /\ NewestStands(rows) /\ Len(rows) \in 0 .. MaxProofs
      /\ DOMAIN rows = 1 .. Len(rows)
  <2>1. CASE vehicleOf[l] = 0
    BY <2>1, OwnershipAssumption DEF ProofsOf, NewestStands
  <2>2. CASE vehicleOf[l] # 0
    <3>1. vehicleOf[l] \in VehicleIds
      BY <2>2, VehicleNumbers DEF EvidenceInv
    <3> HIDE DEF Proof, VehicleIds
    <3>2. rows = proofs[vehicleOf[l]]
      BY <2>2 DEF ProofsOf
    <3>3. /\ proofs[vehicleOf[l]] \in Seq(Proof) /\ NewestStands(proofs[vehicleOf[l]])
          /\ Len(proofs[vehicleOf[l]]) <= MaxProofs
      BY <3>1 DEF EvidenceInv, ProofsInv
    <3>4. QED
      BY <3>2, <3>3, OwnershipAssumption
  <2>3. QED
    BY <2>1, <2>2
<1> HIDE DEF Proof
<1>2. Selection(l).attempt \in 0 .. MaxProofs
  <2>1. Select(rows, context).attempt \in {0, Len(rows)}
    BY <1>1, PolicyFindsNewest
  <2>2. QED
    BY <1>1, <2>1, OwnershipAssumption DEF Selection
<1>3. OwnProofs(l) # {} => NewestOf(OwnProofs(l)) \in 0 .. MaxProofs
  <2>1. OwnProofs(l) \in SUBSET (1 .. Len(rows)) /\ Len(rows) \in Nat
    BY <1>1 DEF OwnProofs
  <2> HIDE DEF rows
  <2>2. OwnProofs(l) # {} => NewestOf(OwnProofs(l)) \in 1 .. Len(rows)
    BY <2>1, Newest
  <2>3. 1 .. Len(rows) \subseteq 0 .. MaxProofs
    BY <1>1, OwnershipAssumption
  <2>4. QED
    BY <2>2, <2>3
<1>4. QED
  BY <1>2, <1>3, OwnershipAssumption DEF Evidence

\* A submission records what it found, and asks for moderation once.
LEMMA SubmitRecords ==
  ASSUME ModerationInv, NEW l \in Listings, Submit(l)
  PROVE  RecordsTyped' /\ \A m \in Listings : RecordsAgree(m)' /\ ContentStands(m)'
<1> DEFINE status == SubmissionStatus(l)
           row == [version |-> version[l], status |-> status, proof |-> Evidence(l).attempt,
                   identity |-> projection.version, superseded |-> FALSE]
           published == [moderation |-> IF status = "moderation_pending" THEN "pending" ELSE "not_started",
                         submitted |-> version[l]]
           rows == submissions[l]
           asked == [listing |-> l, version |-> version[l], vehicle |-> vehicleOf[l],
                     proof |-> Evidence(l).attempt, identity |-> projection.version]
<1>1. /\ version[l] # 0
      /\ submissions' = [submissions EXCEPT ![l] = RecordAttempt(rows, row)]
      /\ publication' = [publication EXCEPT ![l] = published]
      /\ requests' = IF AsksModeration(l, status) THEN requests \cup {asked} ELSE requests
      /\ UNCHANGED <<version, draft, media>>
  BY DEF Submit, ownershipVars, contentVars
<1>2. /\ version \in [Listings -> Nat] /\ rows \in Seq(Submission) /\ LastLives(rows)
      /\ projection.version \in 0 .. MaxProjection /\ Evidence(l).attempt \in 0 .. MaxProofs
  BY EvidenceNumber
  DEF ModerationInv, RecordsTyped, RecordsAgree, EvidenceInv, ProofsInv, ProjectionTyped
<1>3. status \in {"blocked", "verification_pending", "moderation_pending"}
  BY DEF SubmissionStatus
<1>4. /\ row \in Submission /\ ~row.superseded /\ row.version = version[l] /\ row.status = status
      /\ published \in [moderation : {"not_started", "pending"}, submitted : Nat]
      /\ published.submitted = version[l]
      /\ published.moderation = "pending" <=> status = "moderation_pending"
  <2> HIDE DEF status
  <2>1. QED
    BY <1>2, <1>3 DEF Submission
<1>5. asked.listing = l /\ asked.version = version[l]
  OBVIOUS
<1> DEFINE new == RecordAttempt(rows, row)
<1> HIDE DEF row, published, asked
<1>6. new \in Seq(Submission) /\ new # <<>> /\ LastLives(new) /\ new[Len(new)] = row
  BY <1>2, <1>4, RecordKeeps
<1> HIDE DEF new, Submission
<1>7. /\ submissions' \in [Listings -> Seq(Submission)] /\ submissions'[l] = new
      /\ publication'[l] = published
      /\ publication' \in [Listings -> [moderation : {"not_started", "pending"}, submitted : Nat]]
      /\ \A m \in Listings : m # l => submissions'[m] = submissions[m] /\ publication'[m] = publication[m]
  <2>1. /\ submissions \in [Listings -> Seq(Submission)]
        /\ publication \in [Listings -> [moderation : {"not_started", "pending"}, submitted : Nat]]
    BY DEF ModerationInv, RecordsTyped
  <2>2. submissions' = [submissions EXCEPT ![l] = new]
    BY <1>1 DEF new
  <2>3. QED
    BY <1>1, <1>4, <1>6, <2>1, <2>2
<1>8. RecordsTyped'
  BY <1>1, <1>7 DEF ModerationInv, RecordsTyped
<1>9. status = "moderation_pending" => \E r \in requests' : r.listing = l /\ r.version = version[l]
  <2>1. CASE AsksModeration(l, status)
    BY <1>1, <1>5, <2>1
  <2>2. CASE status = "moderation_pending" /\ ~AsksModeration(l, status)
    <3>1. PICK i \in OfVersion(rows, version[l]) : rows[i].status = "moderation_pending"
      BY <2>2 DEF AsksModeration
    <3>2. rows # <<>> /\ rows[Len(rows)].version = version[l] /\ i = Len(rows)
      BY <1>2, <3>1, RowOfVersion
    <3>3. publication[l].moderation = "pending" /\ publication[l].submitted = version[l]
      BY <3>1, <3>2 DEF ModerationInv, RecordsAgree
    <3>4. \E r \in requests : r.listing = l /\ r.version = version[l]
      BY <3>2, <3>3 DEF ModerationInv, RecordsAgree
    <3>5. QED
      BY <1>1, <2>2, <3>4
  <2>3. QED
    BY <2>1, <2>2
<1>10. RecordsAgree(l)'
  <2>1. LastLives(submissions[l])'
    BY <1>6, <1>7 DEF LastLives, Live
  <2>2. QED
    BY <1>4, <1>6, <1>7, <1>9, <2>1 DEF RecordsAgree
<1>11. ContentStands(l)'
  <2>1. status = "moderation_pending" => ContentReady(l) /\ MediaReady(l)
    BY DEF SubmissionStatus
  <2>2. status = "moderation_pending" => draft[l].complete /\ draft[l].located /\ MediaReady(l)'
    BY <1>1, <2>1 DEF ContentReady, MediaReady, ActiveMedia
  <2>3. QED
    BY <1>1, <1>2, <1>4, <1>7, <2>2 DEF ContentStands
<1>12. ASSUME NEW m \in Listings, m # l
       PROVE  RecordsAgree(m)' /\ ContentStands(m)'
  <2>1. /\ RecordsAgree(m) /\ ContentStands(m)
        /\ submissions'[m] = submissions[m] /\ publication'[m] = publication[m]
        /\ version'[m] = version[m] /\ draft'[m] = draft[m] /\ media'[m] = media[m]
        /\ requests \subseteq requests'
    BY <1>1, <1>7, <1>12 DEF ModerationInv
  <2>2. RecordsAgree(m)'
    BY <2>1 DEF RecordsAgree, LastLives, Live
  <2>3. ContentStands(m)'
    BY <2>1 DEF ContentStands, MediaReady, ActiveMedia
  <2>4. QED
    BY <2>2, <2>3
<1>13. QED
  BY <1>8, <1>10, <1>11, <1>12

LEMMA ModerationStep ==
  ModerationInv /\ [SubmissionNext]_submissionVars => ModerationInv'
<1> SUFFICES ASSUME ModerationInv, [SubmissionNext]_submissionVars
             PROVE  ModerationInv'
  OBVIOUS
<1>1. EvidenceInv'
  BY EvidenceStep DEF ModerationInv
<1>2. ASSUME NEW l \in Listings, Submit(l)
      PROVE  ModerationInv'
  BY <1>1, <1>2, SubmitRecords DEF ModerationInv
<1>3. ASSUME UNCHANGED recordVars, RecordsTyped', \A m \in Listings : ContentStands(m)'
      PROVE  ModerationInv'
  BY <1>1, <1>3, RecordsStay DEF ModerationInv
<1>4. CASE OwnershipNext /\ UNCHANGED <<contentVars, recordVars>>
  BY <1>3, <1>4, ContentStays
<1>5. ASSUME NEW l \in Listings, Edit(l)
      PROVE  UNCHANGED recordVars
  BY <1>5 DEF Edit
<1>6. ASSUME NEW l \in Listings, UpdateListing(l) \/ WriteLocation(l)
      PROVE  ModerationInv'
  <2>1. Edit(l)
    BY <1>6 DEF UpdateListing, WriteLocation
  <2>2. QED
    BY <1>3, <1>5, <1>6, <2>1, EditsKeep
<1>7. ASSUME NEW l \in Listings, NEW o \in Orders, CreateIntent(l, o) \/ CompleteUpload(l, o) \/ RemoveMedia(l, o)
      PROVE  ModerationInv'
  <2>1. Edit(l)
    BY <1>7 DEF CreateIntent, CompleteUpload, RemoveMedia
  <2>2. QED
    BY <1>3, <1>5, <1>7, <2>1, EditsKeep
<1>8. ASSUME NEW l \in Listings, NEW o \in Orders, FinishMedia(l, o)
      PROVE  ModerationInv'
  <2>1. UNCHANGED recordVars
    BY <1>8 DEF FinishMedia
  <2>2. QED
    BY <1>3, <1>8, <2>1, FinishKeeps
<1>9. CASE SellerChanges \/ UNCHANGED submissionVars
  <2>1. UNCHANGED <<version, draft, media, recordVars>>
    BY <1>9 DEF SellerChanges, submissionVars, ownershipVars, contentVars
  <2>2. RecordsTyped' /\ \A m \in Listings : ContentStands(m)'
    BY <2>1 DEF ModerationInv, RecordsTyped, ContentStands, MediaReady, ActiveMedia, recordVars
  <2>3. QED
    BY <1>3, <2>1, <2>2
<1>10. QED
  BY <1>2, <1>4, <1>6, <1>7, <1>8, <1>9 DEF SubmissionNext

LEMMA RecordsShowPending == ModerationInv => PendingIsLastSubmission
  BY DEF ModerationInv, RecordsAgree, ContentStands, LastLives, PendingIsLastSubmission

\* Moderation is pending for the last submission alone, and while its version
\* lasts the content is what was submitted (ListingSubmissionService.submit).
THEOREM PendingIsCurrent == SubmissionSpec => []PendingIsLastSubmission
  BY RecordsShowPending, ModerationStarts, ModerationStep, PTL DEF SubmissionSpec

-----------------------------------------------------------------------------
(* The shapes: with the vehicles, attempts and requests known from above,  *)
(* what is left are the requests in flight and the reuses.                 *)

ClaimShape == [at : {"idle", "claimed", "created", "refused"}, vehicle : Nat, attempt : Nat]

\* A request in flight works on an attempt there is.
InFlight(claim, rows) ==
    claim.at # "idle" => claim.vehicle \in VehicleIds /\ claim.attempt \in DOMAIN rows[claim.vehicle]

ClaimsTyped ==
    claims \in [Claimers -> ClaimShape] /\ \A c \in Claimers : InFlight(claims[c], proofs)

OwnerTyped ==
    lapsed \in 0 .. MaxProjection /\ ownerActive \in BOOLEAN /\ sellerReady \in BOOLEAN

ReusesTyped == reuses \subseteq Listings \X VehicleIds \X (1 .. MaxProofs)
RequestsTyped ==
    requests \subseteq [listing : Listings, version : Nat, vehicle : Nat, proof : Nat, identity : Nat]

ShapeInv == ModerationInv /\ ClaimsTyped /\ OwnerTyped /\ ReusesTyped /\ RequestsTyped

LEMMA ShapeStarts == SubmissionInit => ShapeInv
<1> SUFFICES ASSUME SubmissionInit PROVE ShapeInv
  OBVIOUS
<1>1. ClaimsTyped
  BY DEF SubmissionInit, OwnershipInit, NoClaim, ClaimsTyped, ClaimShape, InFlight
<1>2. OwnerTyped
  <2>1. lapsed = 0 /\ ownerActive = TRUE /\ sellerReady = FALSE
    BY DEF SubmissionInit, OwnershipInit
  <2>2. lapsed \in 0 .. MaxProjection
    BY <2>1, OwnershipAssumption
  <2>3. QED
    BY <2>1, <2>2, Zenon DEF OwnerTyped
<1>3. reuses = {} /\ requests = {}
  BY DEF SubmissionInit, OwnershipInit
<1>4. ReusesTyped /\ RequestsTyped
  BY <1>3 DEF ReusesTyped, RequestsTyped
<1>5. QED
  BY <1>1, <1>2, <1>4, ModerationStarts DEF ShapeInv

\* The vehicle a claim links is one of the vehicles there can be.
LEMMA LinkedVehicle ==
  ASSUME VehiclesInv, NEW l \in Listings, NEW g \in Registrations, NEW w \in Vins \cup {Absent},
         Link(l, g, w)
  PROVE  ResolvedId(g, w) \in VehicleIds
<1> DEFINE id == ResolvedId(g, w)
<1>1. VehiclesInv'
  BY LinkKeeps DEF VehiclesStep
<1>2. vehicleOf' = [vehicleOf EXCEPT ![l] = id] /\ vehicleOf \in [Listings -> 0 .. Len(vehicles)]
  BY DEF Link, VehiclesInv
<1>3. vehicles \in Seq(Vehicle) /\ Len(vehicles) \in Nat /\ DOMAIN vehicles = 1 .. Len(vehicles)
  <2> HIDE DEF Vehicle
  <2>1. vehicles \in Seq(Vehicle)
    BY DEF VehiclesInv
  <2>2. QED
    BY <2>1
<1>4. id # 0
  <2>1. CASE Known(g, w) = {}
    BY <1>3, <2>1 DEF ResolvedId
  <2>2. CASE Known(g, w) # {}
    <3>1. id \in DOMAIN vehicles
      BY <2>2 DEF ResolvedId, Known
    <3>2. QED
      BY <1>3, <3>1
  <2>3. QED
    BY <2>1, <2>2
<1>5. vehicles' \in Seq(Vehicle) /\ Apart(vehicles') /\ id \in 0 .. Len(vehicles')
  <2>1. vehicleOf'[l] = id
    BY <1>2
  <2> HIDE DEF id
  <2>2. QED
    BY <1>1, <2>1 DEF VehiclesInv
<1>6. Len(vehicles') \in Nat /\ 1 .. Len(vehicles') \subseteq VehicleIds
  BY <1>5, VehiclesBounded
<1> HIDE DEF id, VehicleIds
<1>7. id \in 1 .. Len(vehicles')
  BY <1>4, <1>5, <1>6
<1>8. QED
  BY <1>6, <1>7 DEF id

\* Attempts do not go away under the requests that work on them.
LEMMA ClaimsStay ==
  ASSUME ShapeInv, AttemptsStep, UNCHANGED claims
  PROVE  ClaimsTyped'
<1>1. ASSUME NEW c \in Claimers
      PROVE  InFlight(claims[c], proofs')
  BY DEF ShapeInv, ClaimsTyped, InFlight, AttemptsStep
<1>2. QED
  BY <1>1 DEF ShapeInv, ClaimsTyped

LEMMA OneClaims ==
  ASSUME ShapeInv, AttemptsStep, NEW c \in Claimers, NEW claim \in ClaimShape,
         claims' = [claims EXCEPT ![c] = claim], InFlight(claim, proofs')
  PROVE  ClaimsTyped'
<1> HIDE DEF ClaimShape
<1>1. /\ claims' \in [Claimers -> ClaimShape] /\ claims'[c] = claim
      /\ \A b \in Claimers : b # c => claims'[b] = claims[b]
  BY DEF ShapeInv, ClaimsTyped
<1>2. ASSUME NEW b \in Claimers
      PROVE  InFlight(claims'[b], proofs')
  <2>1. CASE b = c
    BY <1>1, <2>1
  <2>2. CASE b # c
    <3>1. claims'[b] = claims[b] /\ InFlight(claims[b], proofs)
      BY <1>1, <2>2 DEF ShapeInv, ClaimsTyped
    <3>2. QED
      BY <3>1 DEF InFlight, AttemptsStep
  <2>3. QED
    BY <2>1, <2>2
<1>3. QED
  BY <1>1, <1>2 DEF ClaimsTyped

\* A request enters with an attempt of the vehicle, or is answered.
LEMMA EnterTyped ==
  ASSUME ShapeInv, AttemptsStep, NEW c \in Claimers, NEW v \in VehicleIds, NEW n \in DOMAIN proofs'[v],
         n \in Nat, Enter(c, v, n)
  PROVE  ClaimsTyped'
<1> DEFINE claim == [at |-> "claimed", vehicle |-> v, attempt |-> n]
<1>1. claim \in ClaimShape /\ InFlight(claim, proofs')
  BY DEF ClaimShape, InFlight, VehicleIds
<1>2. claims' = [claims EXCEPT ![c] = claim]
  BY DEF Enter
<1> HIDE DEF claim
<1>3. QED
  BY <1>1, <1>2, OneClaims

LEMMA AnswerTyped ==
  ASSUME ShapeInv, AttemptsStep, NEW c \in Claimers, Answer(c)
  PROVE  ClaimsTyped'
<1>1. NoClaim \in ClaimShape /\ InFlight(NoClaim, proofs')
  BY DEF NoClaim, ClaimShape, InFlight
<1>2. QED
  BY <1>1, OneClaims DEF Answer

LEMMA ReuseTyped ==
  ASSUME ShapeInv, AttemptsStep, NEW c \in Claimers, NEW l \in Listings, NEW g \in Registrations,
         NEW w \in Vins \cup {Absent}, NEW basis \in Bases, ReuseProof(c, l, g, w, basis)
  PROVE  ClaimsTyped' /\ ReusesTyped'
<1> DEFINE v == ResolvedId(g, w)
           context == Context(l, basis)
           selection == Select(proofs[v], context)
<1>1. v \in VehicleIds
  BY LinkedVehicle DEF ReuseProof, ShapeInv, ModerationInv, EvidenceInv
<1>2. /\ selection.attempt # 0 /\ UNCHANGED claims
      /\ reuses' = IF selection.reused THEN reuses \cup {<<l, v, selection.attempt>>} ELSE reuses
  BY DEF ReuseProof
<1> HIDE DEF v, context
<1>3. proofs[v] \in Seq(Proof) /\ NewestStands(proofs[v]) /\ Len(proofs[v]) <= MaxProofs
  BY <1>1 DEF ShapeInv, ModerationInv, EvidenceInv, ProofsInv
<1>4. selection.attempt \in {0, Len(proofs[v])}
  BY <1>3, PolicyFindsNewest
<1>5. Len(proofs[v]) \in Nat
  <2> HIDE DEF Proof
  <2>1. QED
    BY <1>3
<1> HIDE DEF selection
<1>6. selection.attempt \in 1 .. MaxProofs
  BY <1>2, <1>3, <1>4, <1>5, OwnershipAssumption
<1>7. ReusesTyped'
  BY <1>1, <1>2, <1>6 DEF ShapeInv, ReusesTyped
<1>8. QED
  BY <1>2, <1>7, ClaimsStay

LEMMA JoinTyped ==
  ASSUME ShapeInv, AttemptsStep, NEW c \in Claimers, NEW l \in Listings, NEW g \in Registrations,
         NEW w \in Vins \cup {Absent}, NEW basis \in Bases, JoinProof(c, l, g, w, basis)
  PROVE  ClaimsTyped' /\ ReusesTyped'
<1> DEFINE v == ResolvedId(g, w)
           rows == proofs[v]
           n == ActiveProof(rows)
<1>1. v \in VehicleIds
  BY LinkedVehicle DEF JoinProof, ShapeInv, ModerationInv, EvidenceInv
<1>2. ActiveProofs(rows) # {} /\ Enter(c, v, n) /\ UNCHANGED reuses
  BY DEF JoinProof
<1> HIDE DEF v
<1>3. Len(rows) \in Nat /\ DOMAIN rows = 1 .. Len(rows)
  BY <1>1, ProofTyped DEF ShapeInv, ModerationInv, EvidenceInv
<1>4. ActiveProofs(rows) \in SUBSET (1 .. Len(rows))
  BY <1>3 DEF ActiveProofs
<1>5. NewestOf(ActiveProofs(rows)) \in 1 .. Len(rows)
  <2> HIDE DEF rows
  <2>1. NewestOf(ActiveProofs(rows)) \in ActiveProofs(rows)
    BY <1>2, <1>3, <1>4, Newest
  <2>2. QED
    BY <1>4, <2>1
<1>6. n \in DOMAIN proofs'[v] /\ n \in Nat
  <2>1. n \in DOMAIN rows /\ n \in Nat
    BY <1>3, <1>5 DEF ActiveProof
  <2>2. QED
    BY <1>1, <2>1 DEF AttemptsStep
<1> HIDE DEF n, rows
<1>7. ClaimsTyped'
  BY <1>1, <1>2, <1>6, EnterTyped
<1>8. QED
  BY <1>2, <1>7 DEF ShapeInv, ReusesTyped

LEMMA OpenTyped ==
  ASSUME ShapeInv, AttemptsStep, NEW c \in Claimers, NEW l \in Listings, NEW g \in Registrations,
         NEW w \in Vins \cup {Absent}, NEW basis \in Bases, OpenProof(c, l, g, w, basis)
  PROVE  ClaimsTyped' /\ ReusesTyped'
<1> DEFINE v == ResolvedId(g, w)
           rows == proofs[v]
           older == [n \in DOMAIN rows |-> IF n = Len(rows) \/ n \in ActiveProofs(rows)
                        THEN [rows[n] EXCEPT !.superseded = TRUE] ELSE rows[n]]
           fresh == [listing |-> l, identity |-> projection.version, basis |-> basis,
                     status |-> "session_pending", known |-> FALSE,
                     superseded |-> FALSE, age |-> "fresh"]
<1>1. v \in VehicleIds
  BY LinkedVehicle DEF OpenProof, ShapeInv, ModerationInv, EvidenceInv
<1>2. /\ proofs' = [proofs EXCEPT ![v] = Append(older, fresh)]
      /\ Enter(c, v, Len(rows) + 1) /\ UNCHANGED reuses
  BY DEF OpenProof
<1> HIDE DEF v, fresh
<1>3. Len(rows) \in Nat /\ DOMAIN rows = 1 .. Len(rows)
  BY <1>1, ProofTyped DEF ShapeInv, ModerationInv, EvidenceInv
<1>4. proofs'[v] = Append(older, fresh)
  BY <1>1, <1>2 DEF ShapeInv, ModerationInv, EvidenceInv, ProofsInv
<1>5. DOMAIN older = 1 .. Len(rows)
  BY <1>3
<1> HIDE DEF older, rows
<1>6. Len(older) = Len(rows)
  BY <1>3, <1>5
<1>7. Len(rows) + 1 \in DOMAIN proofs'[v] /\ Len(rows) + 1 \in Nat
  BY <1>3, <1>4, <1>6
<1>8. ClaimsTyped'
  BY <1>1, <1>2, <1>7, EnterTyped
<1>9. QED
  BY <1>2, <1>8 DEF ShapeInv, ReusesTyped

LEMMA ClaimerTyped ==
  ASSUME ShapeInv, AttemptsStep, NEW c \in Claimers, ClaimerStep(c)
  PROVE  ClaimsTyped' /\ ReusesTyped'
<1>1. ASSUME NEW l \in Listings, NEW g \in Registrations, NEW w \in Vins \cup {Absent}, NEW basis \in Bases,
             ReuseProof(c, l, g, w, basis) \/ JoinProof(c, l, g, w, basis) \/ OpenProof(c, l, g, w, basis)
      PROVE  ClaimsTyped' /\ ReusesTyped'
  BY <1>1, ReuseTyped, JoinTyped, OpenTyped
<1>2. ASSUME NEW v \in VehicleIds, NEW n \in 1 .. MaxProofs, ReplayClaim(c, v, n)
      PROVE  ClaimsTyped' /\ ReusesTyped'
  <2>1. n \in DOMAIN proofs'[v] /\ n \in Nat /\ Enter(c, v, n) /\ UNCHANGED reuses
    BY <1>2 DEF ReplayClaim, AttemptsStep
  <2>2. QED
    BY <2>1, EnterTyped DEF ShapeInv, ReusesTyped
<1>3. CASE Answer(c) /\ UNCHANGED reuses
  BY <1>3, AnswerTyped DEF ShapeInv, ReusesTyped
<1>4. ASSUME NEW at \in {"created", "refused"}, claims[c].at = "claimed",
             claims' = [claims EXCEPT ![c].at = at], UNCHANGED reuses
      PROVE  ClaimsTyped' /\ ReusesTyped'
  <2> DEFINE claim == [claims[c] EXCEPT !.at = at]
  <2>1. claims[c] \in ClaimShape /\ InFlight(claims[c], proofs)
    BY DEF ShapeInv, ClaimsTyped
  <2>2. claim \in ClaimShape /\ claim.vehicle = claims[c].vehicle /\ claim.attempt = claims[c].attempt
    BY <2>1 DEF ClaimShape
  <2>3. claims' = [claims EXCEPT ![c] = claim]
    BY <1>4
  <2> HIDE DEF claim
  <2>4. InFlight(claim, proofs')
    BY <1>4, <2>1, <2>2 DEF InFlight, AttemptsStep
  <2>5. QED
    BY <1>4, <2>2, <2>3, <2>4, OneClaims DEF ShapeInv, ReusesTyped
<1>5. ASSUME \/ ProofClosed(c) \/ CallOwnershipProvider(c) \/ ClaimerDies(c)
             \/ FinalizeProofSession(c) \/ FinalizeProofFailure(c)
      PROVE  ClaimsTyped' /\ ReusesTyped'
  BY <1>3, <1>4, <1>5 DEF ProofClosed, CallOwnershipProvider, ClaimerDies, FinalizeProofSession,
     FinalizeProofFailure
<1>6. QED
  BY <1>1, <1>2, <1>5 DEF ClaimerStep

\* What moderators are asked is a request.
LEMMA AskTyped ==
  ASSUME ShapeInv, NEW l \in Listings, Submit(l)
  PROVE  RequestsTyped'
<1> DEFINE asked == [listing |-> l, version |-> version[l], vehicle |-> vehicleOf[l],
                     proof |-> Evidence(l).attempt, identity |-> projection.version]
<1>1. requests' \in {requests, requests \cup {asked}}
  BY DEF Submit
<1>2. version[l] \in Nat /\ vehicleOf[l] \in Nat
  <2>1. vehicles \in Seq(Vehicle) /\ vehicleOf \in [Listings -> 0 .. Len(vehicles)]
        /\ version \in [Listings -> Nat]
    BY DEF ShapeInv, ModerationInv, RecordsTyped, EvidenceInv, VehiclesInv
  <2>2. QED
    BY <2>1
<1>3. Evidence(l).attempt \in Nat /\ projection.version \in Nat
  <2>1. Evidence(l).attempt \in 0 .. MaxProofs /\ projection.version \in 0 .. MaxProjection
    BY EvidenceNumber DEF ShapeInv, ModerationInv, EvidenceInv, ProofsInv, ProjectionTyped
  <2>2. QED
    BY <2>1, OwnershipAssumption
<1>4. asked \in [listing : Listings, version : Nat, vehicle : Nat, proof : Nat, identity : Nat]
  BY <1>2, <1>3
<1> HIDE DEF asked
<1>5. QED
  BY <1>1, <1>4 DEF ShapeInv, RequestsTyped

LEMMA ShapeStep ==
  ShapeInv /\ [SubmissionNext]_submissionVars => ShapeInv'
<1> SUFFICES ASSUME ShapeInv, [SubmissionNext]_submissionVars
             PROVE  ShapeInv'
  OBVIOUS
<1>1. ModerationInv' /\ AttemptsStep
  BY ModerationStep, EvidenceStep DEF ShapeInv, ModerationInv
<1>2. ASSUME UNCHANGED <<lapsed, ownerActive>>, UNCHANGED sellerReady \/ sellerReady' = ~sellerReady
      PROVE  OwnerTyped'
  BY <1>2, Zenon DEF ShapeInv, OwnerTyped
<1>3. ASSUME UNCHANGED <<claims, reuses>>
      PROVE  ClaimsTyped' /\ ReusesTyped'
  BY <1>1, <1>3, ClaimsStay DEF ShapeInv, ReusesTyped
<1>4. ASSUME UNCHANGED requests
      PROVE  RequestsTyped'
  BY <1>4 DEF ShapeInv, RequestsTyped
<1>5. CASE OwnershipNext /\ UNCHANGED <<contentVars, recordVars>>
  <2>1. UNCHANGED <<sellerReady, requests>>
    BY <1>5 DEF contentVars, recordVars
  <2>2. ASSUME NEW c \in Claimers, ClaimerStep(c)
        PROVE  ClaimsTyped' /\ ReusesTyped' /\ OwnerTyped'
    <3>1. ASSUME NEW l, NEW g, NEW w, NEW basis,
                 ReuseProof(c, l, g, w, basis) \/ JoinProof(c, l, g, w, basis) \/ OpenProof(c, l, g, w, basis)
          PROVE  UNCHANGED <<lapsed, ownerActive>>
      BY <3>1 DEF ReuseProof, JoinProof, OpenProof
    <3>2. ASSUME NEW v, NEW n, ReplayClaim(c, v, n)
          PROVE  UNCHANGED <<lapsed, ownerActive>>
      BY <3>2 DEF ReplayClaim, evidenceVars
    <3>3. ASSUME \/ ProofClosed(c) \/ CallOwnershipProvider(c) \/ ClaimerDies(c)
                 \/ FinalizeProofSession(c) \/ FinalizeProofFailure(c)
          PROVE  UNCHANGED <<lapsed, ownerActive>>
      BY <3>3 DEF ProofClosed, CallOwnershipProvider, ClaimerDies, FinalizeProofSession,
         FinalizeProofFailure, evidenceVars
    <3>4. UNCHANGED <<lapsed, ownerActive>>
      BY <2>2, <3>1, <3>2, <3>3 DEF ClaimerStep
    <3>5. QED
      BY <1>1, <1>2, <2>1, <2>2, <3>4, ClaimerTyped
  <2>3. ASSUME NEW v, NEW n, NEW status, ApplyProofResult(v, n, status) \/ ProofAges(v, n)
        PROVE  UNCHANGED <<claims, reuses, lapsed, ownerActive>>
    BY <2>3 DEF ApplyProofResult, ProofAges, evidenceVars
  <2>4. ASSUME NEW l, CreateDraft(l)
        PROVE  UNCHANGED <<claims, reuses, lapsed, ownerActive>>
    BY <2>4 DEF CreateDraft
  <2>5. ASSUME UNCHANGED <<claims, reuses, lapsed, ownerActive>>
        PROVE  ClaimsTyped' /\ ReusesTyped' /\ OwnerTyped'
    BY <1>2, <1>3, <2>1, <2>5
  <2>6. ASSUME IdentityLapses
        PROVE  ClaimsTyped' /\ ReusesTyped' /\ OwnerTyped'
    <3>1. lapsed' \in 0 .. MaxProjection
      BY <2>6 DEF IdentityLapses, ShapeInv, ModerationInv, EvidenceInv, ProofsInv, ProjectionTyped
    <3>2. OwnerTyped'
      BY <2>1, <2>6, <3>1 DEF IdentityLapses, ShapeInv, OwnerTyped
    <3>3. UNCHANGED <<claims, reuses>>
      BY <2>6 DEF IdentityLapses
    <3>4. QED
      BY <1>3, <3>2, <3>3
  <2>7. ASSUME OwnerChanges
        PROVE  ClaimsTyped' /\ ReusesTyped' /\ OwnerTyped'
    <3>1. OwnerTyped'
      BY <2>1, <2>7, Zenon DEF OwnerChanges, ShapeInv, OwnerTyped
    <3>2. UNCHANGED <<claims, reuses>>
      BY <2>7 DEF OwnerChanges
    <3>3. QED
      BY <1>3, <3>1, <3>2
  <2>8. ASSUME IdentityMoves
        PROVE  ClaimsTyped' /\ ReusesTyped' /\ OwnerTyped'
    <3>1. UNCHANGED <<claims, reuses, lapsed, ownerActive>>
      BY <2>8 DEF IdentityMoves, evidenceVars
    <3>2. QED
      BY <2>5, <3>1
  <2>9. ASSUME NEW v, NEW n, NEW status, ApplyProofResult(v, n, status) \/ ProofAges(v, n)
        PROVE  ClaimsTyped' /\ ReusesTyped' /\ OwnerTyped'
    BY <2>3, <2>5, <2>9
  <2>10. ASSUME NEW l, CreateDraft(l)
         PROVE  ClaimsTyped' /\ ReusesTyped' /\ OwnerTyped'
    BY <2>4, <2>5, <2>10
  <2>11. ClaimsTyped' /\ ReusesTyped' /\ OwnerTyped'
    BY <1>5, <2>2, <2>6, <2>7, <2>8, <2>9, <2>10 DEF OwnershipNext
  <2>12. QED
    BY <1>1, <1>4, <2>1, <2>11 DEF ShapeInv
<1>6. ASSUME NEW l \in Listings, Submit(l)
      PROVE  ShapeInv'
  <2>1. UNCHANGED <<claims, reuses, lapsed, ownerActive, sellerReady>>
    BY <1>6 DEF Submit, ownershipVars, contentVars
  <2>2. QED
    BY <1>1, <1>2, <1>3, <1>6, <2>1, AskTyped DEF ShapeInv
<1>7. ASSUME UNCHANGED <<claims, reuses, lapsed, ownerActive, requests>>,
             UNCHANGED sellerReady \/ sellerReady' = ~sellerReady
      PROVE  ShapeInv'
  BY <1>1, <1>2, <1>3, <1>4, <1>7 DEF ShapeInv
<1>8. ASSUME NEW l \in Listings, NEW o,
             \/ UpdateListing(l) \/ WriteLocation(l) \/ CreateIntent(l, o)
             \/ CompleteUpload(l, o) \/ RemoveMedia(l, o)
      PROVE  ShapeInv'
  <2>1. Edit(l)
    BY <1>8 DEF UpdateListing, WriteLocation, CreateIntent, CompleteUpload, RemoveMedia
  <2>2. QED
    BY <1>7, <2>1 DEF Edit, otherOwnershipVars, recordVars
<1>9. ASSUME NEW l, NEW o, FinishMedia(l, o)
      PROVE  ShapeInv'
  BY <1>7, <1>9 DEF FinishMedia, ownershipVars, recordVars
<1>10. CASE SellerChanges
  BY <1>7, <1>10 DEF SellerChanges, ownershipVars, recordVars
<1>11. CASE UNCHANGED submissionVars
  BY <1>7, <1>11 DEF submissionVars, ownershipVars, contentVars, recordVars
<1>12. QED
  BY <1>5, <1>6, <1>8, <1>9, <1>10, <1>11 DEF SubmissionNext

LEMMA ShapeSafe == ShapeInv => SubmissionTypeOK
<1> SUFFICES ASSUME ShapeInv PROVE SubmissionTypeOK
  OBVIOUS
<1>1. ModerationInv /\ ProofsInv /\ VehiclesInv /\ RequestsInv /\ RecordsTyped
  BY DEF ShapeInv, ModerationInv, EvidenceInv
<1>2. \A v \in VehicleIds : proofs[v] \in Seq(Proof) /\ Len(proofs[v]) <= MaxProofs
  BY <1>1 DEF ProofsInv
<1>3. \A c \in Claimers :
          /\ claims[c].at \in {"idle", "claimed", "created", "refused"}
          /\ claims[c].at # "idle" => claims[c].attempt \in DOMAIN proofs[claims[c].vehicle]
  <2>1. ASSUME NEW c \in Claimers
        PROVE  claims[c] \in ClaimShape /\ InFlight(claims[c], proofs)
    BY DEF ShapeInv, ClaimsTyped
  <2>2. QED
    BY <2>1 DEF ClaimShape, InFlight
<1>4. OwnershipTypeOK
  BY <1>1, <1>2, <1>3 DEF ShapeInv, OwnerTyped, ReusesTyped, RecordsTyped, VehiclesInv, Vehicle, OwnershipTypeOK
<1>5. requests \subseteq [listing : Listings, version : Nat, vehicle : VehicleIds,
                         proof : 1 .. MaxProofs, identity : 1 .. MaxProjection]
  <2> SUFFICES ASSUME NEW r \in requests
               PROVE  r \in [listing : Listings, version : Nat, vehicle : VehicleIds,
                             proof : 1 .. MaxProofs, identity : 1 .. MaxProjection]
    OBVIOUS
  <2>1. /\ r.vehicle \in VehicleIds /\ r.proof \in DOMAIN proofs[r.vehicle]
        /\ proofs[r.vehicle][r.proof].identity = r.identity
    BY <1>1 DEF RequestsInv
  <2>2. /\ proofs[r.vehicle][r.proof] \in Proof /\ Len(proofs[r.vehicle]) \in Nat
        /\ DOMAIN proofs[r.vehicle] = 1 .. Len(proofs[r.vehicle])
        /\ Len(proofs[r.vehicle]) <= MaxProofs
    BY <1>1, <1>2, <2>1, ProofTyped
  <2>3. r.identity \in 1 .. MaxProjection
    BY <2>1, <2>2 DEF Proof
  <2>4. r.proof \in 1 .. MaxProofs
    <3> DEFINE size == Len(proofs[r.vehicle])
    <3>1. size \in Nat /\ size <= MaxProofs /\ r.proof \in 1 .. size
      BY <2>1, <2>2
    <3> HIDE DEF size
    <3>2. QED
      BY <3>1, OwnershipAssumption
  <2>5. r \in [listing : Listings, version : Nat, vehicle : Nat, proof : Nat, identity : Nat]
    BY DEF ShapeInv, RequestsTyped
  <2> HIDE DEF VehicleIds
  <2>6. QED
    BY <2>1, <2>3, <2>4, <2>5
<1>6. QED
  BY <1>1, <1>4, <1>5 DEF ShapeInv, OwnerTyped, RecordsTyped, SubmissionTypeOK

\* Requests in flight work on attempts there are, reuses and requests for moderation
\* name vehicles, attempts and versions of the identity there are
\* (ownership_service.py, submission_service.py).
THEOREM SubmissionTypeCorrect == SubmissionSpec => []SubmissionTypeOK
  BY ShapeStarts, ShapeStep, ShapeSafe, PTL DEF SubmissionSpec
=============================================================================
