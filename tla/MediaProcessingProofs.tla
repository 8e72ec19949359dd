----------------------- MODULE MediaProcessingProofs -----------------------
(***************************************************************************)
(* What MediaProcessing guarantees for every number of workers, deliveries *)
(* and media items.  The inductive invariant adds to the checked           *)
(* properties where claim tokens come from: a worker's token was issued by *)
(* the evidence row, and no two workers ever got the same one.             *)
(***************************************************************************)
EXTENDS MediaProcessing, TLAPS

\* Every transition that can disturb a worker's record keeps its type.
LEMMA WorkerTyped ==
  ASSUME TypeOK, NEW w \in Workers, worker[w].pc # "idle"
  PROVE  /\ worker[w].m \in Media /\ worker[w].c \in Copies
         /\ worker[w] \in Worker
         /\ evidence[worker[w].m] \in Evidence
         /\ media[worker[w].m] \in MediaStatus
  BY DEF TypeOK

LEMMA InitTypeOK == Init => TypeOK
  BY MediaAssumption
  DEF Init, TypeOK, MediaStatus, Evidence, NoEvidence, Message, Worker, Idle, Terminal

LEMMA NextTypeOK == TypeOK /\ [Next]_vars => TypeOK'
<1> SUFFICES ASSUME TypeOK, [Next]_vars PROVE TypeOK'
  OBVIOUS
<1> USE MediaAssumption DEF TypeOK, Terminal
<1>1. ASSUME NEW m \in Media, CreateIntent(m) PROVE TypeOK'
  BY <1>1 DEF CreateIntent, MediaStatus
<1>2. ASSUME NEW m \in Media, IntentLapses(m) PROVE TypeOK'
  BY <1>2 DEF IntentLapses, rowVars
<1>3. ASSUME NEW m \in Media, Complete(m) PROVE TypeOK'
  BY <1>3 DEF Complete, MediaStatus, Message
<1>4. ASSUME NEW m \in Media, Remove(m) PROVE TypeOK'
  BY <1>4 DEF Remove, MediaStatus
<1>5. ASSUME NEW m \in Media, LeaseLapses(m) PROVE TypeOK'
  BY <1>5 DEF LeaseLapses, Evidence
<1>6. ASSUME NEW m \in Media, NEW c \in Copies, Publish(m, c) PROVE TypeOK'
  <2> DEFINE msg == [queue[<<m, c>>] EXCEPT !.state = "queued"]
  <2>0. queue[<<m, c>>] \in Message
    OBVIOUS
  <2>1. msg \in Message
    BY <2>0 DEF Message
  <2>2. queue' = [queue EXCEPT ![<<m, c>>] = msg]
    BY <1>6 DEF Publish
  <2> HIDE DEF msg
  <2>3. queue' \in [Media \X Copies -> Message]
    BY <2>1, <2>2
  <2>4. QED
    BY <1>6, <2>3 DEF Publish, rowVars
<1>7. ASSUME NEW m \in Media, NEW c \in Copies, Redrive(m, c) PROVE TypeOK'
  <2> DEFINE msg == [queue[<<m, c>>] EXCEPT !.state = "dlq"]
  <2>0. queue[<<m, c>>] \in Message
    OBVIOUS
  <2>1. msg \in Message
    BY <2>0 DEF Message
  <2>2. queue' = [queue EXCEPT ![<<m, c>>] = msg]
    BY <1>7 DEF Redrive
  <2> HIDE DEF msg
  <2>3. queue' \in [Media \X Copies -> Message]
    BY <2>1, <2>2
  <2>4. QED
    BY <1>7, <2>3 DEF Redrive, rowVars
<1>8. ASSUME NEW m \in Media, NEW c \in Copies, NEW w \in Workers, Receive(w, m, c)
      PROVE TypeOK'
  <2> DEFINE msg == [queue[<<m, c>>] EXCEPT !.receives = @ + 1]
  <2>0. queue[<<m, c>>] \in Message
    OBVIOUS
  <2>1. queue[<<m, c>>].receives + 1 \in Nat
    BY <2>0 DEF Message
  <2>2. msg \in Message
    BY <2>0, <2>1 DEF Message
  <2>3. queue' = [queue EXCEPT ![<<m, c>>] = msg]
    BY <1>8 DEF Receive
  <2> HIDE DEF msg
  <2>4. queue' \in [Media \X Copies -> Message]
    BY <2>2, <2>3
  <2>5. worker' \in [Workers -> Worker]
    BY <1>8, <2>1 DEF Receive, Worker, Claimed
  <2>6. QED
    BY <1>8, <2>4, <2>5 DEF Receive, rowVars
<1>9. ASSUME NEW w \in Workers, WorkerStep(w) PROVE TypeOK'
  <2> DEFINE m == worker[w].m
  <2>0. /\ worker[w].pc # "idle" /\ m \in Media /\ worker[w].c \in Copies
        /\ worker[w] \in Worker /\ evidence[m] \in Evidence
    BY <1>9, WorkerTyped DEF WorkerStep, ClaimStale, ClaimBusy, Claim, Refuse,
       TransientError, PutDerivatives, PutFails, CleanUp, GiveUp, ReleaseClaim,
       RetryStale, FinalizeSuccess, FinalizeStale, Discard, Acknowledge
  <2> HIDE DEF m
  <2>g. ASSUME NEW pc \in {"discard", "ack"} \cup Claimed, Goto(w, pc)
        PROVE  /\ worker' \in [Workers -> Worker]
               /\ \A v \in Workers : worker'[v].pc # "idle" =>
                    worker'[v].m \in Media /\ worker'[v].c \in Copies
    BY <2>g, <2>0 DEF Goto, Worker, m
  <2>i. ASSUME GoIdle(w)
        PROVE  /\ worker' \in [Workers -> Worker]
               /\ \A v \in Workers : worker'[v].pc # "idle" =>
                    worker'[v].m \in Media /\ worker'[v].c \in Copies
    BY <2>i DEF GoIdle, Idle, Worker
  <2>r. ASSUME NEW outcome \in Terminal, RecordOutcome(m, outcome)
        PROVE  /\ evidence' \in [Media -> Evidence]
               /\ media' \in [Media -> MediaStatus]
               /\ sanitization_events' \in [Media -> Seq(Terminal)]
    <3>1. evidence' \in [Media -> Evidence]
      BY <2>r, <2>0 DEF RecordOutcome, Evidence
    <3>2. media' \in [Media -> MediaStatus]
      BY <2>r, <2>0 DEF RecordOutcome, MediaStatus
    <3>3. Append(sanitization_events[m], outcome) \in Seq(Terminal)
      BY <2>0
    <3>4. QED
      BY <2>r, <2>0, <3>1, <3>2, <3>3 DEF RecordOutcome
  <2>f. ASSUME NEW outcome \in Terminal, FinalizeFailure(w, outcome)
        PROVE  /\ evidence' \in [Media -> Evidence]
               /\ media' \in [Media -> MediaStatus]
               /\ sanitization_events' \in [Media -> Seq(Terminal)]
               /\ derivatives' \in [Media -> SUBSET Kinds]
    BY <2>f, <2>r DEF FinalizeFailure, rowVars, m
  <2>1. CASE ClaimStale(w)
    BY <2>1, <2>g DEF ClaimStale, rowVars
  <2>2. CASE ClaimBusy(w)
    BY <2>2, <2>i DEF ClaimBusy, rowVars
  <2>3. CASE Claim(w)
    <3>1. evidence[m].attempt_count + 1 \in Nat
      BY <2>0 DEF Evidence
    <3>2. evidence' \in [Media -> Evidence]
      BY <2>3, <2>0, <3>1 DEF Claim, Evidence, m
    <3>3. worker' \in [Workers -> Worker]
      BY <2>3, <2>0, <3>1 DEF Claim, Worker, Claimed, m
    <3>4. media' \in [Media -> MediaStatus]
      BY <2>3 DEF Claim, MediaStatus
    <3>5. \A v \in Workers : worker'[v].pc # "idle" =>
             worker'[v].m \in Media /\ worker'[v].c \in Copies
      BY <2>3, <2>0 DEF Claim, m, Worker
    <3>6. QED
      BY <2>3, <3>2, <3>3, <3>4, <3>5 DEF Claim
  <2>4. CASE Refuse(w, "rejected") \/ Refuse(w, "failed")
    BY <2>4, <2>f, <2>g DEF Refuse
  <2>5. CASE TransientError(w)
    BY <2>5, <2>g DEF TransientError, Claimed, rowVars
  <2>6. CASE PutDerivatives(w) \/ PutFails(w) \/ CleanUp(w)
    <3>1. objects' \in [Media -> SUBSET Kinds]
      <4>1. CASE PutDerivatives(w)
        BY <4>1, <2>0 DEF PutDerivatives, m
      <4>2. CASE PutFails(w)
        BY <4>2, <2>0 DEF PutFails, m
      <4>3. CASE CleanUp(w)
        BY <4>3, <2>0 DEF CleanUp, m
      <4>4. QED
        BY <2>6, <4>1, <4>2, <4>3
    <3>2. \E pc \in Claimed : Goto(w, pc)
      BY <2>6 DEF PutDerivatives, PutFails, CleanUp, Claimed
    <3>3. QED
      BY <2>6, <2>g, <3>1, <3>2 DEF PutDerivatives, PutFails, CleanUp, rowVars
  <2>7. CASE GiveUp(w)
    BY <2>7, <2>f, <2>i DEF GiveUp
  <2>8. CASE ReleaseClaim(w)
    <3>1. evidence' \in [Media -> Evidence]
      BY <2>8, <2>0 DEF ReleaseClaim, Evidence, m
    <3>2. media' \in [Media -> MediaStatus]
      BY <2>8 DEF ReleaseClaim, MediaStatus
    <3>3. QED
      BY <2>8, <2>i, <3>1, <3>2 DEF ReleaseClaim
  <2>9. CASE RetryStale(w)
    BY <2>9, <2>g DEF RetryStale, rowVars
  <2>10. CASE FinalizeSuccess(w)
    BY <2>10, <2>g, <2>r DEF FinalizeSuccess, m
  <2>11. CASE FinalizeStale(w)
    BY <2>11, <2>g DEF FinalizeStale, rowVars
  <2>12. CASE Discard(w)
    BY <2>12, <2>g DEF Discard, rowVars
  <2>13. CASE Acknowledge(w)
    <3> DEFINE r == <<m, worker[w].c>>
               msg == [queue[r] EXCEPT
                         !.state = IF @ = "queued" THEN "deleted" ELSE @]
    <3>1. r \in Media \X Copies /\ queue[r] \in Message
      BY <2>0
    <3>2. msg \in Message
      BY <3>1 DEF Message
    <3>3. queue' = [queue EXCEPT ![r] = msg]
      BY <2>13 DEF Acknowledge, m
    <3> HIDE DEF msg, r
    <3>4. queue' \in [Media \X Copies -> Message]
      BY <3>1, <3>2, <3>3
    <3>5. QED
      BY <2>13, <2>i, <3>4 DEF Acknowledge, rowVars
  <2>14. QED
    BY <1>9, <2>1, <2>2, <2>3, <2>4, <2>5, <2>6, <2>7, <2>8, <2>9, <2>10,
       <2>11, <2>12, <2>13 DEF WorkerStep
<1>10. ASSUME NEW w \in Workers, Crash(w) PROVE TypeOK'
  BY <1>10 DEF Crash, GoIdle, Idle, Worker, rowVars
<1>11. CASE UNCHANGED vars
  BY <1>11 DEF vars
<1>12. QED
  BY <1>1, <1>2, <1>3, <1>4, <1>5, <1>6, <1>7, <1>8, <1>9, <1>10, <1>11 DEF Next

\* The variables keep their types in every state the program reaches.
THEOREM TypeCorrect == Spec => []TypeOK
  BY InitTypeOK, NextTypeOK, PTL DEF Spec

-----------------------------------------------------------------------------
(* Claim tokens.                                                           *)

\* A working worker's token was issued by the evidence row of its media item,
\* and two workers on one item never have the same token.
ClaimTokens ==
  /\ \A w \in Workers : worker[w].pc \in Claimed =>
       worker[w].token \in 1 .. evidence[worker[w].m].attempt_count
  /\ \A v, w \in Workers :
       /\ v # w
       /\ worker[v].pc \in Claimed /\ worker[w].pc \in Claimed
       /\ worker[v].m = worker[w].m
       => worker[v].token # worker[w].token

SameAttempts ==
  \A m \in Media : evidence'[m].attempt_count = evidence[m].attempt_count

LEMMA SameAttemptsRecord ==
  ASSUME TypeOK, NEW m \in Media, NEW outcome, RecordOutcome(m, outcome)
  PROVE  SameAttempts
  BY DEF TypeOK, Evidence, RecordOutcome, SameAttempts

LEMMA SameAttemptsFailure ==
  ASSUME TypeOK, NEW w \in Workers, worker[w].m \in Media, NEW outcome,
         FinalizeFailure(w, outcome)
  PROVE  SameAttempts
  BY SameAttemptsRecord DEF FinalizeFailure, rowVars, SameAttempts

LEMMA ClaimTokensStep == TypeOK /\ ClaimTokens /\ [Next]_vars => ClaimTokens'
<1> SUFFICES ASSUME TypeOK, ClaimTokens, [Next]_vars PROVE ClaimTokens'
  OBVIOUS
<1>k. ASSUME UNCHANGED worker, SameAttempts PROVE ClaimTokens'
  BY <1>k DEF ClaimTokens, SameAttempts, TypeOK, Claimed
<1>g. ASSUME NEW w \in Workers, NEW pc, Goto(w, pc), SameAttempts,
             worker[w].pc # "idle",
             pc \in Claimed => worker[w].pc \in Claimed
      PROVE  ClaimTokens'
  <2>1. \A v \in Workers : /\ worker'[v].m = worker[v].m
                           /\ worker'[v].token = worker[v].token
                           /\ worker'[v].pc \in Claimed => worker[v].pc \in Claimed
    BY <1>g DEF Goto, TypeOK, Worker
  <2>2. \A v \in Workers : worker[v].pc \in Claimed => worker[v].m \in Media
    BY DEF TypeOK, Claimed
  <2>3. QED
    BY <1>g, <2>1, <2>2 DEF ClaimTokens, SameAttempts
<1>i. ASSUME NEW w \in Workers, GoIdle(w), SameAttempts PROVE ClaimTokens'
  <2>1. \A v \in Workers : worker'[v].pc \in Claimed => worker'[v] = worker[v]
    BY <1>i DEF GoIdle, Idle, Claimed, TypeOK
  <2>2. \A v \in Workers : worker[v].pc \in Claimed => worker[v].m \in Media
    BY DEF TypeOK, Claimed
  <2>3. QED
    BY <1>i, <2>1, <2>2 DEF ClaimTokens, SameAttempts
<1>1. ASSUME NEW m \in Media,
             CreateIntent(m) \/ IntentLapses(m) \/ Complete(m) \/ Remove(m)
      PROVE  ClaimTokens'
  BY <1>1, <1>k DEF CreateIntent, IntentLapses, Complete, Remove, rowVars, SameAttempts
<1>2. ASSUME NEW m \in Media, LeaseLapses(m) PROVE ClaimTokens'
  <2>1. SameAttempts
    BY <1>2 DEF LeaseLapses, SameAttempts, TypeOK, Evidence
  <2>2. QED
    BY <1>2, <1>k, <2>1 DEF LeaseLapses
<1>3. ASSUME NEW m \in Media, NEW c \in Copies, Publish(m, c) \/ Redrive(m, c)
      PROVE  ClaimTokens'
  BY <1>3, <1>k DEF Publish, Redrive, rowVars, SameAttempts
<1>4. ASSUME NEW m \in Media, NEW c \in Copies, NEW w \in Workers, Receive(w, m, c)
      PROVE  ClaimTokens'
  <2>1. \A v \in Workers : worker'[v].pc \in Claimed => worker'[v] = worker[v]
    BY <1>4 DEF Receive, Claimed, TypeOK
  <2>2. QED
    BY <1>4, <2>1 DEF Receive, rowVars, ClaimTokens
<1>5. ASSUME NEW w \in Workers, WorkerStep(w) PROVE ClaimTokens'
  <2>0. worker[w].pc # "idle" /\ worker[w].m \in Media
    BY <1>5, WorkerTyped DEF WorkerStep, ClaimStale, ClaimBusy, Claim, Refuse,
       TransientError, PutDerivatives, PutFails, CleanUp, GiveUp, ReleaseClaim,
       RetryStale, FinalizeSuccess, FinalizeStale, Discard, Acknowledge
  <2>1. CASE Claim(w)
    <3> DEFINE m == worker[w].m
               attempt == evidence[m].attempt_count + 1
    <3>1. evidence[m].attempt_count \in Nat
      BY <2>0 DEF TypeOK, Evidence
    <3>2. /\ evidence'[m].attempt_count = attempt
          /\ \A n \in Media \ {m} : evidence'[n] = evidence[n]
      BY <2>1, <2>0 DEF Claim, TypeOK
    <3>3. /\ worker'[w].pc = "work" /\ worker'[w].m = m /\ worker'[w].token = attempt
          /\ \A v \in Workers \ {w} : worker'[v] = worker[v]
      BY <2>1, <2>0 DEF Claim, TypeOK, Worker
    <3>4. \A v \in Workers : worker[v].pc \in Claimed =>
            worker[v].m \in Media /\ evidence[worker[v].m].attempt_count \in Nat
      BY DEF TypeOK, Claimed, Evidence
    <3>5. \A v \in Workers : worker[v].pc \in Claimed /\ worker[v].m = m =>
            worker[v].token # attempt
      BY <3>1 DEF ClaimTokens
    <3>6. \A v \in Workers : worker'[v].pc \in Claimed =>
            worker'[v].token \in 1 .. evidence'[worker'[v].m].attempt_count
      BY <3>1, <3>2, <3>3, <3>4 DEF ClaimTokens
    <3>7. QED
      BY <3>3, <3>5, <3>6 DEF ClaimTokens
  <2>2. CASE ClaimStale(w) \/ RetryStale(w) \/ FinalizeStale(w) \/ Discard(w)
    BY <2>2, <2>0, <1>g
    DEF ClaimStale, RetryStale, FinalizeStale, Discard, rowVars, SameAttempts, Claimed
  <2>3. CASE ClaimBusy(w) \/ Acknowledge(w)
    BY <2>3, <1>i DEF ClaimBusy, Acknowledge, rowVars, SameAttempts
  <2>4. ASSUME NEW outcome, Refuse(w, outcome) PROVE ClaimTokens'
    BY <2>4, <2>0, <1>g, SameAttemptsFailure DEF Refuse, Claimed
  <2>5. CASE TransientError(w) \/ PutDerivatives(w) \/ PutFails(w) \/ CleanUp(w)
    BY <2>5, <2>0, <1>g DEF TransientError, PutDerivatives, PutFails, CleanUp,
       rowVars, SameAttempts, Claimed
  <2>6. CASE GiveUp(w)
    BY <2>6, <2>0, <1>i, SameAttemptsFailure DEF GiveUp
  <2>7. CASE ReleaseClaim(w)
    <3>1. SameAttempts
      BY <2>7, <2>0 DEF ReleaseClaim, SameAttempts, TypeOK, Evidence
    <3>2. QED
      BY <2>7, <1>i, <3>1 DEF ReleaseClaim
  <2>8. CASE FinalizeSuccess(w)
    BY <2>8, <2>0, <1>g, SameAttemptsRecord DEF FinalizeSuccess, Claimed
  <2>9. QED
    BY <1>5, <2>1, <2>2, <2>3, <2>4, <2>5, <2>6, <2>7, <2>8 DEF WorkerStep
<1>6. ASSUME NEW w \in Workers, Crash(w) PROVE ClaimTokens'
  BY <1>6, <1>i DEF Crash, rowVars, SameAttempts
<1>7. CASE UNCHANGED vars
  BY <1>7, <1>k DEF vars, SameAttempts
<1>8. QED
  BY <1>1, <1>2, <1>3, <1>4, <1>5, <1>6, <1>7 DEF Next

\* At most one worker holds the current claim of a media item, however often
\* leases lapse and messages are redelivered: a second finalization of the
\* same item always finds its token gone (_lock_current_claim).
THEOREM ClaimsAreFenced == Spec => []SingleClaimant
<1>1. Init => ClaimTokens
  BY DEF Init, ClaimTokens, Idle, Claimed
<1>2. TypeOK /\ ClaimTokens => SingleClaimant
  BY DEF ClaimTokens, SingleClaimant, HoldsClaim
<1>3. QED
  BY <1>1, <1>2, TypeCorrect, ClaimTokensStep, PTL DEF Spec

-----------------------------------------------------------------------------
(* Outcomes.                                                               *)

\* The two row invariants together are inductive.
Outcomes == OneOutcome /\ MediaMatchesEvidence

\* A finalization under the current claim keeps them: the claim's evidence is
\* still open, so nothing was announced before.
LEMMA OutcomeRecorded ==
  ASSUME TypeOK, Outcomes, NEW m \in Media, NEW outcome \in Terminal,
         evidence[m].status = "processing",
         RecordOutcome(m, outcome),
         derivatives' = IF outcome = "moderation_pending"
                          THEN [derivatives EXCEPT ![m] = Kinds] ELSE derivatives
  PROVE  Outcomes'
<1>1. sanitization_events[m] = <<>> /\ derivatives[m] = {}
  BY DEF Outcomes, OneOutcome, Terminal
<1>2. /\ evidence'[m].status = outcome /\ media'[m] = outcome
      /\ sanitization_events'[m] = <<outcome>>
      /\ derivatives'[m] = IF outcome = "moderation_pending" THEN Kinds ELSE {}
  <2>1. evidence'[m].status = outcome /\ media'[m] = outcome
    BY DEF RecordOutcome, TypeOK, Evidence
  <2>2. sanitization_events'[m] = Append(<<>>, outcome)
    BY <1>1 DEF RecordOutcome, TypeOK
  <2>3. derivatives'[m] = IF outcome = "moderation_pending" THEN Kinds ELSE {}
    BY <1>1 DEF TypeOK
  <2>4. QED
    BY <2>1, <2>2, <2>3
<1>3. \A n \in Media \ {m} :
        /\ evidence'[n] = evidence[n] /\ media'[n] = media[n]
        /\ sanitization_events'[n] = sanitization_events[n]
        /\ derivatives'[n] = derivatives[n]
  BY DEF RecordOutcome, TypeOK
<1>4. OneOutcome'
  BY <1>2, <1>3 DEF Outcomes, OneOutcome
<1>5. MediaMatchesEvidence'
  BY <1>2, <1>3 DEF Outcomes, MediaMatchesEvidence, Terminal
<1>6. QED
  BY <1>4, <1>5 DEF Outcomes

LEMMA FailureKeepsOutcomes ==
  ASSUME TypeOK, Outcomes, NEW w \in Workers, worker[w].m \in Media,
         NEW outcome \in {"rejected", "failed"}, FinalizeFailure(w, outcome)
  PROVE  Outcomes'
<1>1. CASE HoldsClaim(w)
  BY <1>1, OutcomeRecorded DEF FinalizeFailure, HoldsClaim, Terminal
<1>2. CASE ~HoldsClaim(w)
  BY <1>2 DEF FinalizeFailure, rowVars, Outcomes, OneOutcome, MediaMatchesEvidence
<1>3. QED
  BY <1>1, <1>2

LEMMA OutcomesStep == TypeOK /\ Outcomes /\ [Next]_vars => Outcomes'
<1> SUFFICES ASSUME TypeOK, Outcomes, [Next]_vars PROVE Outcomes'
  OBVIOUS
<1>u. ASSUME UNCHANGED rowVars PROVE Outcomes'
  BY <1>u DEF rowVars, Outcomes, OneOutcome, MediaMatchesEvidence
<1>e. ASSUME UNCHANGED <<derivatives, sanitization_events>>,
             \A m \in Media :
               evidence'[m].status = evidence[m].status
               \/ {evidence[m].status, evidence'[m].status} \cap Terminal = {}
      PROVE  OneOutcome'
  BY <1>e DEF Outcomes, OneOutcome
<1>1. ASSUME NEW m \in Media, CreateIntent(m) PROVE Outcomes'
  BY <1>1 DEF CreateIntent, Outcomes, OneOutcome, MediaMatchesEvidence, TypeOK, Terminal
<1>2. ASSUME NEW m \in Media, Complete(m) PROVE Outcomes'
  BY <1>2 DEF Complete, Outcomes, OneOutcome, MediaMatchesEvidence, TypeOK, Terminal
<1>3. ASSUME NEW m \in Media, Remove(m) PROVE Outcomes'
  BY <1>3 DEF Remove, Outcomes, OneOutcome, MediaMatchesEvidence, TypeOK, Terminal
<1>4. ASSUME NEW m \in Media, LeaseLapses(m) PROVE Outcomes'
  <2>1. \A n \in Media : /\ evidence'[n].status = evidence[n].status
                         /\ evidence'[n].claim_token = evidence[n].claim_token
    BY <1>4 DEF LeaseLapses, TypeOK, Evidence
  <2>2. \A n \in Media \ {m} : evidence'[n] = evidence[n]
    BY <1>4 DEF LeaseLapses, TypeOK
  <2>3. evidence[m] # NoEvidence
    BY <1>4 DEF LeaseLapses, NoEvidence
  <2>4. MediaMatchesEvidence'
    BY <1>4, <2>1, <2>2, <2>3 DEF LeaseLapses, Outcomes, MediaMatchesEvidence
  <2>5. QED
    BY <1>4, <1>e, <2>1, <2>4 DEF LeaseLapses, Outcomes
<1>5. ASSUME NEW m \in Media,
             \/ IntentLapses(m)
             \/ \E c \in Copies : \/ Publish(m, c) \/ Redrive(m, c)
                                 \/ \E w \in Workers : Receive(w, m, c)
      PROVE  Outcomes'
  BY <1>5, <1>u DEF IntentLapses, Publish, Redrive, Receive
<1>6. ASSUME NEW w \in Workers, WorkerStep(w) PROVE Outcomes'
  <2> DEFINE m == worker[w].m
  <2>0. m \in Media /\ evidence[m] \in Evidence
    BY <1>6, WorkerTyped DEF WorkerStep, ClaimStale, ClaimBusy, Claim, Refuse,
       TransientError, PutDerivatives, PutFails, CleanUp, GiveUp, ReleaseClaim,
       RetryStale, FinalizeSuccess, FinalizeStale, Discard, Acknowledge
  <2>1. CASE Claim(w)
    <3>1. /\ evidence'[m].status = "processing" /\ evidence'[m].claim_token # 0
          /\ media'[m] = "scanning"
      BY <2>1, <2>0 DEF Claim, TypeOK, Evidence
    <3>2. \A n \in Media \ {m} : evidence'[n] = evidence[n] /\ media'[n] = media[n]
      BY <2>1, <2>0 DEF Claim, TypeOK
    <3>3. evidence[m].status \notin Terminal
      BY <2>1 DEF Claim, Terminal
    <3>4. OneOutcome'
      BY <2>1, <3>1, <3>2, <3>3, <1>e DEF Claim, Terminal
    <3>5. MediaMatchesEvidence'
      BY <3>1, <3>2 DEF Outcomes, MediaMatchesEvidence, Terminal
    <3>6. QED
      BY <3>4, <3>5 DEF Outcomes
  <2>2. CASE \/ ClaimStale(w) \/ ClaimBusy(w) \/ TransientError(w)
             \/ PutDerivatives(w) \/ PutFails(w) \/ CleanUp(w) \/ RetryStale(w)
             \/ FinalizeStale(w) \/ Discard(w) \/ Acknowledge(w)
    BY <2>2, <1>u DEF ClaimStale, ClaimBusy, TransientError, PutDerivatives, PutFails,
       CleanUp, RetryStale, FinalizeStale, Discard, Acknowledge
  <2>3. CASE Refuse(w, "rejected") \/ Refuse(w, "failed")
    BY <2>3, <2>0, FailureKeepsOutcomes DEF Refuse
  <2>4. CASE GiveUp(w)
    BY <2>4, <2>0, FailureKeepsOutcomes DEF GiveUp
  <2>5. CASE ReleaseClaim(w)
    <3>1. /\ evidence'[m].status = "processing" /\ evidence'[m].claim_token = 0
          /\ evidence[m].status = "processing" /\ media'[m] = "processing"
      BY <2>5, <2>0 DEF ReleaseClaim, HoldsClaim, TypeOK, Evidence
    <3>2. \A n \in Media \ {m} : evidence'[n] = evidence[n] /\ media'[n] = media[n]
      BY <2>5, <2>0 DEF ReleaseClaim, TypeOK
    <3>3. OneOutcome'
      BY <2>5, <3>1, <3>2, <1>e DEF ReleaseClaim
    <3>4. MediaMatchesEvidence'
      BY <3>1, <3>2 DEF Outcomes, MediaMatchesEvidence, Terminal
    <3>5. QED
      BY <3>3, <3>4 DEF Outcomes
  <2>6. CASE FinalizeSuccess(w)
    BY <2>6, <2>0, OutcomeRecorded DEF FinalizeSuccess, HoldsClaim, Terminal
  <2>7. QED
    BY <1>6, <2>1, <2>2, <2>3, <2>4, <2>5, <2>6 DEF WorkerStep
<1>7. ASSUME NEW w \in Workers, Crash(w) PROVE Outcomes'
  BY <1>7, <1>u DEF Crash
<1>8. CASE UNCHANGED vars
  BY <1>8, <1>u DEF vars, rowVars
<1>9. QED
  BY <1>1, <1>2, <1>3, <1>4, <1>5, <1>6, <1>7, <1>8 DEF Next

\* For every instance, the evidence, its derivative rows and the announced
\* event tell one story, and the media row agrees with the evidence.
THEOREM OutcomesAgree == Spec => [](OneOutcome /\ MediaMatchesEvidence)
<1>1. Init => Outcomes
  BY DEF Init, Outcomes, OneOutcome, MediaMatchesEvidence, NoEvidence, Terminal
<1>2. Outcomes <=> OneOutcome /\ MediaMatchesEvidence
  BY DEF Outcomes
<1>3. QED
  BY <1>1, <1>2, TypeCorrect, OutcomesStep, PTL DEF Spec

\* The media row a listing is judged by never says anything else than the
\* evidence the worker recorded, whichever worker, removal or retry came first
\* (MediaWorker.process, MediaService.remove).
THEOREM MediaFollowsEvidence == Spec => []MediaMatchesEvidence
  BY OutcomesAgree, PTL

-----------------------------------------------------------------------------
(* Refinement.                                                             *)

phase == [m \in Media |-> PhaseOf(media[m])]

\* A status change of one row is the phase change of that item.
LEMMA PhaseChange ==
  ASSUME TypeOK, NEW m \in Media, NEW s, media' = [media EXCEPT ![m] = s]
  PROVE  phase' = [phase EXCEPT ![m] = PhaseOf(s)]
  BY DEF phase, TypeOK

LEMMA DecisionIsReviewed ==
  ASSUME TypeOK, Outcomes, NEW m \in Media, NEW outcome \in Terminal,
         Current(m), evidence[m].status = "processing", RecordOutcome(m, outcome)
  PROVE  Review!Decide(m, outcome)
<1>1. sanitization_events[m] = <<>>
  BY DEF Outcomes, OneOutcome, Terminal
<1>2. sanitization_events' = [sanitization_events EXCEPT ![m] = <<outcome>>]
  <2>1. Append(<<>>, outcome) = <<outcome>>
    OBVIOUS
  <2>2. QED
    BY <1>1, <2>1 DEF RecordOutcome
<1>3. phase[m] = "pending"
  BY DEF phase, PhaseOf, Current
<1>4. phase' = [phase EXCEPT ![m] = outcome]
  <2>1. PhaseOf(outcome) = outcome
    BY DEF PhaseOf, Terminal
  <2>2. QED
    BY <2>1, PhaseChange DEF RecordOutcome
<1>5. QED
  BY <1>1, <1>2, <1>3, <1>4 DEF Review!Decide, phase

\* A step that keeps every phase and every announcement is a stutter.
LEMMA ReviewStutters ==
  ASSUME TypeOK, UNCHANGED sanitization_events, UNCHANGED phase
  PROVE  UNCHANGED Review!vars
  BY DEF Review!vars, phase

LEMMA FailureIsReviewed ==
  ASSUME TypeOK, Outcomes, NEW w \in Workers, worker[w].m \in Media,
         NEW outcome \in {"rejected", "failed"}, FinalizeFailure(w, outcome)
  PROVE  [Review!Next]_(Review!vars)
<1>1. CASE HoldsClaim(w)
  BY <1>1, DecisionIsReviewed DEF FinalizeFailure, HoldsClaim, Terminal, Review!Next
<1>2. CASE ~HoldsClaim(w)
  BY <1>2, ReviewStutters DEF FinalizeFailure, rowVars, phase
<1>3. QED
  BY <1>1, <1>2

LEMMA ReviewStep == TypeOK /\ Outcomes /\ [Next]_vars => [Review!Next]_(Review!vars)
<1> SUFFICES ASSUME TypeOK, Outcomes, [Next]_vars PROVE [Review!Next]_(Review!vars)
  OBVIOUS
<1>u. ASSUME UNCHANGED media, UNCHANGED sanitization_events
      PROVE  [Review!Next]_(Review!vars)
  BY <1>u, ReviewStutters DEF phase
<1>1. ASSUME NEW m \in Media, CreateIntent(m) PROVE Review!Next
  <2>1. phase[m] = "absent" /\ phase' = [phase EXCEPT ![m] = "intent"]
    BY <1>1, PhaseChange DEF CreateIntent, phase, PhaseOf
  <2>2. QED
    BY <1>1, <2>1 DEF CreateIntent, Review!Create, Review!Next, phase
<1>2. ASSUME NEW m \in Media, Complete(m) PROVE Review!Next
  <2>1. phase[m] = "intent" /\ phase' = [phase EXCEPT ![m] = "pending"]
    BY <1>2, PhaseChange DEF Complete, phase, PhaseOf
  <2>2. QED
    BY <1>2, <2>1 DEF Complete, Review!Accept, Review!Next, phase
<1>3. ASSUME NEW m \in Media, Remove(m) PROVE Review!Next
  <2>1. phase[m] \notin {"absent", "removed"} /\ phase' = [phase EXCEPT ![m] = "removed"]
    BY <1>3, PhaseChange DEF Remove, phase, PhaseOf
  <2>2. QED
    BY <1>3, <2>1 DEF Remove, Review!Remove, Review!Next, phase
<1>4. ASSUME NEW m \in Media,
             \/ IntentLapses(m) \/ LeaseLapses(m)
             \/ \E c \in Copies : \/ Publish(m, c) \/ Redrive(m, c)
                                 \/ \E w \in Workers : Receive(w, m, c)
      PROVE  [Review!Next]_(Review!vars)
  BY <1>4, <1>u DEF IntentLapses, LeaseLapses, Publish, Redrive, Receive, rowVars
<1>5. ASSUME NEW w \in Workers, WorkerStep(w) PROVE [Review!Next]_(Review!vars)
  <2> DEFINE m == worker[w].m
  <2>0. m \in Media
    BY <1>5, WorkerTyped DEF WorkerStep, ClaimStale, ClaimBusy, Claim, Refuse,
       TransientError, PutDerivatives, PutFails, CleanUp, GiveUp, ReleaseClaim,
       RetryStale, FinalizeSuccess, FinalizeStale, Discard, Acknowledge
  <2>1. CASE Claim(w)
    <3>1. phase' = phase
      BY <2>1, <2>0 DEF Claim, Current, phase, PhaseOf, TypeOK
    <3>2. QED
      BY <2>1, <3>1, ReviewStutters DEF Claim
  <2>2. CASE ReleaseClaim(w)
    <3>1. phase' = phase
      BY <2>2, <2>0 DEF ReleaseClaim, HoldsClaim, Current, phase, PhaseOf, TypeOK
    <3>2. QED
      BY <2>2, <3>1, ReviewStutters DEF ReleaseClaim
  <2>3. CASE \/ ClaimStale(w) \/ ClaimBusy(w) \/ TransientError(w)
             \/ PutDerivatives(w) \/ PutFails(w) \/ CleanUp(w) \/ RetryStale(w)
             \/ FinalizeStale(w) \/ Discard(w) \/ Acknowledge(w)
    BY <2>3, <1>u DEF ClaimStale, ClaimBusy, TransientError, PutDerivatives, PutFails,
       CleanUp, RetryStale, FinalizeStale, Discard, Acknowledge, rowVars
  <2>4. CASE Refuse(w, "rejected") \/ Refuse(w, "failed")
    BY <2>4, <2>0, FailureIsReviewed DEF Refuse
  <2>5. CASE GiveUp(w)
    BY <2>5, <2>0, FailureIsReviewed DEF GiveUp
  <2>6. CASE FinalizeSuccess(w)
    BY <2>6, <2>0, DecisionIsReviewed
    DEF FinalizeSuccess, HoldsClaim, Terminal, Review!Next
  <2>7. QED
    BY <1>5, <2>1, <2>2, <2>3, <2>4, <2>5, <2>6 DEF WorkerStep
<1>6. ASSUME NEW w \in Workers, Crash(w) PROVE [Review!Next]_(Review!vars)
  BY <1>6, <1>u DEF Crash, rowVars
<1>7. CASE UNCHANGED vars
  BY <1>7, <1>u DEF vars
<1>8. QED
  BY <1>1, <1>2, <1>3, <1>4, <1>5, <1>6, <1>7 DEF Next

\* The pool of workers implements the abstract review: every upload is decided
\* at most once, announced in the same step, and a removed item stays removed.
THEOREM ImplementsReview == Spec => ReviewSpec
<1>1. Init => Review!Init
  BY DEF Init, Review!Init, PhaseOf
<1>2. Init => Outcomes
  BY DEF Init, Outcomes, OneOutcome, MediaMatchesEvidence, NoEvidence, Terminal
<1>3. QED
  BY <1>1, <1>2, TypeCorrect, OutcomesStep, ReviewStep, PTL
  DEF Spec, ReviewSpec, Review!Spec

-----------------------------------------------------------------------------
(* One worker.  With a second worker a late discard deletes the objects the *)
(* first one wrote and a late acknowledgement drops a request still needed  *)
(* (the runs media_stale_discard and media_stale_ack); without one, neither *)
(* happens.  The reason is that whoever holds a claim can then only lose it *)
(* to a removal.                                                            *)

OneWorker == \A v, w \in Workers : v = w

Accepted(m) == media[m] \notin {"absent", "intent_created"}

RequestOpen(m) ==
  \/ \A c \in Copies : queue[<<m, c>>].state = "outbox"
  \/ \E c \in Copies : queue[<<m, c>>].state \in {"queued", "dlq"}

ItemKept(m) ==
  /\ \A c \in Copies : queue[<<m, c>>].state # "none" => Accepted(m)
  /\ Current(m) => RequestOpen(m)
  /\ media[m] = "moderation_pending" => objects[m] = Kinds

\* A worker that was handed a claim still has it, unless the item is removed;
\* it discards and acknowledges only what is settled.
WorkerAlone(w) ==
  LET m == worker[w].m
      pc == worker[w].pc
  IN
  /\ pc # "idle" => Accepted(m)
  /\ pc \in Claimed => /\ evidence[m].status = "processing"
                       /\ evidence[m].claim_token = worker[w].token
  /\ pc = "finalize" => objects[m] = Kinds
  /\ pc = "discard" => media[m] = "removed"
  /\ pc = "ack" => Settled(m)

AloneInv == (\A m \in Media : ItemKept(m)) /\ (\A w \in Workers : WorkerAlone(w))

\* A step that leaves an item's row, objects and messages alone keeps it.
LEMMA ItemUntouched ==
  ASSUME NEW m \in Media, ItemKept(m), media'[m] = media[m], objects'[m] = objects[m],
         \A c \in Copies : queue'[<<m, c>>].state = queue[<<m, c>>].state
  PROVE  ItemKept(m)'
  BY DEF ItemKept, Accepted, Current, RequestOpen

\* A step of the API, the relay, the queue or the clock keeps every worker that
\* it leaves with its item, its claim and its objects.
LEMMA WorkersUndisturbed ==
  ASSUME TypeOK, NEW w \in Workers, WorkerAlone(w), worker'[w] = worker[w],
         \A m \in Media : /\ Accepted(m) => media'[m] \in {media[m], "removed"}
                          /\ objects'[m] = objects[m]
                          /\ evidence'[m].status = evidence[m].status
                          /\ evidence'[m].claim_token = evidence[m].claim_token
  PROVE  WorkerAlone(w)'
<1>1. CASE worker[w].pc = "idle"
  BY <1>1 DEF WorkerAlone, Claimed
<1>2. CASE worker[w].pc # "idle"
  <2>1. worker[w].m \in Media
    BY <1>2 DEF TypeOK
  <2>2. QED
    BY <1>2, <2>1 DEF WorkerAlone, Accepted, Settled, Terminal
<1>3. QED
  BY <1>1, <1>2

\* Who holds a claim alone finds it stale only after a removal.
LEMMA OnlyRemovalEndsClaim ==
  ASSUME TypeOK, Outcomes, NEW w \in Workers, WorkerAlone(w), worker[w].pc \in Claimed
  PROVE  LET m == worker[w].m IN
         /\ m \in Media /\ media[m] \notin Terminal
         /\ HoldsClaim(w) <=> Current(m)
         /\ Current(m) \/ media[m] = "removed"
<1> DEFINE m == worker[w].m
<1>1. m \in Media
  BY DEF TypeOK, Claimed
<1>2. evidence[m].status = "processing" /\ evidence[m].claim_token = worker[w].token
      /\ Accepted(m)
  BY DEF WorkerAlone, Claimed
<1>3. media[m] \notin Terminal
  BY <1>1, <1>2 DEF Outcomes, MediaMatchesEvidence, Terminal
<1>4. Current(m) \/ media[m] = "removed"
  BY <1>1, <1>2, <1>3 DEF TypeOK, MediaStatus, Accepted, Current
<1>5. QED
  BY <1>1, <1>2, <1>3, <1>4 DEF HoldsClaim

LEMMA ServiceKeepsAlone ==
  ASSUME TypeOK, AloneInv, NEW m \in Media,
         \/ CreateIntent(m) \/ IntentLapses(m) \/ Complete(m) \/ Remove(m)
         \/ LeaseLapses(m)
  PROVE  AloneInv'
<1>0. ItemKept(m) /\ \A w \in Workers : WorkerAlone(w)
  BY DEF AloneInv
<1>1. /\ \A n \in Media \ {m} : media'[n] = media[n]
      /\ \A n \in Media : /\ objects'[n] = objects[n]
                          /\ evidence'[n].status = evidence[n].status
                          /\ evidence'[n].claim_token = evidence[n].claim_token
      /\ worker' = worker
      /\ \A n \in Media \ {m} : \A c \in Copies : queue'[<<n, c>>] = queue[<<n, c>>]
  <2>1. CASE CreateIntent(m) \/ IntentLapses(m) \/ Remove(m)
    BY <2>1 DEF CreateIntent, IntentLapses, Remove, rowVars, TypeOK
  <2>2. CASE Complete(m)
    <3>1. \A n \in Media \ {m} : \A c \in Copies : queue'[<<n, c>>] = queue[<<n, c>>]
      BY <2>2 DEF Complete
    <3>2. QED
      BY <2>2, <3>1 DEF Complete, TypeOK
  <2>3. CASE LeaseLapses(m)
    <3>1. \A n \in Media : /\ evidence'[n].status = evidence[n].status
                           /\ evidence'[n].claim_token = evidence[n].claim_token
      BY <2>3 DEF LeaseLapses, TypeOK, Evidence
    <3>2. QED
      BY <2>3, <3>1 DEF LeaseLapses
  <2>4. QED
    BY <2>1, <2>2, <2>3
<1>2. \A n \in Media \ {m} : ItemKept(n)'
  BY <1>1, ItemUntouched DEF AloneInv
<1>3. Accepted(m) => media'[m] \in {media[m], "removed"}
  BY DEF CreateIntent, IntentLapses, Complete, Remove, LeaseLapses, rowVars, Accepted, TypeOK
<1>4. \A w \in Workers : WorkerAlone(w)'
  BY <1>0, <1>1, <1>3, WorkersUndisturbed
<1>5. ItemKept(m)'
  <2>1. CASE CreateIntent(m)
    BY <1>0, <2>1 DEF CreateIntent, ItemKept, Accepted, Current, TypeOK
  <2>2. CASE IntentLapses(m) \/ LeaseLapses(m)
    BY <1>0, <2>2, ItemUntouched DEF IntentLapses, LeaseLapses, rowVars
  <2>3. CASE Complete(m)
    <3>1. /\ media'[m] = "processing"
          /\ \A c \in Copies : queue'[<<m, c>>].state = "outbox"
      BY <2>3 DEF Complete, TypeOK
    <3>2. QED
      BY <3>1 DEF ItemKept, Accepted, RequestOpen
  <2>4. CASE Remove(m)
    BY <1>0, <2>4 DEF Remove, ItemKept, Accepted, Current, TypeOK
  <2>5. QED
    BY <2>1, <2>2, <2>3, <2>4
<1>6. QED
  BY <1>2, <1>4, <1>5 DEF AloneInv

\* What a step of the relay, the queue or an acknowledgement may do to one message.
LEMMA MessageMoves ==
  ASSUME TypeOK, NEW m \in Media, NEW c \in Copies, NEW s,
         \/ queue' = [queue EXCEPT ![<<m, c>>].state = s]
         \/ queue' = [queue EXCEPT ![<<m, c>>].receives = @ + 1] /\ s = queue[<<m, c>>].state
  PROVE  /\ queue'[<<m, c>>].state = s
         /\ \A n \in Media : \A d \in Copies :
              n # m \/ d # c => queue'[<<n, d>>] = queue[<<n, d>>]
<1>1. <<m, c>> \in Media \X Copies /\ queue[<<m, c>>] \in Message
  BY DEF TypeOK
<1>2. queue'[<<m, c>>].state = s
  BY <1>1 DEF TypeOK, Message
<1>3. ASSUME NEW n \in Media, NEW d \in Copies, n # m \/ d # c
      PROVE  queue'[<<n, d>>] = queue[<<n, d>>]
  <2>1. <<n, d>> # <<m, c>> /\ <<n, d>> \in Media \X Copies
    BY <1>3
  <2>2. QED
    BY <2>1 DEF TypeOK
<1>4. QED
  BY <1>2, <1>3

LEMMA QueueKeepsAlone ==
  ASSUME TypeOK, AloneInv, NEW m \in Media, NEW c \in Copies,
         Publish(m, c) \/ Redrive(m, c) \/ \E w \in Workers : Receive(w, m, c)
  PROVE  AloneInv'
<1>0. ItemKept(m) /\ \A w \in Workers : WorkerAlone(w)
  BY DEF AloneInv
<1>1. UNCHANGED <<media, objects, evidence>>
  BY DEF Publish, Redrive, Receive, rowVars
<1>2. PICK s \in {"queued", "dlq"} :
        /\ \/ queue' = [queue EXCEPT ![<<m, c>>].state = s]
           \/ queue' = [queue EXCEPT ![<<m, c>>].receives = @ + 1]
              /\ s = queue[<<m, c>>].state
        /\ queue[<<m, c>>].state # "none"
  BY DEF Publish, Redrive, Receive
<1>3. /\ queue'[<<m, c>>].state = s
      /\ \A n \in Media : \A d \in Copies :
           n # m \/ d # c => queue'[<<n, d>>] = queue[<<n, d>>]
  BY <1>2, MessageMoves
<1>4. \A n \in Media \ {m} : ItemKept(n)'
  BY <1>1, <1>3, ItemUntouched DEF AloneInv
<1>5. ItemKept(m)'
  <2>1. Accepted(m) /\ RequestOpen(m)'
    BY <1>0, <1>2, <1>3 DEF ItemKept, RequestOpen
  <2>2. QED
    BY <1>0, <1>1, <2>1 DEF ItemKept, Accepted
<1>6. ASSUME NEW w \in Workers PROVE WorkerAlone(w)'
  <2>1. CASE worker'[w] = worker[w]
    BY <1>0, <1>1, <2>1, WorkersUndisturbed
  <2>2. CASE worker'[w] # worker[w]
    <3>1. worker'[w].pc = "claim" /\ worker'[w].m = m
      BY <2>2 DEF Publish, Redrive, Receive, TypeOK
    <3>2. Accepted(m)
      BY <1>0, <1>2 DEF ItemKept
    <3>3. QED
      BY <1>1, <3>1, <3>2 DEF WorkerAlone, Accepted, Claimed
  <2>3. QED
    BY <2>1, <2>2
<1>7. QED
  BY <1>4, <1>5, <1>6 DEF AloneInv

\* The outcome a worker records settles its item and spares the others.
LEMMA OutcomeSettles ==
  ASSUME TypeOK, NEW m \in Media, NEW outcome \in Terminal, RecordOutcome(m, outcome)
  PROVE  /\ media'[m] = outcome
         /\ \A n \in Media \ {m} : media'[n] = media[n]
  BY DEF RecordOutcome, TypeOK

LEMMA FailureSettles ==
  ASSUME TypeOK, Outcomes, NEW w \in Workers, WorkerAlone(w), worker[w].pc \in Claimed,
         NEW outcome \in {"rejected", "failed"}, FinalizeFailure(w, outcome)
  PROVE  LET m == worker[w].m IN
         /\ media'[m] \in {"rejected", "failed", "removed"}
         /\ \A n \in Media \ {m} : media'[n] = media[n]
<1>1. worker[w].m \in Media
  BY OnlyRemovalEndsClaim
<1>2. CASE HoldsClaim(w)
  BY <1>1, <1>2, OutcomeSettles DEF FinalizeFailure, Terminal
<1>3. CASE ~HoldsClaim(w)
  BY <1>3, OnlyRemovalEndsClaim DEF FinalizeFailure, rowVars
<1>4. QED
  BY <1>2, <1>3

\* What the worker leaves behind: its own record and item suffice, as there is
\* no other worker and the other items and messages are left alone.
LEMMA AloneCarries ==
  ASSUME OneWorker, AloneInv, NEW w \in Workers, WorkerAlone(w)',
         NEW m \in Media, ItemKept(m)',
         \A n \in Media \ {m} :
           /\ media'[n] = media[n] /\ objects'[n] = objects[n]
           /\ \A c \in Copies : queue'[<<n, c>>].state = queue[<<n, c>>].state
  PROVE  AloneInv'
<1>1. \A n \in Media \ {m} : ItemKept(n)'
  BY ItemUntouched DEF AloneInv
<1>2. \A v \in Workers : WorkerAlone(v)'
  BY DEF OneWorker
<1>3. QED
  BY <1>1, <1>2 DEF AloneInv

LEMMA WorkerKeepsAlone ==
  ASSUME OneWorker, TypeOK, Outcomes, AloneInv, NEW w \in Workers, WorkerStep(w)
  PROVE  AloneInv'
<1>a. /\ worker[w].pc # "idle" /\ worker[w].m \in Media /\ worker[w].c \in Copies
      /\ worker[w] \in Worker /\ evidence[worker[w].m] \in Evidence
  BY WorkerTyped DEF WorkerStep, ClaimStale, ClaimBusy, Claim, Refuse,
     TransientError, PutDerivatives, PutFails, CleanUp, GiveUp, ReleaseClaim,
     RetryStale, FinalizeSuccess, FinalizeStale, Discard, Acknowledge
<1>p. PICK m \in Media : m = worker[w].m
  BY <1>a
<1>0. /\ m \in Media /\ m = worker[w].m /\ worker[w].c \in Copies
      /\ worker[w] \in Worker /\ evidence[m] \in Evidence
  BY <1>a, <1>p
<1>k. WorkerAlone(w) /\ ItemKept(m) /\ Accepted(m)
  BY <1>a, <1>0 DEF AloneInv, WorkerAlone
<1>g. ASSUME NEW pc, Goto(w, pc)
      PROVE  worker'[w].pc = pc /\ worker'[w].m = m /\ worker'[w].token = worker[w].token
  BY <1>0, <1>g DEF Goto, TypeOK, Worker
<1>i. ASSUME GoIdle(w) PROVE WorkerAlone(w)'
  BY <1>0, <1>i DEF GoIdle, Idle, WorkerAlone, TypeOK, Claimed
<1>s. ASSUME UNCHANGED queue, UNCHANGED objects, media'[m] # "moderation_pending",
             media'[m] \notin {"absent", "intent_created"}, Current(m)' => Current(m)
      PROVE  ItemKept(m)'
  BY <1>0, <1>k, <1>s DEF ItemKept, Accepted, RequestOpen
<1>1. CASE ClaimStale(w)
  <2>1. Settled(m)
    BY <1>0, <1>1, <1>k
    DEF ClaimStale, Outcomes, MediaMatchesEvidence, NoEvidence, Current, Settled,
        Accepted, Terminal, TypeOK, MediaStatus
  <2>2. WorkerAlone(w)'
    BY <1>0, <1>1, <1>g, <1>k, <2>1 DEF ClaimStale, WorkerAlone, rowVars, Settled, Accepted, Claimed
  <2>3. ItemKept(m)'
    BY <1>0, <1>1, <1>k, ItemUntouched DEF ClaimStale, rowVars
  <2>4. QED
    BY <1>0, <1>1, <2>2, <2>3, AloneCarries DEF ClaimStale, rowVars
<1>2. CASE ClaimBusy(w) \/ RetryStale(w) \/ TransientError(w)
  <2>1. UNCHANGED <<rowVars, objects, queue>>
    BY <1>0, <1>2 DEF ClaimBusy, RetryStale, TransientError
  <2>2. WorkerAlone(w)'
    <3>1. CASE ClaimBusy(w)
      BY <1>0, <3>1, <1>i DEF ClaimBusy
    <3>2. CASE RetryStale(w)
      <4>1. Settled(m)
        BY <1>0, <1>k, <3>2, OnlyRemovalEndsClaim DEF RetryStale, Claimed, Settled
      <4>2. QED
        BY <1>0, <1>g, <1>k, <2>1, <3>2, <4>1
        DEF RetryStale, WorkerAlone, rowVars, Settled, Accepted, Claimed
    <3>3. CASE TransientError(w)
      BY <1>0, <1>g, <1>k, <2>1, <3>3 DEF TransientError, WorkerAlone, rowVars, Accepted, Claimed
    <3>4. QED
      BY <1>0, <1>2, <3>1, <3>2, <3>3
  <2>3. ItemKept(m)'
    BY <1>0, <1>k, <2>1, ItemUntouched DEF rowVars
  <2>4. QED
    BY <1>0, <2>1, <2>2, <2>3, AloneCarries DEF rowVars
<1>3. CASE Claim(w)
  <2>1. evidence[m].attempt_count + 1 \in Nat
    BY <1>0 DEF Evidence
  <2>2. /\ evidence'[m].status = "processing"
        /\ evidence'[m].claim_token = evidence[m].attempt_count + 1
        /\ media'[m] = "scanning" /\ \A n \in Media \ {m} : media'[n] = media[n]
        /\ UNCHANGED <<objects, queue>> /\ Current(m)
    BY <1>0, <1>3 DEF Claim, TypeOK
  <2>3. worker'[w].pc = "work" /\ worker'[w].m = m
        /\ worker'[w].token = evidence[m].attempt_count + 1
    BY <1>0, <1>3, <2>1 DEF Claim, TypeOK, Worker
  <2>4. WorkerAlone(w)'
    BY <1>0, <2>2, <2>3 DEF WorkerAlone, Accepted, Claimed
  <2>5. QED
    BY <1>0, <1>s, <2>2, <2>4, AloneCarries
<1>4. ASSUME NEW outcome \in {"rejected", "failed"}, Refuse(w, outcome) PROVE AloneInv'
  <2>1. /\ media'[m] \in {"rejected", "failed", "removed"}
        /\ \A n \in Media \ {m} : media'[n] = media[n]
    BY <1>0, <1>4, <1>k, FailureSettles DEF Refuse, Claimed
  <2>2. WorkerAlone(w)'
    BY <1>0, <1>4, <1>g, <2>1 DEF Refuse, WorkerAlone, Accepted, Settled, Terminal, Claimed
  <2>3. ItemKept(m)'
    BY <1>0, <1>4, <1>s, <2>1 DEF Refuse, Current
  <2>4. QED
    BY <1>0, <1>4, <2>1, <2>2, <2>3, AloneCarries DEF Refuse
<1>5. CASE PutDerivatives(w) \/ PutFails(w) \/ CleanUp(w)
  <2>1. worker[w].pc \in Claimed /\ UNCHANGED <<rowVars, queue>>
    BY <1>0, <1>5 DEF PutDerivatives, PutFails, CleanUp, Claimed
  <2>2. /\ media[m] # "moderation_pending"
        /\ evidence[m].status = "processing" /\ evidence[m].claim_token = worker[w].token
    BY <1>0, <1>k, <2>1, OnlyRemovalEndsClaim DEF WorkerAlone, Terminal
  <2>3. \A n \in Media \ {m} : objects'[n] = objects[n]
    BY <1>0, <1>5 DEF PutDerivatives, PutFails, CleanUp, TypeOK
  <2>4. PutDerivatives(w) => objects'[m] = Kinds
    BY <1>0 DEF PutDerivatives, TypeOK
  <2>5. \E pc \in Claimed : Goto(w, pc) /\ (pc = "finalize" => PutDerivatives(w))
    BY <1>0, <1>5 DEF PutDerivatives, PutFails, CleanUp, Claimed
  <2>6. WorkerAlone(w)'
    BY <1>0, <1>g, <1>k, <2>1, <2>2, <2>4, <2>5 DEF WorkerAlone, rowVars, Accepted, Claimed
  <2>7. ItemKept(m)'
    BY <1>0, <1>k, <2>1, <2>2 DEF ItemKept, rowVars, Accepted, Current, RequestOpen
  <2>8. QED
    BY <1>0, <2>1, <2>3, <2>6, <2>7, AloneCarries DEF rowVars
<1>6. CASE GiveUp(w)
  <2>1. /\ media'[m] \in {"rejected", "failed", "removed"}
        /\ \A n \in Media \ {m} : media'[n] = media[n]
    BY <1>0, <1>6, <1>k, FailureSettles DEF GiveUp, Claimed
  <2>2. ItemKept(m)'
    BY <1>0, <1>6, <1>s, <2>1 DEF GiveUp, Current
  <2>3. QED
    BY <1>0, <1>6, <1>i, <2>1, <2>2, AloneCarries DEF GiveUp
<1>7. CASE ReleaseClaim(w)
  <2>1. /\ media'[m] = "processing" /\ \A n \in Media \ {m} : media'[n] = media[n]
        /\ Current(m)
    BY <1>0, <1>7 DEF ReleaseClaim, HoldsClaim, TypeOK
  <2>2. ItemKept(m)'
    BY <1>0, <1>7, <1>s, <2>1 DEF ReleaseClaim
  <2>3. QED
    BY <1>0, <1>7, <1>i, <2>1, <2>2, AloneCarries DEF ReleaseClaim
<1>8. CASE FinalizeSuccess(w)
  <2>1. /\ media'[m] = "moderation_pending" /\ \A n \in Media \ {m} : media'[n] = media[n]
    BY <1>0, <1>8, OutcomeSettles DEF FinalizeSuccess, Terminal
  <2>2. objects[m] = Kinds /\ UNCHANGED <<objects, queue>>
    BY <1>0, <1>8, <1>k DEF FinalizeSuccess, WorkerAlone
  <2>3. WorkerAlone(w)'
    BY <1>0, <1>8, <1>g, <2>1 DEF FinalizeSuccess, WorkerAlone, Accepted, Settled, Terminal, Claimed
  <2>4. ItemKept(m)'
    BY <1>0, <2>1, <2>2 DEF ItemKept, Accepted, Current
  <2>5. QED
    BY <1>0, <2>1, <2>2, <2>3, <2>4, AloneCarries
<1>9. CASE FinalizeStale(w)
  <2>1. media[m] = "removed"
    BY <1>0, <1>9, <1>k, OnlyRemovalEndsClaim DEF FinalizeStale, Claimed
  <2>2. WorkerAlone(w)'
    BY <1>0, <1>9, <1>g, <2>1 DEF FinalizeStale, WorkerAlone, rowVars, Accepted, Claimed
  <2>3. ItemKept(m)'
    BY <1>0, <1>9, <1>k, ItemUntouched DEF FinalizeStale, rowVars
  <2>4. QED
    BY <1>0, <1>9, <2>2, <2>3, AloneCarries DEF FinalizeStale, rowVars
<1>10. CASE Discard(w)
  <2>1. media[m] = "removed" /\ UNCHANGED <<rowVars, queue>>
    BY <1>0, <1>10, <1>k DEF Discard, WorkerAlone
  <2>2. WorkerAlone(w)'
    BY <1>0, <1>10, <1>g, <2>1 DEF Discard, WorkerAlone, rowVars, Accepted, Settled, Claimed
  <2>3. ItemKept(m)'
    BY <1>0, <2>1 DEF ItemKept, rowVars, Accepted, Current
  <2>4. \A n \in Media \ {m} : objects'[n] = objects[n]
    BY <1>0, <1>10 DEF Discard, TypeOK
  <2>5. QED
    BY <1>0, <2>1, <2>2, <2>3, <2>4, AloneCarries DEF rowVars
<1>11. CASE Acknowledge(w)
  <2>p. PICK c \in Copies : c = worker[w].c
    BY <1>0
  <2> DEFINE s == IF queue[<<m, c>>].state = "queued" THEN "deleted"
                                                       ELSE queue[<<m, c>>].state
  <2>1. queue' = [queue EXCEPT ![<<m, c>>].state = s]
    BY <1>0, <1>11, <2>p DEF Acknowledge
  <2>2. UNCHANGED <<rowVars, objects>> /\ Settled(m)
    BY <1>0, <1>11, <1>k DEF Acknowledge, WorkerAlone
  <2>3. m \in Media /\ c \in Copies
    BY <1>0
  <2> HIDE DEF s
  <2>4. \A n \in Media : \A d \in Copies :
          n # m \/ d # c => queue'[<<n, d>>] = queue[<<n, d>>]
    BY <1>0, <2>1, <2>3, MessageMoves
  <2>5. ItemKept(m)'
    <3>1. ~Current(m) /\ Accepted(m)
      BY <1>0, <2>2 DEF Settled, Current, Accepted, Terminal
    <3>2. QED
      BY <1>0, <1>k, <2>2, <3>1 DEF ItemKept, rowVars, Current, Accepted
  <2>6. QED
    BY <1>0, <1>11, <1>i, <2>2, <2>4, <2>5, AloneCarries DEF Acknowledge, rowVars
<1>12. QED
  BY <1>1, <1>2, <1>3, <1>4, <1>5, <1>6, <1>7, <1>8, <1>9, <1>10, <1>11 DEF WorkerStep

LEMMA CrashKeepsAlone ==
  ASSUME TypeOK, AloneInv, NEW w \in Workers, Crash(w)
  PROVE  AloneInv'
<1>1. \A n \in Media : ItemKept(n)'
  BY ItemUntouched DEF Crash, rowVars, AloneInv
<1>2. ASSUME NEW v \in Workers PROVE WorkerAlone(v)'
  <2>1. CASE v = w
    BY <2>1 DEF Crash, GoIdle, Idle, WorkerAlone, TypeOK, Claimed
  <2>2. CASE v # w
    BY <2>2, WorkersUndisturbed DEF Crash, GoIdle, rowVars, AloneInv, TypeOK
  <2>3. QED
    BY <2>1, <2>2
<1>3. QED
  BY <1>1, <1>2 DEF AloneInv

LEMMA AloneStep ==
  ASSUME OneWorker, TypeOK, Outcomes, AloneInv, [Next]_vars
  PROVE  AloneInv'
<1>1. CASE UNCHANGED vars
  <2>1. \A n \in Media : ItemKept(n)'
    BY <1>1, ItemUntouched DEF vars, AloneInv
  <2>2. \A w \in Workers : WorkerAlone(w)'
    BY <1>1, WorkersUndisturbed DEF vars, AloneInv
  <2>3. QED
    BY <2>1, <2>2 DEF AloneInv
<1>2. CASE Next
  BY <1>2, ServiceKeepsAlone, QueueKeepsAlone, WorkerKeepsAlone, CrashKeepsAlone DEF Next
<1>3. QED
  BY <1>1, <1>2

LEMMA AloneSafe ==
  ASSUME OneWorker PROVE Spec => [](TypeOK /\ Outcomes /\ AloneInv)
<1>1. Init => Outcomes
  BY DEF Init, Outcomes, OneOutcome, MediaMatchesEvidence, NoEvidence, Terminal
<1>2. Init => AloneInv
  BY DEF Init, AloneInv, ItemKept, WorkerAlone, Idle, Claimed, Current
<1>3. TypeOK /\ Outcomes /\ AloneInv /\ [Next]_vars => AloneInv'
  BY AloneStep
<1>4. QED
  BY <1>1, <1>2, <1>3, TypeCorrect, OutcomesStep, PTL DEF Spec

\* With one worker process, however often it crashes and is handed the message
\* again, a sanitized item has the objects its rows name (MediaProcessor.process).
THEOREM DerivativesAreStored ==
  ASSUME OneWorker PROVE Spec => []DerivativesStored
<1>1. TypeOK /\ Outcomes /\ AloneInv => DerivativesStored
  BY DEF Outcomes, OneOutcome, MediaMatchesEvidence, AloneInv, ItemKept,
     DerivativesStored, Terminal
<1>2. QED
  BY <1>1, AloneSafe, PTL

\* With one worker process no acknowledgement drops the request of an upload
\* that is still to be sanitized (_process_message, _retry_or_fail).
THEOREM RequestsAreKept ==
  ASSUME OneWorker PROVE Spec => []RequestKept
<1>1. AloneInv => RequestKept
  BY DEF AloneInv, ItemKept, RequestKept, RequestOpen
<1>2. QED
  BY <1>1, AloneSafe, PTL

=============================================================================
