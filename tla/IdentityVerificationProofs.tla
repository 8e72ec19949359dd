--------------------- MODULE IdentityVerificationProofs ---------------------
(***************************************************************************)
(* The projection is the newest attempt, moves as IdentityProjection says, *)
(* and a result that was applied is recognized for good.                   *)
(***************************************************************************)
EXTENDS IdentityVerification, TLAPS

Row == [status : AttemptStatuses, reference : References \cup {Nothing},
        event : IdentityEvents \cup {Nothing}, superseded : BOOLEAN]
Start == [at : {"idle", "claimed", "created", "refused"}, attempt : 0 .. Len(attempts),
          reference : References \cup {Nothing}]
Announcement == [attempt : 0 .. MaxAttempts, status : AttemptStatuses \cup {"none"}, version : Nat]

\* Before the first attempt there is nothing to project.
NothingYet == attempts = <<>> => projection = NoProjection /\ announced = NoAnnouncement

\* What a result said of an attempt stays what the attempt says.
VerdictsStand ==
    \A v \in verdicts :
        /\ v.attempt \in DOMAIN attempts
        /\ attempts[v.attempt].event = v.event
        /\ attempts[v.attempt].status = v.status

IdentityInv == IdentityTypeOK /\ NothingYet /\ ProjectionIsNewestAttempt /\ VerdictsStand

-----------------------------------------------------------------------------
LEMMA Typed ==
  ASSUME IdentityInv
  PROVE  /\ attempts \in Seq(Row) /\ Len(attempts) \in Nat /\ DOMAIN attempts = 1 .. Len(attempts)
         /\ \A n \in DOMAIN attempts : attempts[n] \in Row
         /\ projection.version \in Nat
<1>1. attempts \in Seq(Row)
  BY DEF IdentityInv, IdentityTypeOK, Row
<1>2. projection.version \in Nat
  BY DEF IdentityInv, IdentityTypeOK
<1> HIDE DEF Row
<1>3. QED
  BY <1>1, <1>2

LEMMA IdentityStarts == IdentityInit => IdentityInv
<1> SUFFICES ASSUME IdentityInit PROVE IdentityInv
  OBVIOUS
<1>1. IdentityTypeOK
  BY IdentityAssumption DEF IdentityInit, ProjectionInit, ServiceInit, IdentityTypeOK, NoProjection,
     NoAnnouncement, Idle, AttemptStatuses, TerminalStatuses
<1>2. QED
  BY <1>1 DEF IdentityInit, ProjectionInit, ServiceInit, IdentityInv, NothingYet,
     ProjectionIsNewestAttempt, VerdictsStand

\* A request moves on, the attempts stay.
LEMMA QuietKeeps ==
  ASSUME IdentityInv, UNCHANGED <<projection, attempts, verdicts, announced>>,
         accountActive' \in BOOLEAN,
         startKeys' \in [IdentityKeys -> 0 .. Len(attempts)],
         starts' \in [Starters -> Start],
         \A c \in Starters : starts'[c].at # "idle" => starts'[c].attempt # 0,
         sessions' \subseteq (DOMAIN attempts) \X References
  PROVE  IdentityInv'
<1>1. IdentityTypeOK'
  BY DEF IdentityInv, IdentityTypeOK, Start
<1>2. NothingYet' /\ VerdictsStand'
  BY DEF IdentityInv, NothingYet, VerdictsStand
<1>3. ProjectionIsNewestAttempt'
  BY DEF IdentityInv, ProjectionIsNewestAttempt, Active
<1>4. QED
  BY <1>1, <1>2, <1>3 DEF IdentityInv

LEMMA ReturnTyped ==
  ASSUME IdentityInv, NEW c \in Starters, Return(c)
  PROVE  /\ starts' \in [Starters -> Start]
         /\ \A d \in Starters : starts'[d].at # "idle" => starts'[d].attempt # 0
<1>1. starts \in [Starters -> Start] /\ \A d \in Starters : starts[d].at # "idle" => starts[d].attempt # 0
  BY DEF IdentityInv, IdentityTypeOK, Start
<1>2. Idle \in Start /\ Idle.at = "idle"
  BY Typed DEF Idle, Start
<1>3. QED
  BY <1>1, <1>2 DEF Return

\* A claim fills in the stage and the attempt of an idle request.
LEMMA ClaimTyped ==
  ASSUME NEW m \in Nat, NEW n \in 1 .. m,
         NEW i \in [at : {"idle", "claimed", "created", "refused"}, attempt : 0 .. m,
                    reference : References \cup {Nothing}]
  PROVE  /\ [i EXCEPT !.at = "claimed", !.attempt = n]
               \in [at : {"idle", "claimed", "created", "refused"}, attempt : 0 .. m,
                    reference : References \cup {Nothing}]
         /\ [i EXCEPT !.at = "claimed", !.attempt = n].attempt # 0
<1>1. n \in 0 .. m /\ n # 0
  OBVIOUS
<1>2. QED
  BY <1>1

LEMMA ClaimedTyped ==
  ASSUME IdentityInv, NEW c \in Starters, NEW n \in 1 .. Len(attempts), Claimed(c, n)
  PROVE  /\ starts' \in [Starters -> Start]
         /\ \A d \in Starters : starts'[d].at # "idle" => starts'[d].attempt # 0
<1> DEFINE w == [Idle EXCEPT !.at = "claimed", !.attempt = n]
<1>1. starts \in [Starters -> Start] /\ \A d \in Starters : starts[d].at # "idle" => starts[d].attempt # 0
  BY DEF IdentityInv, IdentityTypeOK, Start
<1>2. w \in Start /\ w.attempt # 0
  <2>1. Idle \in Start
    BY Typed DEF Idle, Start
  <2>2. Len(attempts) \in Nat
    BY Typed
  <2>3. QED
    BY <2>1, <2>2, ClaimTyped DEF Start
<1>3. starts' = [starts EXCEPT ![c] = w]
  BY DEF Claimed
<1> HIDE DEF w
<1>4. QED
  BY <1>1, <1>2, <1>3

\* An attempt under way is the newest.
LEMMA ActiveIsNewest ==
  ASSUME IdentityInv, Active # {}
  PROVE  ActiveAttempt = Len(attempts) /\ ActiveAttempt \in 1 .. Len(attempts)
<1>1. attempts # <<>> /\ Active = {Len(attempts)} /\ Len(attempts) \in DOMAIN attempts
  BY Typed DEF IdentityInv, ProjectionIsNewestAttempt, Active
<1>2. QED
  BY <1>1, Typed DEF ActiveAttempt

\* The newest attempt makes a transition, alone or with a result.
LEMMA TransitionKeeps ==
  ASSUME IdentityInv, NEW n \in DOMAIN attempts, n = projection.attempt,
         NEW status \in Transitions(attempts[n].status),
         NEW r \in References \cup {Nothing}, NEW e \in IdentityEvents \cup {Nothing},
         SetStatus(n, status, r, e), UNCHANGED <<accountActive, startKeys, sessions>>,
         starts' \in [Starters -> Start],
         \A c \in Starters : starts'[c].at # "idle" => starts'[c].attempt # 0,
         verdicts' \subseteq Results,
         \A v \in verdicts' \ verdicts : v.attempt = n /\ v.event = e /\ v.status = status
  PROVE  IdentityInv' /\ ProjectionNext
<1>1. /\ status \in AttemptStatuses /\ attempts[n].status \in {"session_pending", "pending"}
      /\ n = Len(attempts) /\ attempts # <<>> /\ attempts[n] \in Row
  BY Typed DEF Transitions, AttemptStatuses, ActiveStatuses, ResultStatuses, TerminalStatuses, IdentityInv,
     ProjectionIsNewestAttempt
<1> DEFINE row == [attempts[n] EXCEPT !.status = status, !.reference = r, !.event = e]
<1>2. /\ row \in Row /\ row.status = status /\ row.event = e /\ row.superseded = attempts[n].superseded
  BY <1>1 DEF Row
<1>3. attempts' = [attempts EXCEPT ![n] = row]
  BY <1>1, Typed DEF SetStatus
<1> HIDE DEF row
<1>4. /\ attempts' \in Seq(Row) /\ Len(attempts') = Len(attempts) /\ DOMAIN attempts' = DOMAIN attempts
      /\ attempts'[n] = row /\ \A m \in DOMAIN attempts : m # n => attempts'[m] = attempts[m]
  BY <1>2, <1>3, Typed
<1>5. /\ projection' = [attempt |-> n, status |-> status, version |-> projection.version + 1]
      /\ announced' = projection'
  BY DEF SetStatus, Project
<1>6. IdentityTypeOK'
  <2>1. projection' \in [attempt : Nat, status : AttemptStatuses, version : Nat]
    BY <1>1, <1>5, Typed
  <2>2. announced' \in Announcement
    BY <1>1, <1>5, Typed, IdentityAssumption DEF Announcement, IdentityInv, IdentityTypeOK
  <2>3. QED
    BY <1>4, <2>1, <2>2 DEF IdentityInv, IdentityTypeOK, Row, Start, Announcement
<1>7. NothingYet'
  BY <1>1, <1>4 DEF NothingYet
<1>8. ProjectionIsNewestAttempt'
  <2>1. \A m \in DOMAIN attempts' : attempts'[m].superseded <=> m < Len(attempts')
    BY <1>1, <1>2, <1>4 DEF IdentityInv, ProjectionIsNewestAttempt
  <2>2. Active' \subseteq {Len(attempts')}
    BY <1>1, <1>4 DEF IdentityInv, ProjectionIsNewestAttempt, Active
  <2>3. QED
    BY <1>1, <1>2, <1>4, <1>5, <2>1, <2>2 DEF ProjectionIsNewestAttempt
<1>9. VerdictsStand'
  <2>1. ASSUME NEW v \in verdicts, v \in verdicts'
        PROVE  v.attempt \in DOMAIN attempts /\ v.attempt # n
    <3>1. v.status \in ResultStatuses /\ v.attempt \in DOMAIN attempts
          /\ attempts[v.attempt].status = v.status
      BY DEF IdentityInv, IdentityTypeOK, Results, VerdictsStand
    <3>2. QED
      BY <1>1, <3>1 DEF ResultStatuses
  <2>2. QED
    BY <1>2, <1>4, <2>1 DEF IdentityInv, VerdictsStand
<1>10. ProjectionNext
  <2>1. projection.status = attempts[n].status /\ projection.attempt # 0
    BY <1>1, Typed DEF IdentityInv, ProjectionIsNewestAttempt
  <2>2. QED
    BY <2>1 DEF ProjectionNext, Progress, SetStatus
<1>11. QED
  BY <1>6, <1>7, <1>8, <1>9, <1>10 DEF IdentityInv

-----------------------------------------------------------------------------
LEMMA StartKeeps ==
  ASSUME IdentityInv, NEW c \in Starters, NEW k \in IdentityKeys, ReplayStart(c, k) \/ JoinAttempt(c, k)
  PROVE  IdentityInv'
<1>1. startKeys \in [IdentityKeys -> 0 .. Len(attempts)] /\ sessions \subseteq (DOMAIN attempts) \X References
      /\ accountActive \in BOOLEAN
  BY DEF IdentityInv, IdentityTypeOK
<1>2. CASE ReplayStart(c, k)
  <2>1. startKeys[k] \in 1 .. Len(attempts)
    BY <1>1, <1>2, Typed DEF ReplayStart
  <2>2. Claimed(c, startKeys[k])
        /\ UNCHANGED <<projection, attempts, accountActive, startKeys, sessions, verdicts, announced>>
    BY <1>2 DEF ReplayStart
  <2>3. /\ starts' \in [Starters -> Start]
        /\ \A d \in Starters : starts'[d].at # "idle" => starts'[d].attempt # 0
    BY <2>1, <2>2, ClaimedTyped
  <2>4. QED
    BY <1>1, <2>2, <2>3, QuietKeeps
<1>3. CASE JoinAttempt(c, k)
  <2>1. /\ ActiveAttempt \in 1 .. Len(attempts) /\ Claimed(c, ActiveAttempt)
        /\ startKeys' = [startKeys EXCEPT ![k] = ActiveAttempt]
        /\ UNCHANGED <<projection, attempts, accountActive, sessions, verdicts, announced>>
    BY <1>3, ActiveIsNewest DEF JoinAttempt
  <2>2. startKeys' \in [IdentityKeys -> 0 .. Len(attempts)]
    BY <1>1, <2>1, Typed
  <2>3. /\ starts' \in [Starters -> Start]
        /\ \A d \in Starters : starts'[d].at # "idle" => starts'[d].attempt # 0
    BY <2>1, ClaimedTyped
  <2>4. QED
    BY <1>1, <2>1, <2>2, <2>3, QuietKeeps
<1>4. QED
  BY <1>2, <1>3

LEMMA ReturnKeeps ==
  ASSUME IdentityInv, NEW c \in Starters, Return(c),
         UNCHANGED <<projection, attempts, accountActive, startKeys, sessions, verdicts, announced>>
  PROVE  IdentityInv'
<1>1. startKeys \in [IdentityKeys -> 0 .. Len(attempts)] /\ sessions \subseteq (DOMAIN attempts) \X References
      /\ accountActive \in BOOLEAN
  BY DEF IdentityInv, IdentityTypeOK
<1>2. QED
  BY <1>1, ReturnTyped, QuietKeeps

LEMMA CallKeeps ==
  ASSUME IdentityInv, NEW c \in Starters, CallProvider(c)
  PROVE  IdentityInv'
<1>1. /\ startKeys \in [IdentityKeys -> 0 .. Len(attempts)] /\ sessions \subseteq (DOMAIN attempts) \X References
      /\ accountActive \in BOOLEAN /\ starts \in [Starters -> Start]
      /\ \A d \in Starters : starts[d].at # "idle" => starts[d].attempt # 0
  BY DEF IdentityInv, IdentityTypeOK, Start
<1>2. /\ starts[c].at = "claimed" /\ starts[c].attempt \in DOMAIN attempts
      /\ UNCHANGED <<projection, attempts, accountActive, startKeys, verdicts, announced>>
  BY <1>1, Typed DEF CallProvider, Start
<1>3. CASE Return(c) /\ UNCHANGED sessions
  BY <1>2, <1>3, ReturnKeeps
<1>4. ASSUME NEW r \in References, sessions' = sessions \cup {<<starts[c].attempt, r>>},
             starts' = [starts EXCEPT ![c].at = "created", ![c].reference = r]
      PROVE  IdentityInv'
  <2> DEFINE w == [starts[c] EXCEPT !.at = "created", !.reference = r]
  <2>1. w \in Start /\ w.attempt = starts[c].attempt
    BY <1>1 DEF Start
  <2>2. starts' = [starts EXCEPT ![c] = w]
    BY <1>1, <1>4
  <2> HIDE DEF w
  <2>3. /\ starts' \in [Starters -> Start]
        /\ \A d \in Starters : starts'[d].at # "idle" => starts'[d].attempt # 0
    BY <1>1, <1>2, <2>1, <2>2
  <2>4. sessions' \subseteq (DOMAIN attempts) \X References
    BY <1>1, <1>2, <1>4
  <2>5. QED
    BY <1>1, <1>2, <2>3, <2>4, QuietKeeps
<1>5. CASE starts' = [starts EXCEPT ![c].at = "refused"] /\ UNCHANGED sessions
  <2> DEFINE w == [starts[c] EXCEPT !.at = "refused"]
  <2>1. w \in Start /\ w.attempt = starts[c].attempt
    BY <1>1 DEF Start
  <2>2. starts' = [starts EXCEPT ![c] = w]
    BY <1>1, <1>5
  <2> HIDE DEF w
  <2>3. /\ starts' \in [Starters -> Start]
        /\ \A d \in Starters : starts'[d].at # "idle" => starts'[d].attempt # 0
    BY <1>1, <1>2, <2>1, <2>2
  <2>4. QED
    BY <1>1, <1>2, <1>5, <2>3, QuietKeeps
<1>6. QED
  BY <1>3, <1>4, <1>5 DEF CallProvider

LEMMA IdentityFinalizeKeeps ==
  ASSUME IdentityInv, NEW c \in Starters, FinalizeSession(c)
  PROVE  IdentityInv' /\ (ProjectionNext \/ UNCHANGED projection)
<1> DEFINE n == starts[c].attempt
           r == starts[c].reference
           accepted == projection.attempt = n /\ attempts[n].reference \in {Nothing, r}
<1>1. /\ n \in DOMAIN attempts /\ r \in References \cup {Nothing} /\ Return(c)
      /\ UNCHANGED <<accountActive, startKeys, sessions, verdicts>>
      /\ attempts[n].event \in IdentityEvents \cup {Nothing} /\ verdicts \subseteq Results
  <2>1. starts[c] \in Start /\ n # 0
    BY DEF FinalizeSession, IdentityInv, IdentityTypeOK, Start
  <2>2. n \in DOMAIN attempts /\ r \in References \cup {Nothing}
    BY <2>1, Typed DEF Start
  <2>3. attempts[n].event \in IdentityEvents \cup {Nothing}
    BY <2>2, Typed DEF Row
  <2>4. QED
    BY <2>2, <2>3 DEF FinalizeSession, IdentityInv, IdentityTypeOK
<1>2. CASE accepted /\ attempts[n].status = "session_pending"
  <2>1. SetStatus(n, "pending", r, attempts[n].event)
    BY <1>2 DEF FinalizeSession
  <2>2. "pending" \in Transitions(attempts[n].status)
    BY <1>2 DEF Transitions
  <2> HIDE DEF n, r
  <2>3. QED
    BY <1>1, <1>2, <2>1, <2>2, ReturnTyped, TransitionKeeps
<1>3. CASE accepted /\ attempts[n].status = "pending"
  <2>1. attempts' = [attempts EXCEPT ![n].reference = r] /\ UNCHANGED <<projection, announced>>
    BY <1>3 DEF FinalizeSession
  <2> DEFINE row == [attempts[n] EXCEPT !.reference = r]
  <2>2. /\ row \in Row /\ row.status = attempts[n].status /\ row.event = attempts[n].event
        /\ row.superseded = attempts[n].superseded
    BY <1>1, Typed DEF Row
  <2>3. attempts' = [attempts EXCEPT ![n] = row]
    BY <1>1, <2>1, Typed
  <2> HIDE DEF row
  <2>4. /\ attempts' \in Seq(Row) /\ Len(attempts') = Len(attempts) /\ DOMAIN attempts' = DOMAIN attempts
        /\ attempts'[n] = row /\ \A m \in DOMAIN attempts : m # n => attempts'[m] = attempts[m]
    BY <1>1, <2>2, <2>3, Typed
  <2> HIDE DEF n, r
  <2>5. /\ starts' \in [Starters -> Start]
        /\ \A d \in Starters : starts'[d].at # "idle" => starts'[d].attempt # 0
    BY <1>1, ReturnTyped
  <2>6. IdentityTypeOK'
    BY <1>1, <2>1, <2>4, <2>5 DEF IdentityInv, IdentityTypeOK, Row, Start
  <2>7. NothingYet' /\ VerdictsStand'
    BY <1>1, <2>1, <2>2, <2>4, Typed DEF IdentityInv, NothingYet, VerdictsStand
  <2>8. ProjectionIsNewestAttempt'
    <3>1. \A m \in DOMAIN attempts : /\ attempts'[m].status = attempts[m].status
                                    /\ attempts'[m].superseded = attempts[m].superseded
      BY <2>2, <2>4
    <3>2. attempts' # <<>> => attempts # <<>>
      BY <2>4, Typed
    <3>3. attempts # <<>> => Len(attempts) \in DOMAIN attempts
      BY Typed
    <3>4. Active' = Active
      BY <2>4, <3>1 DEF Active
    <3>5. QED
      BY <2>1, <2>4, <3>1, <3>2, <3>3, <3>4 DEF IdentityInv, ProjectionIsNewestAttempt
  <2>9. QED
    BY <2>1, <2>6, <2>7, <2>8 DEF IdentityInv
<1>4. CASE ~(accepted /\ attempts[n].status \in {"session_pending", "pending"})
  <2>1. UNCHANGED <<projection, attempts, announced>>
    BY <1>4 DEF FinalizeSession
  <2>2. QED
    BY <1>1, <2>1, ReturnKeeps
<1>5. QED
  BY <1>2, <1>3, <1>4

LEMMA FailureKeeps ==
  ASSUME IdentityInv, NEW c \in Starters, FinalizeFailure(c)
  PROVE  IdentityInv' /\ (ProjectionNext \/ UNCHANGED projection)
<1> DEFINE n == starts[c].attempt
<1>1. /\ n \in DOMAIN attempts /\ Return(c) /\ UNCHANGED <<accountActive, startKeys, sessions, verdicts>>
      /\ attempts[n] \in Row /\ verdicts \subseteq Results
  <2>1. starts[c] \in Start /\ n # 0
    BY DEF FinalizeFailure, IdentityInv, IdentityTypeOK, Start
  <2>2. n \in DOMAIN attempts
    BY <2>1, Typed DEF Start
  <2>3. QED
    BY <2>2, Typed DEF FinalizeFailure, IdentityInv, IdentityTypeOK
<1>2. CASE attempts[n].status = "session_pending" /\ projection.attempt = n
  <2>1. SetStatus(n, "failed", attempts[n].reference, attempts[n].event)
    BY <1>2 DEF FinalizeFailure
  <2>2. "failed" \in Transitions(attempts[n].status) /\ attempts[n].reference \in References \cup {Nothing}
        /\ attempts[n].event \in IdentityEvents \cup {Nothing}
    BY <1>1, <1>2 DEF Transitions, Row
  <2> HIDE DEF n
  <2>3. QED
    BY <1>1, <1>2, <2>1, <2>2, ReturnTyped, TransitionKeeps
<1>3. CASE ~(attempts[n].status = "session_pending" /\ projection.attempt = n)
  BY <1>1, <1>3, ReturnKeeps DEF FinalizeFailure
<1>4. QED
  BY <1>2, <1>3

LEMMA IdentityResultKeeps ==
  ASSUME IdentityInv, NEW v \in Results, ApplyResult(v)
  PROVE  IdentityInv' /\ ProjectionNext
<1>1. /\ Disposition(v) = "applied" /\ SetStatus(v.attempt, v.status, v.reference, v.event)
      /\ verdicts' = verdicts \cup {v} /\ UNCHANGED <<accountActive, startKeys, starts, sessions>>
      /\ <<v.attempt, v.reference>> \in sessions
  BY DEF ApplyResult
<1>2. v.attempt = projection.attempt /\ v.status \in Transitions(attempts[v.attempt].status)
  BY <1>1 DEF Disposition
<1>3. /\ v.attempt \in DOMAIN attempts /\ v.reference \in References /\ v.event \in IdentityEvents
      /\ verdicts' \subseteq Results
  BY <1>1 DEF IdentityInv, IdentityTypeOK, Results
<1>4. /\ starts' \in [Starters -> Start]
      /\ \A c \in Starters : starts'[c].at # "idle" => starts'[c].attempt # 0
  BY <1>1 DEF IdentityInv, IdentityTypeOK, Start
<1>5. QED
  BY <1>1, <1>2, <1>3, <1>4, TransitionKeeps

\* A new attempt is appended, and supersedes the one before it.
LEMMA NewKeeps ==
  ASSUME IdentityInv, NEW c \in Starters, NEW k \in IdentityKeys, NewAttempt(c, k)
  PROVE  IdentityInv' /\ ProjectionNext
<1> DEFINE fresh == [status |-> "session_pending", reference |-> Nothing, event |-> Nothing,
                     superseded |-> FALSE]
           older == [n \in DOMAIN attempts |-> IF n = Len(attempts)
                        THEN [attempts[n] EXCEPT !.superseded = TRUE] ELSE attempts[n]]
           size == Len(attempts) + 1
<1>1. /\ attempts' = Append(older, fresh) /\ Active = {} /\ Len(attempts) < MaxAttempts
      /\ Project(size, "session_pending") /\ Claimed(c, size)
      /\ startKeys' = [startKeys EXCEPT ![k] = size]
      /\ UNCHANGED <<accountActive, sessions, verdicts, announced>>
  BY DEF NewAttempt
<1>2. fresh \in Row /\ fresh.status = "session_pending" /\ fresh.superseded = FALSE
  BY DEF Row, AttemptStatuses, ActiveStatuses
<1>3. /\ older \in Seq(Row) /\ Len(older) = Len(attempts) /\ DOMAIN older = DOMAIN attempts
      /\ \A n \in DOMAIN attempts : /\ older[n].status = attempts[n].status
                                   /\ older[n].event = attempts[n].event
                                   /\ older[n].superseded <=> attempts[n].superseded \/ n = Len(attempts)
  <2>1. \A n \in DOMAIN attempts : [attempts[n] EXCEPT !.superseded = TRUE] \in Row
    BY Typed DEF Row
  <2>2. DOMAIN older = 1 .. Len(attempts) /\ \A n \in 1 .. Len(attempts) : older[n] \in Row
    BY <2>1, Typed
  <2>3. older \in [1 .. Len(attempts) -> Row]
    BY <2>1, Typed
  <2>4. older \in Seq(Row) /\ Len(older) = Len(attempts)
    BY <2>3, Typed
  <2>5. \A n \in DOMAIN attempts : /\ older[n].status = attempts[n].status
                                  /\ older[n].event = attempts[n].event
                                  /\ older[n].superseded <=> attempts[n].superseded \/ n = Len(attempts)
    BY Typed DEF Row
  <2>6. QED
    BY <2>2, <2>4, <2>5, Typed
<1>3a. ASSUME NEW n \in DOMAIN attempts
       PROVE  older[n].status = attempts[n].status /\ older[n].event = attempts[n].event
  BY Typed DEF Row
<1> HIDE DEF fresh, older
<1>4. /\ attempts' \in Seq(Row) /\ Len(attempts') = size /\ DOMAIN attempts' = 1 .. size
      /\ attempts'[size] = fresh /\ \A n \in DOMAIN attempts : attempts'[n] = older[n]
      /\ size \in Nat \ {0} /\ size <= MaxAttempts /\ DOMAIN attempts \subseteq 1 .. size
  BY <1>1, <1>2, <1>3, Typed, IdentityAssumption
<1>5. /\ projection' = [attempt |-> size, status |-> "session_pending", version |-> projection.version + 1]
      /\ projection'.attempt = size /\ projection'.status = "session_pending"
  BY <1>1 DEF Project
<1>6. /\ starts' \in [Starters -> [at : {"idle", "claimed", "created", "refused"}, attempt : 0 .. size,
                                   reference : References \cup {Nothing}]]
      /\ \A d \in Starters : starts'[d].at # "idle" => starts'[d].attempt # 0
  <2> DEFINE S == [at : {"idle", "claimed", "created", "refused"}, attempt : 0 .. size,
                   reference : References \cup {Nothing}]
             w == [Idle EXCEPT !.at = "claimed", !.attempt = size]
  <2>1. starts \in [Starters -> S] /\ \A d \in Starters : starts[d].at # "idle" => starts[d].attempt # 0
    BY <1>4, Typed DEF IdentityInv, IdentityTypeOK
  <2>2. Idle \in S
    BY <1>4 DEF Idle
  <2>3. w \in S /\ w.attempt # 0
    <3>1. size \in Nat /\ size \in 1 .. size
      BY <1>4
    <3> HIDE DEF size
    <3>2. QED
      BY <3>1, <2>2, ClaimTyped
  <2>4. starts' = [starts EXCEPT ![c] = w]
    BY <1>1 DEF Claimed
  <2> HIDE DEF w, S
  <2>5. starts' \in [Starters -> S]
        /\ \A d \in Starters : starts'[d].at # "idle" => starts'[d].attempt # 0
    BY <2>1, <2>3, <2>4
  <2>6. QED
    BY <2>5 DEF S
<1>7. IdentityTypeOK'
  <2>1. startKeys' \in [IdentityKeys -> 0 .. size]
    BY <1>1, <1>4, Typed DEF IdentityInv, IdentityTypeOK
  <2>2. projection' \in [attempt : Nat, status : AttemptStatuses, version : Nat]
    BY <1>4, <1>5, Typed DEF AttemptStatuses, ActiveStatuses
  <2>3. sessions' \subseteq (DOMAIN attempts') \X References
    BY <1>1, <1>4 DEF IdentityInv, IdentityTypeOK
  <2> HIDE DEF size
  <2>4. QED
    BY <1>1, <1>4, <1>6, <2>1, <2>2, <2>3 DEF IdentityInv, IdentityTypeOK, Row
<1>8. NothingYet'
  BY <1>4, Typed DEF NothingYet
<1>9. VerdictsStand'
  <2>1. ASSUME NEW v \in verdicts
        PROVE  /\ v.attempt \in DOMAIN attempts'
               /\ attempts'[v.attempt].event = v.event
               /\ attempts'[v.attempt].status = v.status
    <3>1. /\ v.attempt \in DOMAIN attempts /\ attempts[v.attempt].event = v.event
          /\ attempts[v.attempt].status = v.status
      BY DEF IdentityInv, VerdictsStand
    <3>2. attempts'[v.attempt] = older[v.attempt] /\ v.attempt \in DOMAIN attempts'
      BY <3>1, <1>4
    <3>3. older[v.attempt].event = v.event /\ older[v.attempt].status = v.status
      BY <3>1, <1>3a
    <3>4. QED
      BY <3>2, <3>3
  <2>2. verdicts' = verdicts
    BY <1>1
  <2>3. QED
    BY <2>1, <2>2 DEF VerdictsStand
<1>10. ProjectionIsNewestAttempt'
  <2>1. \A n \in DOMAIN attempts' : attempts'[n].superseded <=> n < Len(attempts')
    <3>1. ASSUME NEW n \in DOMAIN attempts
          PROVE  attempts'[n].superseded = TRUE /\ n < size
      <4>1. attempts # <<>> /\ n <= Len(attempts)
        BY Typed
      <4>2. attempts[n].superseded \/ n = Len(attempts)
        BY <4>1, Typed DEF IdentityInv, ProjectionIsNewestAttempt
      <4>3. attempts'[n] \in Row
        BY <1>4
      <4>4. QED
        BY <1>3, <1>4, <4>1, <4>2, <4>3, Typed DEF Row
    <3>2. \A n \in 1 .. size : n = size \/ n \in DOMAIN attempts
      BY Typed
    <3> HIDE DEF size
    <3>3. ASSUME NEW n \in 1 .. size
          PROVE  attempts'[n].superseded <=> n < size
      <4>1. CASE n = size
        <5>1. attempts'[n].superseded = FALSE
          BY <4>1, <1>2, <1>4
        <5>2. QED
          BY <4>1, <5>1, <1>4
      <4>2. CASE n \in DOMAIN attempts
        BY <4>2, <3>1
      <4>3. QED
        BY <3>2, <4>1, <4>2
    <3>4. QED
      BY <1>4, <3>3
  <2>2. Active' \subseteq {Len(attempts')}
    <3>1. \A n \in DOMAIN attempts : attempts'[n].status \notin ActiveStatuses
      <4> SUFFICES ASSUME NEW n \in DOMAIN attempts
                   PROVE  attempts'[n].status \notin ActiveStatuses
        OBVIOUS
      <4>1. attempts[n].status \notin ActiveStatuses
        BY <1>1 DEF Active
      <4>2. attempts'[n] = older[n] /\ older[n].status = attempts[n].status
        BY <1>3a, <1>4
      <4>3. QED
        BY <4>1, <4>2
    <3>2. \A n \in 1 .. size : n = size \/ n \in DOMAIN attempts
      BY Typed
    <3>3. QED
      BY <1>4, <3>1, <3>2 DEF Active
  <2>3. announced'.version < projection'.version
    <3>1. announced.version <= projection.version /\ announced.version \in Nat
      BY Typed DEF IdentityInv, IdentityTypeOK, ProjectionIsNewestAttempt, NothingYet, NoProjection,
         NoAnnouncement
    <3>2. QED
      BY <1>1, <1>5, <3>1, Typed
  <2>4. QED
    BY <1>2, <1>4, <1>5, <2>1, <2>2, <2>3 DEF ProjectionIsNewestAttempt
<1>11. ProjectionNext
  <2>1. CASE attempts = <<>>
    <3>1. projection.attempt = 0 /\ projection.status = "failed" /\ size = 1
      BY <2>1 DEF IdentityInv, NothingYet, NoProjection
    <3>2. QED
      BY <1>1, <3>1 DEF ProjectionNext, OpenAttempt, ActiveStatuses
  <2>2. CASE attempts # <<>>
    <3>1. projection.attempt = Len(attempts) /\ projection.status = attempts[Len(attempts)].status
          /\ Len(attempts) \in DOMAIN attempts
      BY <2>2, Typed DEF IdentityInv, ProjectionIsNewestAttempt
    <3>2. projection.status \notin ActiveStatuses
      BY <1>1, <3>1 DEF Active
    <3>3. QED
      BY <1>1, <3>1, <3>2 DEF ProjectionNext, OpenAttempt
  <2>3. QED
    BY <2>1, <2>2
<1>12. QED
  BY <1>7, <1>8, <1>9, <1>10, <1>11 DEF IdentityInv

LEMMA OutsideKeeps ==
  ASSUME IdentityInv, AccountChanges
  PROVE  IdentityInv'
  BY QuietKeeps DEF AccountChanges, IdentityInv, IdentityTypeOK, Start

-----------------------------------------------------------------------------
LEMMA IdentityStep ==
  IdentityInv /\ [IdentityNext]_identityVars => IdentityInv' /\ [ProjectionNext]_projection
<1> SUFFICES ASSUME IdentityInv, [IdentityNext]_identityVars
             PROVE  IdentityInv' /\ (ProjectionNext \/ UNCHANGED projection)
  OBVIOUS
<1>1. CASE UNCHANGED identityVars
  BY <1>1 DEF identityVars, IdentityInv, IdentityTypeOK, NothingYet, ProjectionIsNewestAttempt, Active,
     VerdictsStand
<1>2. ASSUME NEW c \in Starters, AttemptClosed(c) \/ StartDies(c)
      PROVE  IdentityInv' /\ UNCHANGED projection
  BY <1>2, ReturnKeeps DEF AttemptClosed, StartDies
<1>3. ASSUME NEW c \in Starters, NEW k \in IdentityKeys, ReplayStart(c, k) \/ JoinAttempt(c, k)
      PROVE  IdentityInv' /\ UNCHANGED projection
  BY <1>3, StartKeeps DEF ReplayStart, JoinAttempt
<1>4. ASSUME NEW c \in Starters, CallProvider(c)
      PROVE  IdentityInv' /\ UNCHANGED projection
  BY <1>4, CallKeeps DEF CallProvider
<1>5. CASE AccountChanges
  BY <1>5, OutsideKeeps DEF AccountChanges
<1>6. QED
  BY <1>1, <1>2, <1>3, <1>4, <1>5, NewKeeps, IdentityFinalizeKeeps, FailureKeeps, IdentityResultKeeps DEF IdentityNext

LEMMA IdentitySafe == IdentitySpec => []IdentityInv
  BY IdentityStarts, IdentityStep, PTL DEF IdentitySpec

\* Attempts, requests in flight, sessions and verdicts keep their types.
THEOREM IdentityTypeCorrect == IdentitySpec => []IdentityTypeOK
<1>1. IdentityInv => IdentityTypeOK
  BY DEF IdentityInv
<1>2. QED
  BY <1>1, IdentitySafe, PTL

\* Whatever starts, refusals and late results interleave, the projection is the
\* newest attempt and no other is open (VerificationService.apply_result).
THEOREM ProjectionFollowsAttempts == IdentitySpec => []ProjectionIsNewestAttempt
<1>1. IdentityInv => ProjectionIsNewestAttempt
  BY DEF IdentityInv
<1>2. QED
  BY <1>1, IdentitySafe, PTL

\* The projection moves only as those who rely on it assume: opened when nothing
\* is under way, along the transitions, one version at a time.
THEOREM ProjectionIsImplemented == IdentitySpec => ProjectionImplemented
<1>1. IdentitySpec => [][ProjectionNext]_projection
  BY IdentitySafe, IdentityStep, PTL DEF IdentitySpec
<1>2. QED
  BY <1>1 DEF ProjectionImplemented

LEMMA VerdictsMatch == IdentityInv => RedeliveryIsDuplicate
<1>1. ASSUME IdentityInv, NEW v \in verdicts
      PROVE  Disposition(v) = "duplicate"
  <2>1. /\ v.attempt \in DOMAIN attempts /\ attempts[v.attempt].event = v.event
        /\ attempts[v.attempt].status = v.status
    BY <1>1 DEF IdentityInv, VerdictsStand
  <2>2. EventUsed(v.event) /\ Matches(v)
    BY <2>1 DEF EventUsed, Matches
  <2>3. QED
    BY <2>2, Zenon DEF Disposition
<1>2. QED
  BY <1>1 DEF RedeliveryIsDuplicate

\* A result that was applied is a duplicate whenever it is sent again, also after
\* its attempt was superseded.
THEOREM AppliedStaysDuplicate == IdentitySpec => []RedeliveryIsDuplicate
  BY VerdictsMatch, IdentitySafe, PTL
=============================================================================
