------------------------ MODULE IdentityVerification ------------------------
(***************************************************************************)
(* The identity verification service for one user.                         *)
(*                                                                         *)
(* A request to start a verification runs in three parts: a transaction    *)
(* claims an attempt, the provider is called with no transaction open, and *)
(* a second transaction records the provider's answer.  Between the parts  *)
(* other requests of the same user, a crash, or a result of the provider   *)
(* may come.  A transaction is one step: it locks the user's row, or the   *)
(* attempt and then the projection, before it reads what it decides on.    *)
(***************************************************************************)
EXTENDS IdentityProjection, Sequences

CONSTANTS
    Starters,      \* requests that start a verification
    IdentityKeys,  \* idempotency keys
    References,    \* references the provider may give to the session of an attempt
    IdentityEvents,\* event ids of the provider's results
    MaxAttempts,   \* bound: attempts of the user
    Nothing        \* null

ASSUME IdentityAssumption == MaxAttempts \in Nat /\ Nothing \notin References \cup IdentityEvents

VARIABLES
    attempts,     \* identity_verifications of the user, by attempt number
    accountActive,\* the user's status is "active"
    startKeys,    \* completed idempotency records: key -> attempt number, 0 when free
    starts,       \* the requests in flight
    sessions,     \* what the provider knows: <<attempt, reference>>
    verdicts,     \* history: the results that were applied
    announced     \* the last identity.verification.state_changed event

identityVars == <<projection, attempts, accountActive, startKeys, starts, sessions, verdicts, announced>>

Idle == [at |-> "idle", attempt |-> 0, reference |-> Nothing]
NoAnnouncement == [attempt |-> 0, status |-> "none", version |-> 0]
Results == [attempt : 1 .. MaxAttempts, reference : References, event : IdentityEvents,
            status : ResultStatuses]

ServiceInit ==
    /\ attempts = <<>>
    /\ accountActive = TRUE
    /\ startKeys = [k \in IdentityKeys |-> 0]
    /\ starts = [c \in Starters |-> Idle]
    /\ sessions = {}
    /\ verdicts = {}
    /\ announced = NoAnnouncement

IdentityInit == ProjectionInit /\ ServiceInit

\* The user's attempts that no result has closed, and the one found first.
Active == {n \in DOMAIN attempts : attempts[n].status \in ActiveStatuses}
ActiveAttempt == CHOOSE n \in Active : \A m \in Active : m <= n

\* The transition and everything it records: projection, attempt, event.
SetStatus(n, status, reference, event) ==
    /\ attempts' = [attempts EXCEPT ![n].status = status, ![n].reference = reference,
                                    ![n].event = event]
    /\ Project(n, status)
    /\ announced' = [attempt |-> n, status |-> status, version |-> projection.version + 1]

Return(c) == starts' = [starts EXCEPT ![c] = Idle]
Claimed(c, n) == starts' = [starts EXCEPT ![c] = [Idle EXCEPT !.at = "claimed", !.attempt = n]]

-----------------------------------------------------------------------------
\* A key that was completed answers with the attempt it named.
ReplayStart(c, k) ==
    /\ starts[c].at = "idle"
    /\ startKeys[k] # 0
    /\ Claimed(c, startKeys[k])
    /\ UNCHANGED <<projection, attempts, accountActive, startKeys, sessions, verdicts, announced>>

\* An attempt under way is joined; one in manual review rejects the request.
JoinAttempt(c, k) ==
    /\ starts[c].at = "idle"
    /\ startKeys[k] = 0
    /\ accountActive
    /\ Active # {}
    /\ attempts[ActiveAttempt].status # "manual_review"
    /\ startKeys' = [startKeys EXCEPT ![k] = ActiveAttempt]
    /\ Claimed(c, ActiveAttempt)
    /\ UNCHANGED <<projection, attempts, accountActive, sessions, verdicts, announced>>

\* Variant of NewAttempt: the latest attempt is not superseded.
NewAttemptAlongside(c, k) ==
    /\ starts[c].at = "idle"
    /\ startKeys[k] = 0
    /\ accountActive
    /\ Active = {}
    /\ Len(attempts) < MaxAttempts
    /\ attempts' = Append(attempts,
                          [status |-> "session_pending", reference |-> Nothing,
                           event |-> Nothing, superseded |-> FALSE])
    /\ Project(Len(attempts) + 1, "session_pending")
    /\ startKeys' = [startKeys EXCEPT ![k] = Len(attempts) + 1]
    /\ Claimed(c, Len(attempts) + 1)
    /\ UNCHANGED <<accountActive, sessions, verdicts, announced>>

\* The latest attempt is superseded, the new one becomes the projection.
NewAttempt(c, k) ==
    /\ starts[c].at = "idle"
    /\ startKeys[k] = 0
    /\ accountActive
    /\ Active = {}
    /\ Len(attempts) < MaxAttempts
    /\ attempts' = Append([n \in DOMAIN attempts |->
                              IF n = Len(attempts) THEN [attempts[n] EXCEPT !.superseded = TRUE]
                              ELSE attempts[n]],
                          [status |-> "session_pending", reference |-> Nothing,
                           event |-> Nothing, superseded |-> FALSE])
    /\ Project(Len(attempts) + 1, "session_pending")
    /\ startKeys' = [startKeys EXCEPT ![k] = Len(attempts) + 1]
    /\ Claimed(c, Len(attempts) + 1)
    /\ UNCHANGED <<accountActive, sessions, verdicts, announced>>

\* Before the provider is called the attempt is read again, without a lock.
AttemptClosed(c) ==
    /\ starts[c].at = "claimed"
    /\ attempts[starts[c].attempt].status \in TerminalStatuses
    /\ Return(c)
    /\ UNCHANGED <<projection, attempts, accountActive, startKeys, sessions, verdicts, announced>>

\* The provider creates a session, refuses for good, or cannot be reached.
CallProvider(c) ==
    /\ starts[c].at = "claimed"
    /\ attempts[starts[c].attempt].status \notin TerminalStatuses
    /\ \/ \E r \in References :
              /\ sessions' = sessions \cup {<<starts[c].attempt, r>>}
              /\ starts' = [starts EXCEPT ![c].at = "created", ![c].reference = r]
       \/ /\ starts' = [starts EXCEPT ![c].at = "refused"]
          /\ UNCHANGED sessions
       \/ /\ Return(c)
          /\ UNCHANGED sessions
    /\ UNCHANGED <<projection, attempts, accountActive, startKeys, verdicts, announced>>

\* Variant of FinalizeSession: a session that was recorded before is a change again.
FinalizeSessionAgain(c) ==
    LET n == starts[c].attempt
        r == starts[c].reference
        accepted == /\ projection.attempt = n
                    /\ attempts[n].reference \in {Nothing, r}
    IN
    /\ starts[c].at = "created"
    /\ Return(c)
    /\ CASE accepted /\ attempts[n].status \in {"session_pending", "pending"} ->
              SetStatus(n, "pending", r, attempts[n].event)
         [] OTHER -> UNCHANGED <<projection, attempts, announced>>
    /\ UNCHANGED <<accountActive, startKeys, sessions, verdicts>>

\* The session is recorded if the attempt is still the projection's, still
\* open, and has no other reference.
FinalizeSession(c) ==
    LET n == starts[c].attempt
        r == starts[c].reference
        accepted == /\ projection.attempt = n
                    /\ attempts[n].reference \in {Nothing, r}
    IN
    /\ starts[c].at = "created"
    /\ Return(c)
    /\ CASE accepted /\ attempts[n].status = "session_pending" ->
              SetStatus(n, "pending", r, attempts[n].event)
         [] accepted /\ attempts[n].status = "pending" ->
              /\ attempts' = [attempts EXCEPT ![n].reference = r]
              /\ UNCHANGED <<projection, announced>>
         [] OTHER -> UNCHANGED <<projection, attempts, announced>>
    /\ UNCHANGED <<accountActive, startKeys, sessions, verdicts>>

\* A refusal fails the attempt unless it moved on meanwhile.
FinalizeFailure(c) ==
    LET n == starts[c].attempt IN
    /\ starts[c].at = "refused"
    /\ Return(c)
    /\ IF attempts[n].status = "session_pending" /\ projection.attempt = n
       THEN SetStatus(n, "failed", attempts[n].reference, attempts[n].event)
       ELSE UNCHANGED <<projection, attempts, announced>>
    /\ UNCHANGED <<accountActive, startKeys, sessions, verdicts>>

\* The answer to a result the provider sends for a recorded reference.
Matches(result) ==
    /\ attempts[result.attempt].event = result.event
    /\ attempts[result.attempt].status = result.status
EventUsed(event) == \E n \in DOMAIN attempts : attempts[n].event = event
\* Variant of Disposition: a superseded attempt is looked at before the event id.
DispositionStaleFirst(result) ==
    LET a == attempts[result.attempt] IN
    IF a.superseded \/ projection.attempt # result.attempt THEN "stale"
    ELSE IF EventUsed(result.event) THEN IF Matches(result) THEN "duplicate" ELSE "conflict"
    ELSE IF result.status \notin Transitions(a.status) THEN "conflict"
    ELSE "applied"

Disposition(result) ==
    LET a == attempts[result.attempt] IN
    IF EventUsed(result.event) THEN IF Matches(result) THEN "duplicate" ELSE "conflict"
    ELSE IF a.superseded \/ projection.attempt # result.attempt THEN "stale"
    ELSE IF result.status \notin Transitions(a.status) THEN "conflict"
    ELSE "applied"

\* A result reaches the service any number of times and in any order; only
\* one that applies changes anything.
ApplyResult(result) ==
    /\ <<result.attempt, result.reference>> \in sessions
    /\ attempts[result.attempt].reference = result.reference
    /\ Disposition(result) = "applied"
    /\ SetStatus(result.attempt, result.status, result.reference, result.event)
    /\ verdicts' = verdicts \cup {result}
    /\ UNCHANGED <<accountActive, startKeys, starts, sessions>>

-----------------------------------------------------------------------------
\* The user's account is closed or opened again by another component.
AccountChanges ==
    /\ accountActive' = ~accountActive
    /\ UNCHANGED <<projection, attempts, startKeys, starts, sessions, verdicts, announced>>

\* The process serving the request dies.
StartDies(c) ==
    /\ starts[c].at # "idle"
    /\ Return(c)
    /\ UNCHANGED <<projection, attempts, accountActive, startKeys, sessions, verdicts, announced>>

IdentityNext ==
    \/ \E c \in Starters :
          \/ \E k \in IdentityKeys : ReplayStart(c, k) \/ JoinAttempt(c, k) \/ NewAttempt(c, k)
          \/ AttemptClosed(c) \/ CallProvider(c)
          \/ FinalizeSession(c) \/ FinalizeFailure(c) \/ StartDies(c)
    \/ \E result \in Results : ApplyResult(result)
    \/ AccountChanges

IdentitySpec == IdentityInit /\ [][IdentityNext]_identityVars

-----------------------------------------------------------------------------
\* Every variable has the shape the service gives it.
IdentityTypeOK ==
    /\ projection \in [attempt : Nat, status : AttemptStatuses, version : Nat]
    /\ Len(attempts) <= MaxAttempts
    /\ attempts \in Seq([status : AttemptStatuses, reference : References \cup {Nothing},
                         event : IdentityEvents \cup {Nothing}, superseded : BOOLEAN])
    /\ accountActive \in BOOLEAN
    /\ startKeys \in [IdentityKeys -> 0 .. Len(attempts)]
    /\ starts \in [Starters -> [at : {"idle", "claimed", "created", "refused"},
                                attempt : 0 .. Len(attempts), reference : References \cup {Nothing}]]
    /\ \A c \in Starters : starts[c].at # "idle" => starts[c].attempt # 0
    /\ sessions \subseteq (DOMAIN attempts) \X References
    /\ verdicts \subseteq Results
    /\ announced \in [attempt : 0 .. MaxAttempts, status : AttemptStatuses \cup {"none"}, version : Nat]

\* The projection other components trust is always the newest attempt with its
\* status, and that attempt is the only one not superseded: no interleaving of
\* two starts, a refusal, and a late result lets an older attempt overwrite it
\* (security-threat-model.md:135), or leaves two attempts open.  A consumer that
\* keeps the last event knows the projection, unless an attempt was just opened,
\* which is not announced.
ProjectionIsNewestAttempt ==
    attempts # <<>> =>
        /\ projection.attempt = Len(attempts)
        /\ projection.status = attempts[Len(attempts)].status
        /\ \A n \in DOMAIN attempts :
              attempts[n].superseded <=> n < Len(attempts)
        /\ Active \subseteq {Len(attempts)}
        /\ \/ projection.status = "session_pending" /\ announced.version < projection.version
           \/ announced = projection

\* A result that was applied is answered "duplicate" however late it is sent
\* again, also after a newer attempt has superseded its own, so that a provider
\* that lost the answer is not told of a conflict.
RedeliveryIsDuplicate == \A result \in verdicts : Disposition(result) = "duplicate"

\* Whatever requests, results and crashes interleave, the projection moves only
\* as the components that rely on it assume: IdentitySpec implements ProjectionSpec.
ProjectionImplemented == [][ProjectionNext]_projection
=============================================================================
