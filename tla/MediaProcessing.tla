--------------------------- MODULE MediaProcessing ---------------------------
(***************************************************************************)
(* The life of one listing's media: upload intents and their completion or *)
(* removal (modules/media/service.py), and the asynchronous sanitization   *)
(* of completed uploads by a pool of workers (modules/media/worker.py)     *)
(* that receive at-least-once messages (workers/main.py, workers/sqs.py).  *)
(*                                                                         *)
(* A database transaction of the code is one step here: every transaction  *)
(* locks the listing_media row first (MediaRepository.get, for_update).    *)
(* What a worker does between two transactions (download, scan, sanitize,  *)
(* write or delete derivative objects) is a step of its own, so steps of   *)
(* other workers and of the API fall in between.  Time is abstract: a      *)
(* lease or an intent lapses at any moment while it is live.               *)
(*                                                                         *)
(* The code never changes processing_version (it is 1 in every row), so    *)
(* the evidence row is one per media item here.                            *)
(***************************************************************************)
EXTENDS Integers, Sequences, FiniteSets

CONSTANTS
  Media,        \* ids of listing_media rows of one listing
  Workers,      \* worker processes (workers/main.py, run)
  Copies,       \* deliveries of one request event; the relay may send several
  Kinds,        \* derivative kinds of one sanitized image
  None,         \* no media, no copy
  MaxCount,     \* media_max_count
  MaxAttempts,  \* media_processing_max_attempts
  MaxReceives   \* maxReceiveCount of the queue's redrive policy

ASSUME MediaAssumption ==
  /\ IsFiniteSet(Media)
  /\ Copies # {} /\ Kinds # {}
  /\ None \notin Media \cup Copies
  /\ MaxCount \in Nat \ {0}
  /\ MaxAttempts \in Nat \ {0}
  /\ MaxReceives \in Nat \ {0}

VARIABLES
  media,                \* listing_media.status, "absent" before the intent
  intent_live,          \* listing_media.expires_at > now
  listing_version,      \* listings.version
  evidence,             \* media_processing_evidence row of each media item
  derivatives,          \* kinds with a media_derivatives row
  objects,              \* kinds with an object under the derivative prefix
  sanitization_events,  \* media.sanitization.* events in commit order
  queue,                \* deliveries of media.processing.requested
  worker                \* local state of each worker

vars == <<media, intent_live, listing_version, evidence, derivatives, objects,
          sanitization_events, queue, worker>>

rowVars == <<media, evidence, derivatives, sanitization_events>>

-----------------------------------------------------------------------------
Terminal == {"moderation_pending", "rejected", "failed"}

MediaStatus ==
  {"absent", "intent_created", "processing", "scanning", "removed"} \cup Terminal

\* claim_token is a fresh uuid7 at every claim.  The attempt number a claim
\* gets is fresh as well and stands for it; 0 is NULL.  "lease" says whether
\* lease_expires_at is still ahead.
Evidence ==
  [status : {"none", "processing"} \cup Terminal,
   attempt_count : Nat, claim_token : Nat, lease : BOOLEAN]

NoEvidence ==
  [status |-> "none", attempt_count |-> 0, claim_token |-> 0, lease |-> FALSE]

\* "outbox": committed, this copy not sent; "dlq": moved by the redrive policy.
Message ==
  [state : {"none", "outbox", "queued", "deleted", "dlq"}, receives : Nat]

Claimed == {"work", "cleanup", "retry", "finalize"}

Worker ==
  [pc : {"idle", "claim", "discard", "ack"} \cup Claimed,
   m : Media \cup {None}, c : Copies \cup {None},
   token : Nat, receive_count : Nat]

Idle == [pc |-> "idle", m |-> None, c |-> None, token |-> 0, receive_count |-> 0]

TypeOK ==
  /\ media \in [Media -> MediaStatus]
  /\ intent_live \in [Media -> BOOLEAN]
  /\ listing_version \in Nat
  /\ evidence \in [Media -> Evidence]
  /\ derivatives \in [Media -> SUBSET Kinds]
  /\ objects \in [Media -> SUBSET Kinds]
  /\ sanitization_events \in [Media -> Seq(Terminal)]
  /\ queue \in [Media \X Copies -> Message]
  /\ worker \in [Workers -> Worker]
  /\ \A w \in Workers : worker[w].pc # "idle" =>
       worker[w].m \in Media /\ worker[w].c \in Copies

Init ==
  /\ media = [m \in Media |-> "absent"]
  /\ intent_live = [m \in Media |-> FALSE]
  /\ listing_version = 1
  /\ evidence = [m \in Media |-> NoEvidence]
  /\ derivatives = [m \in Media |-> {}]
  /\ objects = [m \in Media |-> {}]
  /\ sanitization_events = [m \in Media |-> <<>>]
  /\ queue = [r \in Media \X Copies |-> [state |-> "none", receives |-> 0]]
  /\ worker = [w \in Workers |-> Idle]

-----------------------------------------------------------------------------
(* The media service of the API.                                           *)

Active == {m \in Media : media[m] \notin {"absent", "removed"}}

\* MediaService.create_intent, the acquired branch: a new row under the
\* listing's lock while the listing has fewer than media_max_count rows.
CreateIntent(m) ==
  /\ media[m] = "absent"
  /\ Cardinality(Active) < MaxCount
  /\ media' = [media EXCEPT ![m] = "intent_created"]
  /\ intent_live' = [intent_live EXCEPT ![m] = TRUE]
  /\ listing_version' = listing_version + 1
  /\ UNCHANGED <<evidence, derivatives, objects, sanitization_events, queue, worker>>

\* The clock passes expires_at of an intent.
IntentLapses(m) ==
  /\ media[m] = "intent_created" /\ intent_live[m]
  /\ intent_live' = [intent_live EXCEPT ![m] = FALSE]
  /\ UNCHANGED <<rowVars, listing_version, objects, queue, worker>>

\* MediaService.complete when HEAD found the object the intent describes.
\* HEAD runs outside the transaction, and the status is read again inside.
Complete(m) ==
  /\ media[m] = "intent_created" /\ intent_live[m]
  /\ media' = [media EXCEPT ![m] = "processing"]
  /\ listing_version' = listing_version + 1
  /\ queue' = [r \in Media \X Copies |->
                 IF r[1] = m THEN [state |-> "outbox", receives |-> 0] ELSE queue[r]]
  /\ UNCHANGED <<intent_live, evidence, derivatives, objects,
                 sanitization_events, worker>>

\* MediaService.remove.
Remove(m) ==
  /\ media[m] \notin {"absent", "removed"}
  /\ media' = [media EXCEPT ![m] = "removed"]
  /\ listing_version' = listing_version + 1
  /\ UNCHANGED <<intent_live, evidence, derivatives, objects,
                 sanitization_events, queue, worker>>

-----------------------------------------------------------------------------
(* Relay and queue, as the workers see them.                               *)

\* The relay sends a copy of the request event.
Publish(m, c) ==
  /\ queue[<<m, c>>].state = "outbox"
  /\ queue' = [queue EXCEPT ![<<m, c>>].state = "queued"]
  /\ UNCHANGED <<rowVars, intent_live, listing_version, objects, worker>>

\* SqsConsumer.receive.  A visibility timeout (60 s) may pass while another
\* worker still handles the message, so a delivery needs no earlier one to end.
Receive(w, m, c) ==
  /\ worker[w].pc = "idle"
  /\ queue[<<m, c>>].state = "queued" /\ queue[<<m, c>>].receives < MaxReceives
  /\ queue' = [queue EXCEPT ![<<m, c>>].receives = @ + 1]
  /\ worker' = [worker EXCEPT ![w] =
                  [pc |-> "claim", m |-> m, c |-> c, token |-> 0,
                   receive_count |-> queue[<<m, c>>].receives + 1]]
  /\ UNCHANGED <<rowVars, intent_live, listing_version, objects>>

\* The redrive policy: a message received maxReceiveCount times is set aside.
Redrive(m, c) ==
  /\ queue[<<m, c>>].state = "queued" /\ queue[<<m, c>>].receives = MaxReceives
  /\ queue' = [queue EXCEPT ![<<m, c>>].state = "dlq"]
  /\ UNCHANGED <<rowVars, intent_live, listing_version, objects, worker>>

\* The clock passes lease_expires_at of a claim.
LeaseLapses(m) ==
  /\ evidence[m].lease
  /\ evidence' = [evidence EXCEPT ![m].lease = FALSE]
  /\ UNCHANGED <<media, derivatives, sanitization_events, intent_live,
                 listing_version, objects, queue, worker>>

-----------------------------------------------------------------------------
(* MediaProcessingWorker.                                                  *)

Goto(w, pc) == worker' = [worker EXCEPT ![w].pc = pc]
GoIdle(w) == worker' = [worker EXCEPT ![w] = Idle]

\* processing_request_is_current
Current(m) == media[m] \in {"processing", "scanning"}

\* Variant of HoldsClaim: the media row's status is not checked again.
HoldsClaimAnyStatus(w) ==
  LET m == worker[w].m IN
  /\ evidence[m].status = "processing"
  /\ evidence[m].claim_token = worker[w].token

\* _lock_current_claim
HoldsClaim(w) ==
  LET m == worker[w].m IN
  /\ Current(m)
  /\ evidence[m].status = "processing"
  /\ evidence[m].claim_token = worker[w].token

\* _claim when the request is stale: the message will be acknowledged.
ClaimStale(w) ==
  LET m == worker[w].m IN
  /\ worker[w].pc = "claim"
  /\ \/ ~Current(m)
     \/ evidence[m].status \in Terminal
  /\ Goto(w, "ack")
  /\ UNCHANGED <<rowVars, intent_live, listing_version, objects, queue>>

\* Variant of ClaimBusy: IN_PROGRESS is acknowledged.
ClaimBusyAcked(w) ==
  LET m == worker[w].m IN
  /\ worker[w].pc = "claim"
  /\ Current(m) /\ evidence[m].status = "processing" /\ evidence[m].lease
  /\ Goto(w, "ack")
  /\ UNCHANGED <<rowVars, intent_live, listing_version, objects, queue>>

\* _claim when another claim's lease is live: IN_PROGRESS, not acknowledged.
ClaimBusy(w) ==
  LET m == worker[w].m IN
  /\ worker[w].pc = "claim"
  /\ Current(m) /\ evidence[m].status = "processing" /\ evidence[m].lease
  /\ GoIdle(w)
  /\ UNCHANGED <<rowVars, intent_live, listing_version, objects, queue>>

\* Variant of Claim: a takeover keeps the token of the claim it takes over.
ClaimSameToken(w) ==
  LET m == worker[w].m IN
  /\ worker[w].pc = "claim"
  /\ Current(m) /\ evidence[m].status \in {"none", "processing"}
  /\ ~evidence[m].lease
  /\ evidence' = [evidence EXCEPT ![m] =
                    [status |-> "processing", attempt_count |-> @.attempt_count + 1,
                     claim_token |-> 1, lease |-> TRUE]]
  /\ media' = [media EXCEPT ![m] = "scanning"]
  /\ worker' = [worker EXCEPT ![w].pc = "work", ![w].token = 1]
  /\ UNCHANGED <<derivatives, sanitization_events, intent_live,
                 listing_version, objects, queue>>

\* _claim otherwise: a first claim, or one that takes over a lapsed lease.
Claim(w) ==
  LET m == worker[w].m
      attempt == evidence[m].attempt_count + 1
  IN
  /\ worker[w].pc = "claim"
  /\ Current(m) /\ evidence[m].status \in {"none", "processing"}
  /\ ~evidence[m].lease
  /\ evidence' = [evidence EXCEPT ![m] =
                    [status |-> "processing", attempt_count |-> attempt,
                     claim_token |-> attempt, lease |-> TRUE]]
  /\ media' = [media EXCEPT ![m] = "scanning"]
  /\ worker' = [worker EXCEPT ![w].pc = "work", ![w].token = attempt]
  /\ UNCHANGED <<derivatives, sanitization_events, intent_live,
                 listing_version, objects, queue>>

\* The writes _finalize_success and _finalize_failure share: evidence and
\* media take the outcome, the claim is dropped, _record_terminal enqueues.
RecordOutcome(m, outcome) ==
  /\ evidence' = [evidence EXCEPT ![m].status = outcome, ![m].claim_token = 0]
  /\ media' = [media EXCEPT ![m] = outcome]
  /\ sanitization_events' =
       [sanitization_events EXCEPT ![m] = Append(@, outcome)]

\* _finalize_failure.  Its result is ignored by every caller: without the
\* claim it changes nothing and the caller goes on.
FinalizeFailure(w, outcome) ==
  \/ /\ HoldsClaim(w)
     /\ RecordOutcome(worker[w].m, outcome)
     /\ UNCHANGED derivatives
  \/ /\ ~HoldsClaim(w)
     /\ UNCHANGED rowVars

\* process: the input is rejected, or the scanner fails for good.
Refuse(w, outcome) ==
  /\ worker[w].pc = "work"
  /\ FinalizeFailure(w, outcome)
  /\ Goto(w, "ack")
  /\ UNCHANGED <<intent_live, listing_version, objects, queue>>

\* process: a transient scanner error or any other exception before upload.
TransientError(w) ==
  /\ worker[w].pc = "work"
  /\ Goto(w, "retry")
  /\ UNCHANGED <<rowVars, intent_live, listing_version, objects, queue>>

\* process: every derivative object is written.
PutDerivatives(w) ==
  /\ worker[w].pc = "work"
  /\ objects' = [objects EXCEPT ![worker[w].m] = Kinds]
  /\ Goto(w, "finalize")
  /\ UNCHANGED <<rowVars, intent_live, listing_version, queue>>

\* Variant of PutFails: a failed write is not noticed.
PutFailsUnnoticed(w) ==
  /\ worker[w].pc = "work"
  /\ \E written \in SUBSET Kinds :
       objects' = [objects EXCEPT ![worker[w].m] = @ \cup written]
  /\ Goto(w, "finalize")
  /\ UNCHANGED <<rowVars, intent_live, listing_version, queue>>

\* process: one write fails after some of the others succeeded.
PutFails(w) ==
  /\ worker[w].pc = "work"
  /\ \E written \in SUBSET Kinds :
       /\ written # Kinds
       /\ objects' = [objects EXCEPT ![worker[w].m] = @ \cup written]
  /\ Goto(w, "cleanup")
  /\ UNCHANGED <<rowVars, intent_live, listing_version, queue>>

\* The keys of the claim are deleted.  asyncio.gather does not cancel the
\* writes that still run in threads, so some may land behind the deletion.
CleanUp(w) ==
  /\ worker[w].pc = "cleanup"
  /\ \E late \in SUBSET Kinds :
       /\ late # Kinds
       /\ objects' = [objects EXCEPT ![worker[w].m] = late]
  /\ Goto(w, "retry")
  /\ UNCHANGED <<rowVars, intent_live, listing_version, queue>>

Exhausted(w) ==
  worker[w].token >= MaxAttempts \/ worker[w].receive_count >= MaxAttempts

\* Variant of GiveUp: the status written is not one of the enumeration.
GiveUpUnknownStatus(w) ==
  /\ worker[w].pc = "retry" /\ Exhausted(w)
  /\ FinalizeFailure(w, "retry_exhausted")
  /\ GoIdle(w)
  /\ UNCHANGED <<intent_live, listing_version, objects, queue>>

\* _retry_or_fail out of attempts: failed, and RETRY leaves the message.
GiveUp(w) ==
  /\ worker[w].pc = "retry" /\ Exhausted(w)
  /\ FinalizeFailure(w, "failed")
  /\ GoIdle(w)
  /\ UNCHANGED <<intent_live, listing_version, objects, queue>>

\* Variant of ReleaseClaim: the claim token is not cleared.
ReleaseKeepsToken(w) ==
  LET m == worker[w].m IN
  /\ worker[w].pc = "retry" /\ ~Exhausted(w) /\ HoldsClaim(w)
  /\ evidence' = [evidence EXCEPT ![m].lease = FALSE]
  /\ media' = [media EXCEPT ![m] = "processing"]
  /\ GoIdle(w)
  /\ UNCHANGED <<derivatives, sanitization_events, intent_live,
                 listing_version, objects, queue>>

\* Variant of ReleaseClaim: RETRY is acknowledged.
ReleaseAcked(w) ==
  LET m == worker[w].m IN
  /\ worker[w].pc = "retry" /\ ~Exhausted(w) /\ HoldsClaim(w)
  /\ evidence' = [evidence EXCEPT ![m].claim_token = 0, ![m].lease = FALSE]
  /\ media' = [media EXCEPT ![m] = "processing"]
  /\ Goto(w, "ack")
  /\ UNCHANGED <<derivatives, sanitization_events, intent_live,
                 listing_version, objects, queue>>

\* _retry_or_fail with attempts left: the claim is released for a redelivery.
ReleaseClaim(w) ==
  LET m == worker[w].m IN
  /\ worker[w].pc = "retry" /\ ~Exhausted(w) /\ HoldsClaim(w)
  /\ evidence' = [evidence EXCEPT ![m].claim_token = 0, ![m].lease = FALSE]
  /\ media' = [media EXCEPT ![m] = "processing"]
  /\ GoIdle(w)
  /\ UNCHANGED <<derivatives, sanitization_events, intent_live,
                 listing_version, objects, queue>>

\* _retry_or_fail with attempts left, the claim lost: STALE, acknowledged.
RetryStale(w) ==
  /\ worker[w].pc = "retry" /\ ~Exhausted(w) /\ ~HoldsClaim(w)
  /\ Goto(w, "ack")
  /\ UNCHANGED <<rowVars, intent_live, listing_version, objects, queue>>

\* Variant of FinalizeSuccess: the claim is not checked again.
FinalizeUnchecked(w) ==
  LET m == worker[w].m IN
  /\ worker[w].pc = "finalize"
  /\ derivatives' = [derivatives EXCEPT ![m] = Kinds]
  /\ RecordOutcome(m, "moderation_pending")
  /\ Goto(w, "ack")
  /\ UNCHANGED <<intent_live, listing_version, objects, queue>>

\* _finalize_success with the claim.
FinalizeSuccess(w) ==
  LET m == worker[w].m IN
  /\ worker[w].pc = "finalize" /\ HoldsClaim(w)
  /\ derivatives' = [derivatives EXCEPT ![m] = Kinds]
  /\ RecordOutcome(m, "moderation_pending")
  /\ Goto(w, "ack")
  /\ UNCHANGED <<intent_live, listing_version, objects, queue>>

\* _finalize_success without the claim: nothing is written.
FinalizeStale(w) ==
  /\ worker[w].pc = "finalize" /\ ~HoldsClaim(w)
  /\ Goto(w, "discard")
  /\ UNCHANGED <<rowVars, intent_live, listing_version, objects, queue>>

\* process, after FinalizeStale: the keys of the claim are deleted.
Discard(w) ==
  /\ worker[w].pc = "discard"
  /\ objects' = [objects EXCEPT ![worker[w].m] = {}]
  /\ Goto(w, "ack")
  /\ UNCHANGED <<rowVars, intent_live, listing_version, queue>>

\* _process_message acknowledges: the message leaves the queue if it is there.
Acknowledge(w) ==
  LET m == worker[w].m
      c == worker[w].c
  IN
  /\ worker[w].pc = "ack"
  /\ queue' = [queue EXCEPT ![<<m, c>>].state = IF @ = "queued" THEN "deleted" ELSE @]
  /\ GoIdle(w)
  /\ UNCHANGED <<rowVars, intent_live, listing_version, objects>>

\* The process dies and restarts, or an exception leaves process(): the work
\* is forgotten and the message is not acknowledged.
Crash(w) ==
  /\ worker[w].pc # "idle"
  /\ GoIdle(w)
  /\ UNCHANGED <<rowVars, intent_live, listing_version, objects, queue>>

WorkerStep(w) ==
  \/ ClaimStale(w) \/ ClaimBusy(w) \/ Claim(w)
  \/ Refuse(w, "rejected") \/ Refuse(w, "failed") \/ TransientError(w)
  \/ PutDerivatives(w) \/ PutFails(w) \/ CleanUp(w)
  \/ GiveUp(w) \/ ReleaseClaim(w) \/ RetryStale(w)
  \/ FinalizeSuccess(w) \/ FinalizeStale(w) \/ Discard(w)
  \/ Acknowledge(w)

Next ==
  \/ \E m \in Media :
       \/ CreateIntent(m) \/ IntentLapses(m) \/ Complete(m) \/ Remove(m)
       \/ LeaseLapses(m)
       \/ \E c \in Copies :
            \/ Publish(m, c) \/ Redrive(m, c)
            \/ \E w \in Workers : Receive(w, m, c)
  \/ \E w \in Workers : WorkerStep(w) \/ Crash(w)

Spec == Init /\ [][Next]_vars

\* Workers run, the relay sends each request at least once, the queue
\* redelivers what is not acknowledged, leases lapse.  Nothing else is fair:
\* users need not act and crashes need not stop (each one costs a delivery).
Fairness ==
  /\ \A w \in Workers : WF_vars(WorkerStep(w))
  /\ \A m \in Media :
       /\ WF_vars(LeaseLapses(m))
       /\ WF_vars(/\ \A c \in Copies : queue[<<m, c>>].state = "outbox"
                  /\ \E c \in Copies : Publish(m, c))
       /\ \A c \in Copies :
            /\ WF_vars(Redrive(m, c))
            /\ SF_vars(\E w \in Workers : Receive(w, m, c))

FairSpec == Spec /\ Fairness

-----------------------------------------------------------------------------
(* Properties.                                                             *)

\* The claim token fences the workers: however often leases lapse and
\* messages are redelivered, no two workers hold the current claim of a media
\* item at once, so at most one of them can finalize.
SingleClaimant ==
  \A v, w \in Workers :
    /\ v # w
    /\ worker[v].pc \in Claimed /\ worker[w].pc \in Claimed
    /\ worker[v].m = worker[w].m
    => ~(HoldsClaim(v) /\ HoldsClaim(w))

\* Evidence, derivative rows and the announced event tell one story: a
\* terminal evidence row was announced exactly once, with its own status, and
\* has derivative rows exactly when it is moderation_pending; an open one was
\* never announced and has no rows (_finalize_success, _finalize_failure).
OneOutcome ==
  \A m \in Media :
    IF evidence[m].status \in Terminal
      THEN /\ sanitization_events[m] = <<evidence[m].status>>
           /\ derivatives[m] =
                IF evidence[m].status = "moderation_pending" THEN Kinds ELSE {}
      ELSE sanitization_events[m] = <<>> /\ derivatives[m] = {}

\* The media row never disagrees with its evidence, removal apart: scanning
\* means a claim is issued, processing means none is, a terminal status is
\* the evidence's own.
MediaMatchesEvidence ==
  \A m \in Media :
    LET e == evidence[m] IN
    /\ media[m] \in {"absent", "intent_created"} => e = NoEvidence
    /\ media[m] = "processing" =>
         e = NoEvidence \/ (e.status = "processing" /\ e.claim_token = 0)
    /\ media[m] = "scanning" => e.status = "processing" /\ e.claim_token # 0
    /\ media[m] \in Terminal => e.status = media[m]

\* A media item that passed sanitization has the private derivative objects
\* its media_derivatives rows name.
DerivativesStored ==
  \A m \in Media : media[m] = "moderation_pending" => objects[m] = derivatives[m]

\* A media item that waits for a worker has a request that is still to be
\* delivered or kept in the dead letter queue, unless a worker that holds the
\* claim is at it: a transient failure is retried.
RequestKept ==
  \A m \in Media : Current(m) =>
    \/ \E w \in Workers :
         worker[w].m = m /\ worker[w].pc \in Claimed /\ HoldsClaim(w)
    \/ \A c \in Copies : queue[<<m, c>>].state = "outbox"
    \/ \E c \in Copies : queue[<<m, c>>].state \in {"queued", "dlq"}

\* The phase of MediaReview a status stands for.
PhaseOf(status) ==
  CASE status = "intent_created" -> "intent"
    [] status \in {"processing", "scanning"} -> "pending"
    [] OTHER -> status

Review == INSTANCE MediaReview
            WITH Verdicts <- Terminal,
                 phase <- [m \in Media |-> PhaseOf(media[m])],
                 announced <- sanitization_events

\* Whatever the interleaving of workers, redeliveries and removals, each
\* upload is decided at most once, by one step that also announces the
\* decision, and a removed item stays removed: the module implements
\* MediaReview.
ReviewSpec == Review!Spec

Settled(m) == media[m] \in Terminal \cup {"removed"}

\* Every accepted upload is decided or removed, unless its request ran out
\* of deliveries and went to the dead letter queue.
SettlesOrSetAside ==
  \A m \in Media :
    media[m] = "processing" ~>
      (Settled(m) \/ \E c \in Copies : queue[<<m, c>>].state = "dlq")

=============================================================================
