# WheelMatch in TLA+

Formal models of the WheelMatch backend (`src/backend/app`): a FastAPI
application over PostgreSQL, with a transactional outbox, an SQS queue, S3
storage and asynchronous workers. The models are checked with TLC on small
instances, and the most important properties are proved with TLAPS for every
size.

## 1. The system

### Components

| component (under `src/backend/app`) | state it keeps | operations |
|---|---|---|
| media intake, `modules/media/service.py` | `listing_media`, listing version | create intent, complete, remove, status |
| media worker, `modules/media/worker.py`, `workers/main.py` | `media_processing_evidence`, `media_derivatives`, objects in S3 | claim, sanitize, store, finalize, retry, discard |
| outbox and relay, `core/outbox/`, `workers/outbox_relay.py` | `outbox_events` | enqueue, claim batch, send, mark published or failed, recover |
| event consumer, `workers/consumer.py`, `workers/sqs.py` | `consumer_events`, the queue | receive, process once, acknowledge |
| sessions and credentials, `modules/identity/session_service.py` | `users`, `session_families`, `refresh_sessions` | login, refresh, authenticate, logout, revoke, change password |
| accounts, challenges, recovery, `modules/identity/service.py` | `users`, `verification_challenges`, `password_recovery_challenges` | register, verify, request recovery, reset |
| rate limiter, `modules/identity/rate_limit.py` | Redis counters, `rate_limit_buckets` | enforce |
| authorization, `modules/authorization/` | versioned projection in Redis | get capabilities, invalidate |
| dealers, `modules/dealers/service.py` | organizations, memberships | create, invite, accept, update, leave |
| identity verification, `modules/verification/service.py` | attempts, user verification state | start, finalize session, apply provider result |
| ownership verification, `modules/verification/ownership_service.py`, `ownership_reuse.py` | canonical vehicles, attempts | start or reuse, finalize, apply result |
| listings, `modules/listings/service.py`, `submission_service.py`, `readiness.py` | listings, submission attempts | create, update, submit, readiness |
| idempotency, `core/idempotency/` | `idempotency_records` | reserve, complete |
| profiles, locations, catalogue, audit | their tables | single-row writes, reads, append |

### How they interact

* Services share the database. A service call is one or two transactions
  (`session.begin()`), READ COMMITTED, that lock the rows they change
  (`with_for_update`). Provider, storage and password work runs outside them.
* Services announce changes with `enqueue_event` inside the same transaction.
  Relays move events to SQS, at least once; workers receive them, at least once.
* The media worker handles `media.processing.requested`; the SQL processor
  handles the types it has a handler for; all others are left to the queue's
  redrive policy.
* Media and evidence changes raise `listings.version`; submission and ownership
  evidence are bound to versions and fingerprints.

### What is hard

Claims that outlive their leases, work done between two transactions on state
read in the first, at-least-once messages in any order, crashes between any two
steps, single recovery at start-up, shared deterministic storage keys, rows
locked in different orders by different services. `PROJECT.json` lists each
hazard at its line with the properties that are about it.

## 2. The modules

| module | models | kind |
|---|---|---|
| `MediaReview` | what media processing promises | abstract specification |
| `MediaProcessing` | media intake, the request's deliveries, the worker pool | implementation |
| `MCMediaProcessing` | symmetry for TLC | instance |
| `MediaProcessingProofs` | invariants and refinement of `MediaProcessing` | proofs |
| `EventDelivery` | what the outbox promises | abstract specification |
| `OutboxRelay` | outbox table, relays, queue, consumers | implementation |
| `MCOutboxRelay` | symmetry for TLC | instance |
| `OutboxRelayProofs` | invariants and refinement of `OutboxRelay` | proofs |
| `SessionFamily` | what the identity module promises of an account's sessions | abstract specification |
| `Sessions` | login, refresh, logout, password change, recovery, lock by lock | implementation |
| `MCSessionsOverlap`, `MCSessions` | rotation and credentials with their bounds; the replay | instances |
| `SessionsProofs` | invariants and refinement of `Sessions` | proofs |
| `DealerSeats` | who may change a membership of a dealer organization | abstract specification |
| `Dealers` | dealer memberships, lock by lock, and the capability cache | implementation |
| `MCDealers` | memberships and capabilities with their bounds | instance |
| `DealersProofs` | invariants and refinement of `Dealers` | proofs |
| `Registration` | registration under idempotency keys | implementation |
| `AccountAccess` | verification challenges, seller profile, capabilities and their cache | implementation |
| `RateLimiter` | the limiter in Redis with its fallback to the database | implementation |
| `AccountProofs` | invariants of the three modules above | proofs |
| `IdentityProjection` | what identity verification promises to whoever reads its row | abstract specification |
| `IdentityVerification` | starts, provider calls, results | implementation |
| `IdentityVerificationProofs` | invariants of `IdentityVerification`, its refinement | proofs |
| `OwnershipReuse` | the reuse policy as operators, with its reference definition | pure algorithm |
| `OwnershipVerification` | canonical vehicles, claims, attempts, results; extends `OwnershipReuse` | implementation |
| `ListingSubmission` | drafts, media and submission on that evidence; extends `OwnershipVerification` | composition |
| `OwnershipProofs` | the reuse policy, and invariants of `ListingSubmission` | proofs |
| `TransactionLocks` | the row locks of all of these transactions, in order | implementation |
| `MCMarketplace`, `MCSubmission` | the instances of the nine modules above | instances |
| `MarketplaceProofs` | invariants of `TransactionLocks`, and of the components together | proofs |

Conventions: a committed transaction is one action; what a process does between
transactions is an action of its own, so that every other process may act in
between; a crash is possible at every such point. Time is abstract: a lease, an
intent, a delay or a claim's age changes at any moment. Operators introduced by
"Variant of X" are not part of a specification: each is X with one plausible
mistake, kept to show that the property named in `PROJECT.json` notices it.

### MediaProcessing

`media`, `intent_live` and `listing_version` are the columns of `listing_media`
and `listings`; `evidence` is the evidence row (a fresh claim token is
represented by the attempt number it came with); `derivatives` and `objects` are
the derivative rows and the objects under the derivative prefix; `queue` holds
every copy of the request event with its receive count. A worker's `pc` says
between which two steps of `MediaProcessingWorker.process` it is. `Claim`,
`ClaimBusy` and `ClaimStale` are the three outcomes of `_claim`; `PutDerivatives`
and `PutFails` the two of the writes; `FinalizeSuccess`/`FinalizeStale` those of
`_finalize_success`; `GiveUp`, `ReleaseClaim`, `RetryStale` those of
`_retry_or_fail`. `processing_version` is never changed by the code and is left
out.

### OutboxRelay

`line` is the order `_claim_batch` reads: pending events that are due, by
`available_at`. `old` are the claims older than the recovery threshold. A relay's
record is the batch it still has to send. `Recover` is taken once per process
start only, as in `run`. `sent` and `effects` are history. The queue counts
copies up to `MaxCopies`; more merge into those. Receives are not counted in
this module (they are in `MediaProcessing`), so a message may be set aside after
its first unacknowledged delivery.

### Sessions

One account, its families, tokens and recovery challenges are rows; `holder` is
the row-lock table. A request is a record that says which operation it serves,
between which two steps it is, which rows its current statement still has to
lock (`rows`) and what it will write. Multi-row transactions take their locks one
at a time and write when they commit; a transaction that locks one row is one
step. Each `UPDATE` of `revoke_user_sessions` works on its own snapshot
(`UpdateTokens`, `UpdateFamilies`), so a refresh may commit between them. A cycle
of waiting requests loses one of them (`Deadlock`). The reads before a
transaction (the candidate hash, authentication of the caller, the time) are
taken when the request begins and may be stale when it locks. `opener` is a
history variable. Sessions of different accounts share no row. `revocation_reason`,
`reuse_detected_at` and `last_used_at` decide nothing and are left out, as is the
attempt count of recovery challenges, which no code raises.

### Dealers

One organization; a membership is named by its user (the table has one per user
and organization, and none is deleted). The step of a request is the lock it waits
for next: `Wanted` maps it to a row, so the order of the steps of an operation is the
order of its `for_update` reads. What the code checks after a read is a conjunct of
the action that takes that lock; the write and the end of the transaction are one
action, and `CommitThenDelete` leaves the deletion of cache entries to a later step
that may fail. `past` is a history variable: the seats that earlier values of
`users.authorization_version` stood for, so the version is its length plus one. A
cached projection is reduced to the seat (the role of an active membership) it
contains. The standing of the organization and of accounts changes from outside: no
code here writes those columns, and a change of the organization's does not raise a
version, so the cache may show the capabilities of a suspended organization until
its time to live ends. Idempotency keys, and `organization.authorization_version`,
which nothing reads, are left out; `inventory_manager` and `sales_agent`, neither of
which may manage memberships, are one role.

### Registration, AccountAccess, RateLimiter

`Registration` follows a request from its key to its answer: `Reserve` is the insert
into `idempotency_records`, which waits for another open transaction with the same
key and then replays, conflicts or goes on; `CheckEmail` and `InsertUser` are the
lookup and the insert with its unique index; `CommitRegistration` makes the account
and the completed key visible at once; `DeliverCode` runs after the commit and is
lost when the process dies. `accounts`, `records` and `answers` are the rows and a
history of what was answered. Nothing in the code removes old keys.

`AccountAccess` has the three ways an account gains rights (`RightCode` for either
challenge, `CreateSellerProfile`), each ending in `LockUser` and `Grant`, and the
reader: `ReadAccount`, `LookUp`, `ReadSeller`, `StoreEntry`, the four points between
which `get_capabilities` can be overtaken. Redis may fail to delete or store.
`update_profile` is an optimistic update of one row and is left out.

`RateLimiter` counts the subjects of a call one by one in Redis; `RedisFails` starts
over in the database, in one transaction that is refused when that fails too. The
two stores have windows of their own: the code admits `Limit` requests per window
and store, and `AdmissionsBounded` is stated so.

### Identity and ownership verification

A start is three steps: the transaction that replays, joins or opens an attempt
(`ReplayStart`, `JoinAttempt`, `NewAttempt`), the call to the provider, and the
transaction that records the session or the failure; it may die at each point.
`sessions` are the sessions the provider created, `verdicts` the results it was
answered "applied" for; `ApplyResult` accepts any result for any session at any time, so
results arrive twice, late and in contradiction. `projection` is the row of
`user_verification_states`, whose changes must be those of `IdentityProjection`.
Ownership relies on nothing else of it, so
`OwnershipVerification` takes the abstract steps as its environment
(`IdentityMoves`).

`vehicles` are the canonical vehicles in order of their creation, `proofs` their
attempts by number. `Claim` is one transaction: it resolves and links the vehicle,
and then reuses evidence, joins the attempt or opens one. The statuses of an attempt
and what `OwnershipReuse` says of it are translated from `ownership_state.py` and
`ownership_reuse.py`; `Proves` is the reference: the newest attempt, verified,
bound to the owner's present identity, not expired. Provider references are taken to be
unique. Listings of dealers are refused by the code and do not occur.

### ListingSubmission and TransactionLocks

`Submit` evaluates the gates of `readiness.py` on the rows it locks and writes
the attempt, the listing's columns and the request for moderation. `version` is
raised by edits, locations and media changes of the owner, not by the worker or by
evidence. Pricing, text and images are the flag `complete` and media statuses.
The readiness endpoint evaluates the same gates and only reads.

The modules above treat a transaction as one step. `TransactionLocks` is where
that is justified: it gives each kind its row locks in order (`Plans`), decides with
the locks held, takes the locks its writes need (`Writes`, which includes the rows
foreign keys refer to) and commits or rolls back. Completing media takes the locks
removing it does.

## 3. The runs

| run | question | result |
|---|---|---|
| `media_two_workers` | do overlapping deliveries, lapsing leases and removals ever give two claimants or two outcomes? | no; and the module implements `MediaReview` |
| `media_one_worker` | do objects match rows, is the request kept, does every upload settle or reach the dead letter queue? | yes, with a single worker |
| `media_stale_discard` | do objects match rows with two workers? | no: see findings |
| `media_stale_ack` | is the request kept with two workers? | no: see findings |
| `outbox_overlap` | do overtaking relays and duplicate deliveries publish an unsent event, unpublish one or repeat its effect? who abandons a claim? | no; only crashes |
| `outbox_progress` | is every event published or abandoned, every sent one handled or set aside? | yes |
| `outbox_abandoned` | is every committed event published? | no: see findings |
| `sessions_overlap` | do overlapping requests keep one token per family, revoked families revoked, replaced passwords out and one recovery challenge open? | yes; and the module implements `SessionFamily` |
| `sessions_replay` | does every replay that is answered revoke its family? | no: see findings |
| `dealers` | does an active owner always remain; may whoever changes a membership do so when it commits; does a cached capability outlive the change that ends it? | yes, yes, no; and the module implements `DealerSeats` |
| `marketplace` | the properties of the nine modules from `Registration` to `TransactionLocks`, listed below | they hold |
| `submission_superseded` | is moderation only asked for on evidence the policy selected? | no: see findings |

`marketplace` is one run with one behaviour per component: `focus` chooses at the
start which of them takes steps, and the others stay as they began.

| focus | what it explores | properties |
|---|---|---|
| `identity` | two starts under two keys, two attempts, sessions and results in any order, deaths | `ProjectionIsNewestAttempt`, `RedeliveryIsDuplicate`, `ProjectionImplemented` |
| `limiter` | two calls with two subjects each, a limit of one, failures of both stores, two windows | `AdmissionsBounded` |
| `registration` | three requests with two keys and two addresses | `OneAccountPerEmail`, `KeysNameTheirAccount` |
| `access` | two requests on two challenges, one of which may be spent in vain, the seller profile and the cache; suspension while nothing is cached | `VersionCountsGrants`, `GrantsWithinTries`, `CachedAccessCurrent` |
| `vehicles` | two listings, two registration numbers and a VIN, one open attempt per vehicle | `VehicleIdentityStable` |
| `ownership` | two listings and one vehicle, two attempts, an identity that moves and is verified a second time while attempts of the first are open; it expires, and the account closes, while no claim is in flight | `SelectionIsNewestProof`, `SupersededNeverVerified`, `VerdictsFollowIdentity` |
| `submission` | a prepared listing (complete, located, proved, its image in processing, the identity verified anew since), one edit, two submissions; the seller is restricted while no claim is in flight | `PendingIsLastSubmission`, `RequestsBoundToIdentity` |
| `locks` | every set of three transactions of eleven kinds | `DeadlocksNeedEvidence`, `MediaWithinLimit` |

The prepared state of `submission` is one the code reaches in a dozen requests;
starting there leaves the bounds for what happens next.

Bounds. Two workers or relays are enough for a step of one to fall between any
two steps of the other; a third adds no new kind of overlap because claims are
compared one against one. `MaxAttempts` and `MaxReceives` of 2 and 3 make both
limits reachable in either order. Two copies of the request cover a duplicate
send. One or two derivative kinds tell a partial write from a full one.
Two consumers receive one copy while the other handles it, which is what a
duplicate does.
Two requests make every pair of transactions overlap and every two-row cycle of
waits possible; three tokens leave
a successor for each of two refreshes of one token, or one for a refresh of the
successor; with passwords and recovery one id stays spare for that. `sessions_overlap` and `dealers` have a `focus`
too: sessions rotate and are revoked with crashes under one password, or passwords
change and are recovered; memberships change with crashes and suspended accounts,
or capabilities are computed while they change. Two passwords are stored after the
first, or one after a hash that is rewritten at login. In `dealers` the users' versions
grow together by as much as founding, inviting and accepting a second owner take, and
two changes more when only memberships are explored. The proofs have no such split. The
runs of `MediaProcessing` and `OutboxRelay` do not check deadlock: when all is settled
those systems rightly stop; so do `Dealers` and the marketplace when their bounds
are reached. `Sessions` checks it. In `Dealers` two users are the two owners, or
owner and admin, whose changes meet; `MaxVersion` of 4 lets both be seated and then
changed; `Patches` and `Invited` name the updates and invitations considered. In
`locks` three transactions make every cycle of two or three waiting ones. The
identity of `ownership` may reach version 6, its second verification; beyond version 4
the account stays open, nothing lapses and no proof ages (`VerifiedAnew`). Two
attempts per vehicle or user are an old and a new one; a third only adds another
old one, which stays superseded.

Fairness. Worker and relay processes run in endless loops and are restarted
(`compose.yaml`, `restart: unless-stopped`), so their steps are weakly fair.
Crashes are never assumed to stop: claiming a batch, a successful send and a
delivery are strongly fair instead (the queue is reachable again and again, and
SQS redelivers what is not acknowledged). Clocks move, so leases lapse, delays
end and claims age. User actions are not fair. `Sessions` and
`Dealers` assume none, nor do the modules of `marketplace`: what they promise is safety, a
request that dies is not retried by the code.

## 4. The findings

* *Stale discard.* The derivative keys are a function of media id and version, not of
  the claim; a worker whose claim was taken over deletes the new claimant's
  objects (`worker.py:214`).
* *Stale acknowledgement.* A worker that lost its claim acknowledges the message
  that the claimant's retry depends on (`worker.py:386`, `main.py:89`).
* *Abandoned claim.* A relay recovers claims once, at its start, and only old ones
  (`workers/outbox_relay.py:28`).
* *Replay against successor.* A replay that meets a refresh of the successor token
  can be the victim of the deadlock between them; its revocation is rolled back
  and not retried (`session_service.py:197`).

* *Moderation on superseded evidence.* When the newest attempt for the vehicle, made from
  another listing, has failed or is on another basis, the reuse policy selects nothing;
  the submission falls back to the listing's own attempt and judges it by its status
  alone, so the proof which that newest attempt superseded passes the gates
  (`submission_service.py:346`).

## 5. The proofs

All theorems hold for every value of the constants that satisfies the named
assumptions `MediaAssumption`, `OutboxAssumption`, `ConstantsDistinct`, `DealersAssumption`,
`RegistrationAssumption`, `AccessAssumption`, `LimiterAssumption`, `IdentityAssumption`,
`OwnershipAssumption`, `SubmissionAssumption` and `LocksAssumption`: finite sets of rows or
calls where they are counted, non-zero limits, lists of subjects that are not empty, a null
value outside the sets, some key and some address. `PreparedAssumption` only says that the
prepared listing of `MCMarketplace` exists and fits the bounds; the theorems of
`MarketplaceSpec` use it and no other does.

* `MediaProcessingProofs`: `TypeCorrect`; `ClaimsAreFenced` (`SingleClaimant`)
  from the strengthening `ClaimTokens`: every token a worker has was issued
  by the row (it is at most `attempt_count`), and two workers on one item never
  have the same one. `SingleClaimant` alone is not inductive: it does not say
  that the next token is new. `OutcomesAgree` (`OneOutcome`) and
  `MediaFollowsEvidence` (`MediaMatchesEvidence`) by one step lemma; `ImplementsReview` maps each step to
  a step of `MediaReview` or a stutter.
  `DerivativesAreStored` (`DerivativesStored`) and `RequestsAreKept` (`RequestKept`) are proved
  under the hypothesis `OneWorker`, and need it: `media_stale_discard` and `media_stale_ack`
  refute them for two. `AloneInv` is the reason they hold for one: a lone worker's claim is
  replaced by nobody, so it can be lost to a removal only, and what the worker then
  discards or acknowledges is settled.
* `OutboxRelayProofs`: `TypeCorrect`; the invariant `DeliveryInv` says where events
  stand (the line holds pending events, each once; relays hold committed
  events and mark only what was sent; consumers hold sent events, acknowledge
  only marked ones). It is needed because `MarkPublished` looks only at the
  status: that the event was sent follows from where the relay is. From it
  `HandledAtMostOnce`, `NoSentEventLost` and `ImplementsDelivery`. The first two have no run of
  their own: the steps of `EventDelivery` take effect once, and a sent event that is lost
  would break `HandledOrSetAside`. `OnlyCrashesAbandonClaims`
  (the action property `OnlyCrashesAbandon`) needs that a relay between two batches holds
  nothing (`BatchesEnd`); `ClaimKept` says what each other step does to a claimed event: its
  relay still has it, or it is no longer claimed.
* `SessionsProofs`: `TypeCorrect`, `RotationIsUnique`, `OldPasswordsAreOut`,
  `RecoveryIsUnique` and `ImplementsSessionFamily`. A password write revokes the
  families its second `UPDATE` saw, which is not what is live when it commits
  unless nobody can log in meanwhile; so the invariant `SessionInv` adds that
  such a request holds the account's row (`WritersLock`) and that what it is about
  to revoke or consume still covers everything (`AllCovered`). Revocation without
  that lock (`logout_all`) promises less, and the abstract `End` of some families
  says so.
* `DealersProofs`: `TypeCorrect`, `OwnerRemains` (`ActiveOwner`), `CacheTimely`
  (`CacheNotStale`) and `ImplementsDealerSeats`. A commit relies on checks made when
  earlier rows were locked. So the invariant `LockInv` says which rows a request
  holds at each step (`RowsHeld`) and that what it checked still stands
  (`ChecksStand`); `OthersKeep` shows that no other request or review changes what
  those rows protect. The owners counted by `_has_other_owner` are locked by nobody:
  they stay because each change of a membership needs the row of the organization
  before it commits. For the cache, `ProjectionsTimely` says that a request in
  progress has read nothing older than the version it will store, and `SeatsGrow`
  that the seats since a version only become more.
* `AccountProofs`, on `Registration`: `RegistrationTypeCorrect`, `AddressesAreUnique`
  (`OneAccountPerEmail`) and `KeysHaveOneEffect` (`KeysNameTheirAccount`). A commit relies on
  a lookup and an insert some steps back, so `RegistrationInv` says that open transactions
  differ in their keys and inserted addresses (`HoldersApart`), that what they found free
  still is (`ChecksStand`), and that records and answers, given or about to be, name the
  account of their key and address. `MoveKeeps` is the one lemma behind every step
  that does not touch the tables.
  On `AccountAccess`: `AccessTypeCorrect`, `GrantsAreCounted` (`VersionCountsGrants`),
  `GrantsAreWithinTries` (`GrantsWithinTries`) and `CacheFollowsAccount` (`CachedAccessCurrent`). A change reads the account and commits a
  step later, so `ChangesLocked` says that it holds the user's row in between and that its
  challenge is still unused and has attempts left. For the cache, `ReadsFresh` says that whatever a reader
  carries is no newer than the account and, under the account's own version, equal
  to it: the cached entry alone does not tell what a slow reader will store next.
  On `RateLimiter`: `LimiterTypeCorrect` and `AdmissionsAreBounded` (`AdmissionsBounded`).
  Admissions alone are not inductive, because a call is counted for one subject while it
  still has others to count, and may fall back to the other store in between. `LimiterInv`
  bounds a `Budget` per subject: what was admitted, the calls that were granted a count in
  Redis and are still under way (`Granted`), and what the open windows of both stores can
  still admit, never exceed `Limit` for each window opened. Each count moves one unit from
  a window to a granted call, each end moves it to the admitted ones or loses it.
* `IdentityVerificationProofs`: `IdentityTypeCorrect`, `ProjectionFollowsAttempts` (`ProjectionIsNewestAttempt`),
  `ProjectionIsImplemented` (the refinement of `IdentityProjection`) and
  `AppliedStaysDuplicate` (`RedeliveryIsDuplicate`). The invariant is inductive once it says
  what an empty table means (`NothingYet`) and that an applied result is what its attempt
  says (`VerdictsStand`). `TransitionKeeps` is the lemma behind every transition.
* `OwnershipProofs`: first the policy alone, for any sequence of attempts in which all but
  the newest are superseded: `PolicyFindsNewest` shows that `Select`, with its two
  searches, finds the newest attempt if it `Proves` ownership and nothing otherwise. Then,
  of `SubmissionSpec`, that attempts are always such a sequence (`PolicyIsExact`), that
  superseded ones stay out (`SupersededStaysOut`), that verdicts come under the identity an
  attempt was opened under (`VerdictsAreBound`), that vehicles stay apart
  (`VehiclesStayApart`) and what moderators are asked about (`RequestsNameEvidence`,
  `PendingIsCurrent`). `AttemptsStep` and `VehiclesStep` say what any step may do to evidence;
  that a request's proof stays verified follows from them. `ContentStands` adds that no
  listing was submitted under a version it has yet to reach: without it an edit could
  arrive at a version that is already pending.

  `SubmissionTypeCorrect` gives all of these modules their types: the
  invariants above type vehicles, attempts and requests, `ShapeInv` the claims in
  flight, the owner and the reuses.
* `MarketplaceProofs`, on `TransactionLocks`: `LocksTypeCorrect`, `IntentsWithinLimit`
  (`MediaWithinLimit`) and `DeadlocksCross` (`DeadlocksNeedEvidence`). The transactions
  outside `Crossing` do not share one lock order: a start that opens an identity attempt
  locks the account before the attempt, a result that closes one the attempt before the
  account. Only one of the two can be under way: an attempt is open or it is not. `Rank` is
  therefore two orders, and `LocksInv` says that each transaction ascends in both until it has read the
  attempt, and afterwards in the one that fits what it read (`Ascends`), which still stands
  (`ReadStands`). In any group, the transaction that waits for the highest row then waits
  for none of the group (`HighestWaitsForNone`): the only cycles are those through `Crossing`.
  `FollowsPlan`, that what is held and what is yet to lock make up the plan, gives the
  counting of media its lock.
* `MarketplaceProofs`, on `MCMarketplace`: the run explores one component per behaviour, so
  the component theorems do not speak of it as they stand. `MarketplaceInv` is the
  conjunction of the components' invariants; the projection belongs to the identity service
  or to those who rely on it (`EvidencePart`), and the prepared listing is evidence
  that could have come about (`PreparedEvidence`). `MarketplaceTypeCorrect`,
  `MarketplaceIsSafe` and `MarketplaceMovesSafely` then state every property of the run
  `marketplace`, and the steps are proved without the bounds of its instance, for any
  number of requests, listings, vehicles and transactions.

Every safety and action property of the passing runs is stated by a theorem. Only
model-checked are the three liveness properties, `PublishedOrAbandoned`, `HandledOrSetAside`
and `SettlesOrSetAside`: they rest on fairness, which is out of the prover's reach. What the
violation runs refute is of course not proved.

## 6. Not modelled, and the plan

The components with protocol state are modelled. Left for proofs: nothing the runs check
but liveness. Worth stating next are properties no run checks yet and that the invariants
above already carry, such as `HoldersApart` (no two open registrations
under one key) or `WritersLock` (who writes a password holds the account).

Transactions of the dealer services, and claims, submissions and ownership results,
lock rows in different orders and can wait for each other; PostgreSQL then rolls one
back, as `Deadlock` and `RollBack` do, and no liveness is claimed of them.

Left out for good: image decoding and encoding, normalization and hashing of vehicle
identifiers, audit redaction, telemetry, configuration and HTTP routing (no protocol
state); the catalogue, the status and readiness endpoints and lists (read-only);
drafts of dealer organizations (their evidence is refused by the code);
`update_profile` (an optimistic update of one row). No code here writes an
organization's or account's status, or a canonical vehicle's, after creation, except where the
modules say that an operator does.
