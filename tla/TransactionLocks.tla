-------------------------- MODULE TransactionLocks --------------------------
(***************************************************************************)
(* The row locks of one owner's transactions, in the order the code takes  *)
(* them.  The modules for identity, ownership, media and submission treat  *)
(* a transaction as one step; this one looks inside and asks which of them *)
(* can wait for each other in a cycle, where PostgreSQL rolls one back.    *)
(*                                                                         *)
(* A lock is "update" (SELECT ... FOR UPDATE), "change" (the lock an       *)
(* UPDATE takes by itself) or "refer" (the lock PostgreSQL takes on the    *)
(* row a foreign key of an inserted row names: the actor of an audit       *)
(* entry, the identity attempt of a claim or submission).                  *)
(***************************************************************************)
EXTENDS Naturals, Sequences

CONSTANTS
    Transactions, \* transactions open at once
    MediaLimit    \* MediaService max_count

ASSUME LocksAssumption == MediaLimit \in Nat

VARIABLES
    running,      \* [Transactions -> what the transaction does and has yet to lock]
    held,         \* [Transactions -> the locks it holds]
    attemptOpen,  \* the owner's newest identity attempt is not closed
    mediaRows     \* media of the listing that are not removed

locksVars == <<running, held, attemptOpen, mediaRows>>

Update(row) == [row |-> row, mode |-> "update"]
Change(row) == [row |-> row, mode |-> "change"]
Refer(row) == [row |-> row, mode |-> "refer"]

\* The locks each transaction takes before it decides what to write.
Plans == [
    identity_start   |-> <<Update("user")>>,
    identity_result  |-> <<Update("identity_attempt"), Update("projection")>>,
    claim            |-> <<Update("listing"), Update("projection"), Update("vehicle"), Update("proof")>>,
    ownership_result |-> <<Update("proof"), Update("user"), Update("projection"), Update("listing"),
                           Update("vehicle")>>,
    ownership_finalize |-> <<Update("proof")>>,
    submit           |-> <<Update("listing"), Update("seller"), Update("projection"), Update("vehicle"),
                           Update("proof"), Update("media")>>,
    create_intent    |-> <<Update("listing")>>,
    remove_media     |-> <<Update("media"), Update("listing")>>,
    edit_listing     |-> <<Update("listing")>>,
    seller_profile   |-> <<Update("user"), Update("seller")>>,
    verify_challenge |-> <<Update("challenge"), Update("user")>>]

TransactionKinds == DOMAIN Plans

\* Variant of Writes: a start opens an attempt although one is open.
WritesAnew(kind) ==
    CASE kind = "identity_start" ->
           <<Change("identity_attempt"), Update("projection")>>
      [] kind = "identity_result" -> IF attemptOpen THEN <<Refer("user")>> ELSE <<>>
      [] kind \in {"claim", "submit"} -> <<Refer("user"), Refer("identity_attempt")>>
      [] kind \in {"ownership_finalize", "create_intent", "remove_media", "edit_listing"} ->
           <<Refer("user")>>
      [] OTHER -> <<>>

\* The locks of what it writes: an attempt that is open is joined by a start and
\* closed by a result; inserted rows refer to the account.
Writes(kind) ==
    CASE kind = "identity_start" ->
           IF attemptOpen THEN <<>> ELSE <<Change("identity_attempt"), Update("projection")>>
      [] kind = "identity_result" -> IF attemptOpen THEN <<Refer("user")>> ELSE <<>>
      [] kind \in {"claim", "submit"} -> <<Refer("user"), Refer("identity_attempt")>>
      [] kind \in {"ownership_finalize", "create_intent", "remove_media", "edit_listing"} ->
           <<Refer("user")>>
      [] OTHER -> <<>>

\* What a transaction read when it decided.
NoTransaction == [kind |-> "none", locks |-> <<>>, decided |-> FALSE, open |-> FALSE, counted |-> 0]

LocksInit ==
    /\ running = [t \in Transactions |-> NoTransaction]
    /\ held = [t \in Transactions |-> {}]
    /\ attemptOpen = FALSE
    /\ mediaRows = 0

Conflict(a, b) ==
    /\ a.row = b.row
    /\ a.mode = "update" \/ b.mode = "update" \/ (a.mode = "change" /\ b.mode = "change")

Blocks(u, t) ==
    /\ u # t
    /\ running[t].locks # <<>>
    /\ \E lock \in held[u] : Conflict(lock, Head(running[t].locks))

Begin(t, kind) ==
    /\ running[t] = NoTransaction
    /\ running' = [running EXCEPT ![t] = [NoTransaction EXCEPT !.kind = kind, !.locks = Plans[kind]]]
    /\ UNCHANGED <<held, attemptOpen, mediaRows>>

\* Variant of TakeLock: rows are read without FOR UPDATE.
TakeLockAnyway(t) ==
    /\ running[t].locks # <<>>
    /\ held' = [held EXCEPT ![t] = @ \cup {Head(running[t].locks)}]
    /\ running' = [running EXCEPT ![t].locks = Tail(@)]
    /\ UNCHANGED <<attemptOpen, mediaRows>>

TakeLock(t) ==
    /\ running[t].locks # <<>>
    /\ \A u \in Transactions : ~Blocks(u, t)
    /\ held' = [held EXCEPT ![t] = @ \cup {Head(running[t].locks)}]
    /\ running' = [running EXCEPT ![t].locks = Tail(@)]
    /\ UNCHANGED <<attemptOpen, mediaRows>>

\* With its locks the transaction reads the attempt and counts the media, and
\* knows what it has to write.
Decide(t) ==
    /\ running[t].kind # "none"
    /\ running[t].locks = <<>>
    /\ ~running[t].decided
    /\ running' = [running EXCEPT ![t] = [kind |-> running[t].kind, locks |-> Writes(running[t].kind),
                                          decided |-> TRUE, open |-> attemptOpen,
                                          counted |-> mediaRows]]
    /\ UNCHANGED <<held, attemptOpen, mediaRows>>

Finish(t) ==
    /\ running' = [running EXCEPT ![t] = NoTransaction]
    /\ held' = [held EXCEPT ![t] = {}]

\* Variant of CommitWork: an intent is still accepted at the limit.
CommitWorkBeyond(t) ==
    LET kind == running[t].kind IN
    /\ running[t].locks = <<>>
    /\ running[t].decided
    /\ Finish(t)
    /\ attemptOpen' \in CASE kind = "identity_start" -> {TRUE}
                          [] kind = "identity_result" /\ running[t].open -> BOOLEAN
                          [] OTHER -> {attemptOpen}
    /\ mediaRows' = CASE kind = "create_intent" /\ running[t].counted <= MediaLimit -> mediaRows + 1
                      [] kind = "remove_media" /\ mediaRows > 0 -> mediaRows - 1
                      [] OTHER -> mediaRows

\* The writes become visible and the locks are released.  A result may leave
\* the attempt open (a session recorded), an intent stops at the limit.
CommitWork(t) ==
    LET kind == running[t].kind IN
    /\ running[t].locks = <<>>
    /\ running[t].decided
    /\ Finish(t)
    /\ attemptOpen' \in CASE kind = "identity_start" -> {TRUE}
                          [] kind = "identity_result" /\ running[t].open -> BOOLEAN
                          [] OTHER -> {attemptOpen}
    /\ mediaRows' = CASE kind = "create_intent" /\ running[t].counted < MediaLimit -> mediaRows + 1
                      [] kind = "remove_media" /\ mediaRows > 0 -> mediaRows - 1
                      [] OTHER -> mediaRows

\* A deadlock victim, a refused request or a dead process: nothing is kept.
RollBack(t) ==
    /\ running[t].kind # "none"
    /\ Finish(t)
    /\ UNCHANGED <<attemptOpen, mediaRows>>

LocksNext ==
    \E t \in Transactions :
       \/ \E kind \in TransactionKinds : Begin(t, kind)
       \/ TakeLock(t) \/ Decide(t) \/ CommitWork(t) \/ RollBack(t)

LocksSpec == LocksInit /\ [][LocksNext]_locksVars

-----------------------------------------------------------------------------
RowLock == [row : {"user", "identity_attempt", "projection", "listing", "vehicle", "proof",
                   "seller", "media", "challenge"}, mode : {"update", "change", "refer"}]

\* Every variable has the shape described; two transactions never hold locks
\* that exclude each other.
LocksTypeOK ==
    /\ running \in [Transactions -> [kind : TransactionKinds \cup {"none"}, locks : Seq(RowLock),
                                     decided : BOOLEAN, open : BOOLEAN, counted : Nat]]
    /\ held \in [Transactions -> SUBSET RowLock]
    /\ \A t, u \in Transactions : t # u => \A a \in held[t], b \in held[u] : ~Conflict(a, b)
    /\ attemptOpen \in BOOLEAN
    /\ mediaRows \in Nat

\* Transactions that combine a listing with the evidence about it.
Crossing == {"claim", "submit", "ownership_result"}

\* Only a transaction that combines a listing with the evidence about it can be
\* part of the cause of a deadlock: identity starts and results, media, drafts,
\* profiles and challenges never wait for each other in a cycle, although they
\* lock the account first or last, by reading it or by referring to it.
DeadlocksNeedEvidence ==
    \A group \in SUBSET {t \in Transactions : running[t].kind \notin Crossing} :
        group # {} => \E t \in group : \A u \in group : ~Blocks(u, t)

\* The count of media is read before the row is inserted: intents that overlap
\* with each other, with removals and with rollbacks never exceed the limit.
MediaWithinLimit == mediaRows <= MediaLimit
=============================================================================
