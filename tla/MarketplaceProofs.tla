-------------------------- MODULE MarketplaceProofs --------------------------
(***************************************************************************)
(* What holds across the components of MCMarketplace.                      *)
(*                                                                         *)
(* The locks of their transactions, for any number of them: the wait-for   *)
(* relation of those that do not combine a listing with its evidence is    *)
(* acyclic, because each takes its locks in an order all of them share.    *)
(* There are two such orders, one while the newest identity attempt is     *)
(* open and one while it is not: a start locks the account before the      *)
(* attempt, a result the attempt before the account, and the attempt tells *)
(* which of the two has more to lock.                                      *)
(*                                                                         *)
(* The components together: what each promises separately also holds of    *)
(* MarketplaceSpec, from its prepared listing too.                         *)
(***************************************************************************)
EXTENDS MCMarketplace, AccountProofs, IdentityVerificationProofs, OwnershipProofs

Elements(seq) == {seq[i] : i \in DOMAIN seq}
PlanLocks(kind) == Elements(Plans[kind])

\* The place of a row in the order of the locks, while an attempt is open or not.
Rank(open, row) ==
    IF row = "listing" THEN 1
    ELSE IF row = "identity_attempt" THEN (IF open THEN 2 ELSE 5)
    ELSE IF row = "projection" THEN (IF open THEN 3 ELSE 6)
    ELSE IF row = "user" THEN 4
    ELSE IF row = "seller" THEN 7
    ELSE 0

\* What is yet to be locked comes after what is held, and in ascending order.
Sorted(open, rows, seq) ==
    /\ \A lock \in rows, i \in DOMAIN seq : Rank(open, lock.row) < Rank(open, seq[i].row)
    /\ \A i, j \in DOMAIN seq : i < j => Rank(open, seq[i].row) < Rank(open, seq[j].row)

Deciding == {"identity_start", "identity_result"}

\* A transaction that has not decided holds a part of its plan and waits for the
\* rest; one that has decided holds all of it.
FollowsPlan(r, locks) ==
    IF r.kind = "none" THEN r = NoTransaction /\ locks = {}
    ELSE IF r.decided THEN PlanLocks(r.kind) \subseteq locks
    ELSE locks \cup Elements(r.locks) = PlanLocks(r.kind)

\* Identity transactions ascend in the order of the attempt they decided on, all
\* others (and they before they decide) in both orders.
Ascends(r, locks) ==
    r.kind \notin Crossing =>
       \A open \in BOOLEAN :
          (r.kind \in Deciding /\ r.decided => open = r.open) => Sorted(open, locks, r.locks)

\* What a transaction read under its locks is still so when it commits.
ReadStands(r) ==
    r.decided =>
       /\ r.kind = "identity_start" => IF r.open THEN r.locks = <<>> ELSE ~attemptOpen
       /\ r.kind = "identity_result" => IF r.open THEN attemptOpen ELSE r.locks = <<>>
       /\ r.kind = "create_intent" => r.counted = mediaRows

LocksInv ==
    /\ LocksTypeOK
    /\ \A t \in Transactions : FollowsPlan(running[t], held[t])
    /\ \A t \in Transactions : Ascends(running[t], held[t])
    /\ \A t \in Transactions : ReadStands(running[t])
    /\ MediaWithinLimit

-----------------------------------------------------------------------------
(* Rows, plans and sequences of locks.                                     *)

Running == [kind : TransactionKinds \cup {"none"}, locks : Seq(RowLock), decided : BOOLEAN,
            open : BOOLEAN, counted : Nat]

LEMMA RankInRange == \A open, row : Rank(open, row) \in 0 .. 7
  BY DEF Rank

LEMMA KindsOfTransactions ==
  TransactionKinds = {"identity_start", "identity_result", "claim", "ownership_result",
      "ownership_finalize", "submit", "create_intent", "remove_media", "edit_listing",
      "seller_profile", "verify_challenge"}
  BY DEF TransactionKinds, Plans

\* A lock that is taken moves from the front of what is to be locked to what is held.
LEMMA TakeFirst ==
  ASSUME NEW seq \in Seq(RowLock), seq # <<>>
  PROVE  /\ Head(seq) \in RowLock
         /\ Tail(seq) \in Seq(RowLock)
         /\ Elements(seq) = {Head(seq)} \cup Elements(Tail(seq))
         /\ \A open, rows : Sorted(open, rows, seq) =>
               Sorted(open, rows \cup {Head(seq)}, Tail(seq))
<1>1. /\ Len(seq) \in Nat \ {0} /\ DOMAIN seq = 1 .. Len(seq)
      /\ Head(seq) = seq[1] /\ Head(seq) \in RowLock
      /\ Tail(seq) \in Seq(RowLock) /\ DOMAIN Tail(seq) = 1 .. Len(seq) - 1
      /\ \A i \in 1 .. Len(seq) - 1 : Tail(seq)[i] = seq[i + 1]
  OBVIOUS
<1>2. Elements(seq) = {Head(seq)} \cup Elements(Tail(seq))
  <2>1. ASSUME NEW x \in Elements(seq) PROVE x \in {Head(seq)} \cup Elements(Tail(seq))
    <3>1. PICK i \in 1 .. Len(seq) : x = seq[i]
      BY <1>1 DEF Elements
    <3>2. CASE i = 1
      BY <1>1, <3>1, <3>2
    <3>3. CASE i # 1
      <4>1. i - 1 \in 1 .. Len(seq) - 1 /\ x = Tail(seq)[i - 1]
        BY <1>1, <3>1, <3>3
      <4>2. QED
        BY <1>1, <4>1 DEF Elements
    <3>4. QED
      BY <3>2, <3>3
  <2>2. ASSUME NEW x \in Elements(Tail(seq)) PROVE x \in Elements(seq)
    <3>1. PICK i \in 1 .. Len(seq) - 1 : x = Tail(seq)[i]
      BY <1>1 DEF Elements
    <3>2. i + 1 \in 1 .. Len(seq) /\ x = seq[i + 1]
      BY <1>1, <3>1
    <3>3. QED
      BY <1>1, <3>2 DEF Elements
  <2>3. Head(seq) \in Elements(seq)
    BY <1>1 DEF Elements
  <2>4. QED
    BY <2>1, <2>2, <2>3
<1>3. ASSUME NEW open, NEW rows, Sorted(open, rows, seq)
      PROVE  Sorted(open, rows \cup {Head(seq)}, Tail(seq))
  <2>1. ASSUME NEW lock \in rows \cup {Head(seq)}, NEW i \in 1 .. Len(seq) - 1
        PROVE  Rank(open, lock.row) < Rank(open, Tail(seq)[i].row)
    <3>1. i + 1 \in 1 .. Len(seq) /\ 1 \in 1 .. Len(seq) /\ 1 < i + 1 /\ Tail(seq)[i] = seq[i + 1]
      BY <1>1
    <3>2. CASE lock \in rows
      BY <1>1, <1>3, <3>1, <3>2 DEF Sorted
    <3>3. CASE lock = seq[1]
      BY <1>1, <1>3, <3>1, <3>3 DEF Sorted
    <3>4. QED
      BY <1>1, <3>2, <3>3
  <2>2. ASSUME NEW i \in 1 .. Len(seq) - 1, NEW j \in 1 .. Len(seq) - 1, i < j
        PROVE  Rank(open, Tail(seq)[i].row) < Rank(open, Tail(seq)[j].row)
    <3>1. i + 1 \in 1 .. Len(seq) /\ j + 1 \in 1 .. Len(seq) /\ i + 1 < j + 1
      BY <1>1, <2>2
    <3>2. QED
      BY <1>1, <1>3, <3>1 DEF Sorted
  <2>3. QED
    BY <1>1, <2>1, <2>2 DEF Sorted
<1>4. QED
  BY <1>1, <1>2, <1>3

LEMMA EmptySorted == \A open, rows : Sorted(open, rows, <<>>)
  BY DEF Sorted

\* A lock names a row and a mode.
LEMMA LockTyped ==
  ASSUME NEW row \in {"user", "identity_attempt", "projection", "listing", "vehicle", "proof",
                     "seller", "media", "challenge"}
  PROVE  {Update(row), Change(row), Refer(row)} \subseteq RowLock
  BY DEF Update, Change, Refer, RowLock

LEMMA ShortTyped ==
  ASSUME NEW a \in RowLock, NEW b \in RowLock
  PROVE  <<>> \in Seq(RowLock) /\ <<a>> \in Seq(RowLock) /\ <<a, b>> \in Seq(RowLock)
  OBVIOUS

LEMMA PlansTyped == \A kind \in TransactionKinds : Plans[kind] \in Seq(RowLock)
<1> SUFFICES ASSUME NEW kind \in TransactionKinds PROVE Plans[kind] \in Seq(RowLock)
  OBVIOUS
<1> USE DEF Plans
<1>1. CASE kind \in {"identity_start", "create_intent", "edit_listing", "ownership_finalize"}
  <2>1. \E row \in {"user", "listing", "proof"} : Plans[kind] = <<Update(row)>>
    BY <1>1
  <2>2. QED
    BY <2>1, LockTyped, ShortTyped
<1> USE DEF Update, RowLock
<1>2. CASE kind \in {"identity_result", "remove_media", "seller_profile", "verify_challenge"}
  <2>1. CASE kind = "identity_result"
    BY <2>1
  <2>2. CASE kind = "remove_media"
    BY <2>2
  <2>3. CASE kind = "seller_profile"
    BY <2>3
  <2>4. CASE kind = "verify_challenge"
    BY <2>4
  <2>5. QED
    BY <1>2, <2>1, <2>2, <2>3, <2>4
<1>3. CASE kind = "claim"
  BY <1>3
<1>4. CASE kind = "ownership_result"
  BY <1>4
<1>5. CASE kind = "submit"
  BY <1>5
<1>6. QED
  BY <1>1, <1>2, <1>3, <1>4, <1>5, KindsOfTransactions

LEMMA OneSorted == \A a, open, rows :
    (\A lock \in rows : Rank(open, lock.row) < Rank(open, a.row)) => Sorted(open, rows, <<a>>)
  BY DEF Sorted

LEMMA TwoSorted == \A a, b, open, rows :
    /\ Rank(open, a.row) < Rank(open, b.row)
    /\ \A lock \in rows : Rank(open, lock.row) < Rank(open, a.row)
    => Sorted(open, rows, <<a, b>>)
<1> SUFFICES ASSUME NEW a, NEW b, NEW open, NEW rows,
                    Rank(open, a.row) < Rank(open, b.row),
                    \A lock \in rows : Rank(open, lock.row) < Rank(open, a.row)
             PROVE  Sorted(open, rows, <<a, b>>)
  OBVIOUS
<1>1. DOMAIN <<a, b>> = {1, 2} /\ <<a, b>>[1] = a /\ <<a, b>>[2] = b
  OBVIOUS
<1>2. Rank(open, a.row) \in 0 .. 7 /\ Rank(open, b.row) \in 0 .. 7
      /\ \A lock : Rank(open, lock.row) \in 0 .. 7
  BY RankInRange
<1>3. QED
  BY <1>1, <1>2 DEF Sorted

LEMMA PlansSorted ==
  ASSUME NEW kind \in TransactionKinds \ Crossing, NEW open \in BOOLEAN
  PROVE  Sorted(open, {}, Plans[kind])
<1> USE DEF Plans, Update
<1>1. CASE kind \in {"identity_start", "create_intent", "edit_listing", "ownership_finalize"}
  BY <1>1, OneSorted
<1>2. ASSUME NEW a, NEW b, Plans[kind] = <<a, b>>, Rank(open, a.row) < Rank(open, b.row)
      PROVE  Sorted(open, {}, Plans[kind])
  BY <1>2, TwoSorted
<1>3. CASE kind = "identity_result"
  BY <1>2, <1>3 DEF Rank
<1>4. CASE kind = "remove_media"
  BY <1>2, <1>4 DEF Rank
<1>5. CASE kind = "seller_profile"
  BY <1>2, <1>5 DEF Rank
<1>6. CASE kind = "verify_challenge"
  BY <1>2, <1>6 DEF Rank
<1>7. QED
  BY <1>1, <1>3, <1>4, <1>5, <1>6, KindsOfTransactions DEF Crossing

LEMMA WritesTyped ==
  ASSUME NEW kind \in TransactionKinds
  PROVE  Writes(kind) \in Seq(RowLock)
<1> USE LockTyped, ShortTyped DEF Writes
<1>1. CASE kind = "identity_start"
  BY <1>1
<1>2. CASE kind = "identity_result"
  BY <1>2
<1>3. CASE kind \in {"claim", "submit"}
  BY <1>3
<1>4. CASE kind \in {"ownership_finalize", "create_intent", "remove_media", "edit_listing"}
  BY <1>4
<1>5. CASE kind \in {"ownership_result", "seller_profile", "verify_challenge"}
  BY <1>5
<1>6. QED
  BY <1>1, <1>2, <1>3, <1>4, <1>5, KindsOfTransactions

\* What a transaction writes comes after its plan: in the order of the attempt it
\* sees, and, when it is no identity transaction, in the other order too.
LEMMA WritesSorted ==
  ASSUME NEW kind \in TransactionKinds \ Crossing, NEW open \in BOOLEAN,
         attemptOpen \in BOOLEAN, kind \in Deciding => open = attemptOpen
  PROVE  Sorted(open, PlanLocks(kind), Writes(kind))
<1> USE DEF Writes, Change, Update, Refer
<1>1. CASE kind = "identity_start"
  <2>1. PlanLocks(kind) = {Update("user")}
    BY <1>1 DEF PlanLocks, Plans, Elements
  <2>2. QED
    BY <1>1, <2>1, TwoSorted, EmptySorted DEF Deciding, Rank
<1>2. CASE kind = "identity_result"
  <2>1. PlanLocks(kind) = {Update("identity_attempt"), Update("projection")}
    BY <1>2 DEF PlanLocks, Plans, Elements
  <2>2. CASE attemptOpen
    <3>1. Writes(kind) = <<Refer("user")>> /\ open
      BY <1>2, <2>2 DEF Deciding
    <3>2. \A lock \in PlanLocks(kind) : Rank(open, lock.row) < Rank(open, Refer("user").row)
      BY <2>1, <3>1 DEF Rank
    <3>3. QED
      BY <3>1, <3>2, OneSorted
  <2>3. QED
    BY <1>2, <2>2, EmptySorted
<1>3. CASE kind \in {"ownership_finalize", "create_intent", "edit_listing"}
  <2>1. \A lock \in PlanLocks(kind) : lock.row \in {"proof", "listing"}
    BY <1>3 DEF PlanLocks, Plans, Elements
  <2>2. Writes(kind) = <<Refer("user")>>
    BY <1>3
  <2>3. \A lock \in PlanLocks(kind) : Rank(open, lock.row) < Rank(open, Refer("user").row)
    BY <2>1 DEF Rank
  <2>4. QED
    BY <2>2, <2>3, OneSorted
<1>4. CASE kind = "remove_media"
  <2>1. PlanLocks(kind) = {Update("media"), Update("listing")}
    BY <1>4 DEF PlanLocks, Plans, Elements
  <2>2. Writes(kind) = <<Refer("user")>>
    BY <1>4
  <2>3. \A lock \in PlanLocks(kind) : Rank(open, lock.row) < Rank(open, Refer("user").row)
    BY <2>1 DEF Rank
  <2>4. QED
    BY <2>2, <2>3, OneSorted
<1>5. CASE kind \in {"seller_profile", "verify_challenge"}
  BY <1>5, EmptySorted
<1>6. QED
  BY <1>1, <1>2, <1>3, <1>4, <1>5, KindsOfTransactions DEF Crossing

-----------------------------------------------------------------------------
(* Each step keeps the invariant.                                          *)

LEMMA ConflictSymmetric == \A a, b : Conflict(a, b) <=> Conflict(b, a)
  BY DEF Conflict

\* A transaction holds the locks of its plan when it has nothing more to lock.
LEMMA PlanHeld ==
  ASSUME LocksInv, NEW t \in Transactions, running[t].kind # "none",
         running[t].decided \/ running[t].locks = <<>>
  PROVE  PlanLocks(running[t].kind) \subseteq held[t]
<1>1. FollowsPlan(running[t], held[t]) /\ running[t].decided \in BOOLEAN
  BY DEF LocksInv, LocksTypeOK
<1>2. Elements(<<>>) = {}
  BY DEF Elements
<1>3. QED
  BY <1>1, <1>2 DEF FollowsPlan

\* No two transactions hold one row FOR UPDATE.
LEMMA OneUpdater ==
  ASSUME LocksInv, NEW t \in Transactions, NEW u \in Transactions, NEW row,
         Update(row) \in held[t], Update(row) \in held[u]
  PROVE  t = u
  BY DEF LocksInv, LocksTypeOK, Conflict, Update

\* A step that changes one transaction keeps the invariant when the changed
\* transaction keeps it and takes no lock that excludes a lock of another.
LEMMA OneTransactionChanges ==
  ASSUME LocksInv, NEW t \in Transactions, NEW r \in Running, NEW locks \in SUBSET RowLock,
         running' = [running EXCEPT ![t] = r], held' = [held EXCEPT ![t] = locks],
         UNCHANGED <<attemptOpen, mediaRows>>,
         FollowsPlan(r, locks), Ascends(r, locks), ReadStands(r),
         \A u \in Transactions \ {t} : \A a \in locks, b \in held[u] : ~Conflict(a, b)
  PROVE  LocksInv'
<1>1. /\ \A u \in Transactions \ {t} : running'[u] = running[u] /\ held'[u] = held[u]
      /\ running'[t] = r /\ held'[t] = locks
  BY DEF LocksInv, LocksTypeOK
<1>2. LocksTypeOK'
  <2>1. running' \in [Transactions -> Running] /\ held' \in [Transactions -> SUBSET RowLock]
    BY DEF LocksInv, LocksTypeOK, Running
  <2>2. ASSUME NEW u \in Transactions, NEW v \in Transactions, u # v,
               NEW a \in held'[u], NEW b \in held'[v]
        PROVE  ~Conflict(a, b)
    <3>1. CASE u = t
      BY <1>1, <2>2, <3>1
    <3>2. CASE v = t
      BY <1>1, <2>2, <3>2, ConflictSymmetric
    <3>3. CASE u # t /\ v # t
      BY <1>1, <2>2, <3>3 DEF LocksInv, LocksTypeOK
    <3>4. QED
      BY <3>1, <3>2, <3>3
  <2>3. \A u, v \in Transactions : u # v => \A a \in held'[u], b \in held'[v] : ~Conflict(a, b)
    BY <2>2
  <2>4. attemptOpen' \in BOOLEAN /\ mediaRows' \in Nat
    BY DEF LocksInv, LocksTypeOK
  <2>5. QED
    BY <2>1, <2>3, <2>4 DEF LocksTypeOK, Running, Conflict
<1>3. \A u \in Transactions : FollowsPlan(running'[u], held'[u])
  BY <1>1 DEF LocksInv
<1>4. \A u \in Transactions : Ascends(running'[u], held'[u])
  BY <1>1 DEF LocksInv
<1>5. \A u \in Transactions : ReadStands(running[u])
  BY DEF LocksInv
<1>6. \A u \in Transactions : ReadStands(running[u])'
  BY <1>1, <1>5 DEF ReadStands
<1>7. MediaWithinLimit'
  BY DEF LocksInv, MediaWithinLimit
<1>8. QED
  BY <1>2, <1>3, <1>4, <1>6, <1>7 DEF LocksInv, FollowsPlan, Ascends

LEMMA BeginKeeps ==
  ASSUME LocksInv, NEW t \in Transactions, NEW kind \in TransactionKinds, Begin(t, kind)
  PROVE  LocksInv'
<1> DEFINE r == [NoTransaction EXCEPT !.kind = kind, !.locks = Plans[kind]]
<1>1. r \in Running /\ r.kind = kind /\ r.locks = Plans[kind] /\ r.decided = FALSE
  BY PlansTyped DEF NoTransaction, Running
<1>2. held[t] = {}
  BY DEF LocksInv, Begin, FollowsPlan, NoTransaction
<1>3. running' = [running EXCEPT ![t] = r] /\ held' = [held EXCEPT ![t] = {}]
  BY <1>2 DEF Begin, LocksInv, LocksTypeOK
<1>4. kind # "none"
  BY KindsOfTransactions
<1> HIDE DEF r
<1>5. FollowsPlan(r, {})
  BY <1>1, <1>4 DEF FollowsPlan, PlanLocks
<1>6. Ascends(r, {})
  BY <1>1, PlansSorted DEF Ascends
<1>7. ReadStands(r)
  BY <1>1 DEF ReadStands
<1>8. QED
  BY <1>1, <1>3, <1>5, <1>6, <1>7, OneTransactionChanges DEF Begin

LEMMA TakeLockKeeps ==
  ASSUME LocksInv, NEW t \in Transactions, TakeLock(t)
  PROVE  LocksInv'
<1> DEFINE r == [running[t] EXCEPT !.locks = Tail(@)]
           first == Head(running[t].locks)
           locks == held[t] \cup {first}
<1>1. running[t] \in Running /\ held[t] \in SUBSET RowLock
  BY DEF LocksInv, LocksTypeOK, Running
<1>2. running[t].locks \in Seq(RowLock) /\ running[t].locks # <<>>
  BY <1>1 DEF Running, TakeLock
<1>3. first \in RowLock /\ Tail(running[t].locks) \in Seq(RowLock)
      /\ Elements(running[t].locks) = {first} \cup Elements(Tail(running[t].locks))
      /\ \A open, rows : Sorted(open, rows, running[t].locks) =>
            Sorted(open, rows \cup {first}, Tail(running[t].locks))
  BY <1>2, TakeFirst
<1>4. r \in Running /\ r.kind = running[t].kind /\ r.locks = Tail(running[t].locks)
      /\ r.decided = running[t].decided /\ r.open = running[t].open
      /\ r.counted = running[t].counted
  BY <1>1, <1>3 DEF Running
<1>5. running' = [running EXCEPT ![t] = r] /\ held' = [held EXCEPT ![t] = locks]
      /\ UNCHANGED <<attemptOpen, mediaRows>>
  BY DEF TakeLock
<1>6. FollowsPlan(running[t], held[t]) /\ Ascends(running[t], held[t]) /\ ReadStands(running[t])
  BY DEF LocksInv
<1>7. running[t].kind # "none"
  BY <1>2, <1>6 DEF FollowsPlan, NoTransaction
<1>8. ASSUME NEW u \in Transactions \ {t}, NEW a \in locks, NEW b \in held[u]
      PROVE  ~Conflict(a, b)
  <2>1. CASE a = first
    BY <1>2, <2>1, ConflictSymmetric DEF TakeLock, Blocks
  <2>2. CASE a \in held[t]
    BY <2>2 DEF LocksInv, LocksTypeOK
  <2>3. QED
    BY <2>1, <2>2
<1>9. FollowsPlan(r, locks)
  BY <1>3, <1>4, <1>6, <1>7 DEF FollowsPlan
<1>10. Ascends(r, locks)
  BY <1>3, <1>4, <1>6 DEF Ascends
<1>11. ReadStands(r)
  BY <1>2, <1>4, <1>6 DEF ReadStands
<1>12. locks \in SUBSET RowLock
  BY <1>1, <1>3
<1> HIDE DEF r, locks
<1>13. QED
  BY <1>4, <1>5, <1>8, <1>9, <1>10, <1>11, <1>12, OneTransactionChanges

LEMMA DecideKeeps ==
  ASSUME LocksInv, NEW t \in Transactions, Decide(t)
  PROVE  LocksInv'
<1> DEFINE kind == running[t].kind
           r == [kind |-> kind, locks |-> Writes(kind), decided |-> TRUE, open |-> attemptOpen,
                 counted |-> mediaRows]
<1>1. running[t] \in Running /\ held[t] \in SUBSET RowLock /\ attemptOpen \in BOOLEAN
      /\ mediaRows \in Nat
  BY DEF LocksInv, LocksTypeOK, Running
<1>2. kind \in TransactionKinds /\ running[t].locks = <<>> /\ ~running[t].decided
  BY <1>1 DEF Running, Decide
<1>3. Writes(kind) \in Seq(RowLock)
  BY <1>2, WritesTyped
<1>4. r \in Running /\ r.kind = kind /\ r.locks = Writes(kind) /\ r.decided
      /\ r.open = attemptOpen /\ r.counted = mediaRows
  BY <1>1, <1>2, <1>3 DEF Running
<1>5. running' = [running EXCEPT ![t] = r] /\ held' = [held EXCEPT ![t] = held[t]]
      /\ UNCHANGED <<attemptOpen, mediaRows>>
  BY DEF Decide, LocksInv, LocksTypeOK
<1>6. held[t] = PlanLocks(kind) /\ kind # "none"
  <2>1. FollowsPlan(running[t], held[t])
    BY DEF LocksInv
  <2>2. kind # "none" /\ Elements(<<>>) = {}
    BY DEF Decide, Elements
  <2>3. QED
    BY <1>2, <2>1, <2>2 DEF FollowsPlan
<1>7. FollowsPlan(r, held[t])
  BY <1>4, <1>6 DEF FollowsPlan
<1>8. Ascends(r, held[t])
  BY <1>1, <1>2, <1>4, <1>6, WritesSorted DEF Ascends
<1>9. ReadStands(r)
  <2>1. kind = "identity_start" /\ attemptOpen => Writes(kind) = <<>>
    BY DEF Writes
  <2>2. kind = "identity_result" /\ ~attemptOpen => Writes(kind) = <<>>
    BY DEF Writes
  <2>3. QED
    BY <1>4, <2>1, <2>2 DEF ReadStands
<1>10. \A u \in Transactions \ {t} : \A a \in held[t], b \in held[u] : ~Conflict(a, b)
  BY DEF LocksInv, LocksTypeOK
<1> HIDE DEF r
<1>11. QED
  BY <1>1, <1>4, <1>5, <1>7, <1>8, <1>9, <1>10, OneTransactionChanges

\* A transaction that ends leaves no lock; what it wrote must leave what the others read.
LEMMA LocksEndKeeps ==
  ASSUME LocksInv, NEW t \in Transactions, Finish(t),
         attemptOpen' \in BOOLEAN, mediaRows' \in 0 .. MediaLimit,
         \A u \in Transactions \ {t} : ReadStands(running[u])'
  PROVE  LocksInv'
<1>1. /\ \A u \in Transactions \ {t} : running'[u] = running[u] /\ held'[u] = held[u]
      /\ running'[t] = NoTransaction /\ held'[t] = {}
  BY DEF LocksInv, LocksTypeOK, Finish
<1>2. NoTransaction \in Running
  BY ShortTyped DEF NoTransaction, Running
<1>3. LocksTypeOK'
  <2>1. running' \in [Transactions -> Running] /\ held' \in [Transactions -> SUBSET RowLock]
    BY <1>2 DEF LocksInv, LocksTypeOK, Running, Finish
  <2>2. ASSUME NEW u \in Transactions, NEW v \in Transactions, u # v,
               NEW a \in held'[u], NEW b \in held'[v]
        PROVE  ~Conflict(a, b)
    <3>1. u # t /\ v # t
      BY <1>1, <2>2
    <3>2. QED
      BY <1>1, <2>2, <3>1 DEF LocksInv, LocksTypeOK
  <2>3. \A u, v \in Transactions : u # v => \A a \in held'[u], b \in held'[v] : ~Conflict(a, b)
    BY <2>2
  <2>4. mediaRows' \in Nat
    BY LocksAssumption
  <2>5. QED
    BY <2>1, <2>3, <2>4 DEF LocksTypeOK, Running, Conflict
<1>4. FollowsPlan(NoTransaction, {}) /\ Ascends(NoTransaction, {}) /\ ~NoTransaction.decided
  BY EmptySorted DEF FollowsPlan, Ascends, NoTransaction
<1>5. \A u \in Transactions : FollowsPlan(running'[u], held'[u])
  BY <1>1, <1>4 DEF LocksInv
<1>6. \A u \in Transactions : Ascends(running'[u], held'[u])
  BY <1>1, <1>4 DEF LocksInv
<1>7. \A u \in Transactions : ReadStands(running[u])'
  <2>1. ReadStands(running[t])'
    BY <1>1, <1>4 DEF ReadStands
  <2>2. QED
    BY <2>1
<1>8. MediaWithinLimit'
  BY LocksAssumption DEF MediaWithinLimit
<1>9. QED
  BY <1>3, <1>5, <1>6, <1>7, <1>8 DEF LocksInv, FollowsPlan, Ascends

LEMMA CommitWorkKeeps ==
  ASSUME LocksInv, NEW t \in Transactions, CommitWork(t)
  PROVE  LocksInv'
<1> DEFINE kind == running[t].kind
<1>1. running[t] \in Running /\ attemptOpen \in BOOLEAN /\ mediaRows \in Nat
      /\ mediaRows <= MediaLimit /\ MediaLimit \in Nat
  BY LocksAssumption DEF LocksInv, LocksTypeOK, Running, MediaWithinLimit
<1>2. running[t].locks = <<>> /\ running[t].decided /\ Finish(t)
  BY DEF CommitWork
<1>3. ReadStands(running[t]) /\ FollowsPlan(running[t], held[t])
  BY DEF LocksInv
<1>4. kind # "none" /\ PlanLocks(kind) \subseteq held[t]
  BY <1>2, <1>3, PlanHeld DEF FollowsPlan, NoTransaction
<1>5. /\ kind = "identity_start" => attemptOpen' = TRUE
      /\ kind = "identity_result" /\ running[t].open => attemptOpen' \in BOOLEAN
      /\ kind # "identity_start" /\ ~(kind = "identity_result" /\ running[t].open) =>
            attemptOpen' = attemptOpen
  BY <1>1 DEF CommitWork
<1>6. /\ kind = "create_intent" => mediaRows' \in {mediaRows, mediaRows + 1}
      /\ kind = "create_intent" /\ running[t].counted >= MediaLimit => mediaRows' = mediaRows
      /\ kind = "remove_media" => mediaRows' \in {mediaRows, mediaRows - 1}
      /\ kind = "remove_media" /\ mediaRows = 0 => mediaRows' = mediaRows
      /\ kind \notin {"create_intent", "remove_media"} => mediaRows' = mediaRows
  BY <1>1 DEF CommitWork, Running
<1>7. attemptOpen' \in BOOLEAN
  BY <1>1, <1>5
<1>8. mediaRows' \in 0 .. MediaLimit
  <2>1. kind = "create_intent" => running[t].counted = mediaRows
    BY <1>2, <1>3 DEF ReadStands
  <2>2. QED
    BY <1>1, <1>6, <2>1
<1>9. ASSUME NEW u \in Transactions \ {t} PROVE ReadStands(running[u])'
  <2> DEFINE r == running[u]
  <2>1. running'[u] = r /\ r \in Running /\ ReadStands(r) /\ FollowsPlan(r, held[u])
    BY <1>2 DEF Finish, LocksInv, LocksTypeOK, Running
  <2>2. SUFFICES ASSUME r.decided
                 PROVE  /\ r.kind = "identity_start" => IF r.open THEN r.locks = <<>> ELSE ~attemptOpen'
                        /\ r.kind = "identity_result" => IF r.open THEN attemptOpen' ELSE r.locks = <<>>
                        /\ r.kind = "create_intent" => r.counted = mediaRows'
    BY <2>1 DEF ReadStands
  <2>3. r.kind # "none" /\ PlanLocks(r.kind) \subseteq held[u]
    BY <2>1, <2>2, PlanHeld DEF FollowsPlan, NoTransaction
  <2>4. \A row : Update(row) \in held[u] => Update(row) \notin held[t]
    BY OneUpdater
  <2>5. /\ \A k \in {"identity_start"} : Update("user") \in PlanLocks(k)
        /\ \A k \in {"identity_result"} : Update("identity_attempt") \in PlanLocks(k)
        /\ \A k \in {"create_intent", "remove_media"} : Update("listing") \in PlanLocks(k)
    <3>1. Update("user") \in PlanLocks("identity_start")
      BY DEF PlanLocks, Plans, Elements
    <3>2. Update("identity_attempt") \in PlanLocks("identity_result")
      BY DEF PlanLocks, Plans, Elements
    <3>3. Update("listing") \in PlanLocks("create_intent")
      BY DEF PlanLocks, Plans, Elements
    <3>4. DOMAIN Plans["remove_media"] = {1, 2} /\ Plans["remove_media"][2] = Update("listing")
      BY DEF Plans
    <3>5. Update("listing") \in PlanLocks("remove_media")
      BY <3>4 DEF PlanLocks, Elements
    <3>6. QED
      BY <3>1, <3>2, <3>3, <3>5
  <2>6. /\ ~(r.kind = "identity_start" /\ kind = "identity_start")
        /\ ~(r.kind = "identity_result" /\ kind = "identity_result")
        /\ ~(r.kind = "create_intent" /\ kind \in {"create_intent", "remove_media"})
    BY <1>4, <2>3, <2>4, <2>5
  <2>7. r.kind = "identity_start" /\ ~r.open => ~attemptOpen'
    <3>1. r.kind = "identity_start" /\ ~r.open => ~attemptOpen
      BY <2>1, <2>2 DEF ReadStands
    <3>2. kind = "identity_result" /\ running[t].open => attemptOpen
      BY <1>2, <1>3 DEF ReadStands
    <3>3. QED
      BY <1>5, <2>6, <3>1, <3>2
  <2>8. r.kind = "identity_result" /\ r.open => attemptOpen'
    <3>1. r.kind = "identity_result" /\ r.open => attemptOpen
      BY <2>1, <2>2 DEF ReadStands
    <3>2. CASE kind = "identity_start"
      BY <1>5, <3>2
    <3>3. CASE kind # "identity_start" /\ kind # "identity_result"
      <4>1. attemptOpen' = attemptOpen
        BY <1>5, <3>3
      <4>2. QED
        BY <3>1, <4>1, Zenon
    <3>4. QED
      BY <2>6, <3>2, <3>3
  <2>9. r.kind = "create_intent" => r.counted = mediaRows'
    BY <1>6, <2>1, <2>2, <2>6 DEF ReadStands
  <2>10. QED
    BY <2>1, <2>2, <2>7, <2>8, <2>9 DEF ReadStands
<1>10. QED
  BY <1>2, <1>7, <1>8, <1>9, LocksEndKeeps

LEMMA RollBackKeeps ==
  ASSUME LocksInv, NEW t \in Transactions, RollBack(t)
  PROVE  LocksInv'
<1>1. attemptOpen' \in BOOLEAN /\ mediaRows' \in 0 .. MediaLimit
  BY LocksAssumption DEF RollBack, LocksInv, LocksTypeOK, MediaWithinLimit
<1>2. \A u \in Transactions \ {t} : running'[u] = running[u] /\ ReadStands(running[u])
  BY DEF RollBack, Finish, LocksInv, LocksTypeOK
<1>3. \A u \in Transactions \ {t} : ReadStands(running[u])'
  BY <1>2 DEF RollBack, ReadStands
<1>4. QED
  BY <1>1, <1>3, LocksEndKeeps DEF RollBack

LEMMA LocksStep == LocksInv /\ [LocksNext]_locksVars => LocksInv'
<1> SUFFICES ASSUME LocksInv, [LocksNext]_locksVars PROVE LocksInv'
  OBVIOUS
<1>1. CASE LocksNext
  BY <1>1, BeginKeeps, TakeLockKeeps, DecideKeeps, CommitWorkKeeps, RollBackKeeps DEF LocksNext
<1>2. CASE UNCHANGED locksVars
  BY <1>2 DEF locksVars, LocksInv, LocksTypeOK, FollowsPlan, Ascends, ReadStands, MediaWithinLimit,
     Conflict
<1>3. QED
  BY <1>1, <1>2

LEMMA LocksStart == LocksInit => LocksInv
<1> SUFFICES ASSUME LocksInit PROVE LocksInv
  OBVIOUS
<1>1. NoTransaction \in Running /\ NoTransaction.kind = "none" /\ NoTransaction.locks = <<>>
      /\ ~NoTransaction.decided
  BY ShortTyped DEF NoTransaction, Running
<1>2. LocksTypeOK
  BY <1>1 DEF LocksInit, LocksTypeOK, Running
<1>3. QED
  BY <1>1, <1>2, EmptySorted, LocksAssumption
  DEF LocksInit, LocksInv, FollowsPlan, Ascends, ReadStands, MediaWithinLimit

LEMMA LocksSafe == LocksSpec => []LocksInv
  BY LocksStart, LocksStep, PTL DEF LocksSpec

-----------------------------------------------------------------------------
(* Theorems.                                                               *)

\* Every variable has its type, and no two transactions ever hold locks that
\* exclude each other.
THEOREM LocksTypeCorrect == LocksSpec => []LocksTypeOK
<1>1. LocksInv => LocksTypeOK
  BY DEF LocksInv
<1>2. QED
  BY <1>1, LocksSafe, PTL

\* However intents overlap with each other, with removals and with rollbacks, the
\* media of a listing stay within the limit (MediaService.create_intent counts
\* them under the lock of the listing).
THEOREM IntentsWithinLimit == LocksSpec => []MediaWithinLimit
<1>1. LocksInv => MediaWithinLimit
  BY DEF LocksInv
<1>2. QED
  BY <1>1, LocksSafe, PTL

\* The rank of the row a transaction waits for.
Wanted(t) == Rank(attemptOpen, Head(running[t].locks).row)

\* Of any group of transactions one waits for a row of the highest rank.
LEMMA HighestWanted ==
  ASSUME NEW group, group # {}
  PROVE  \E t \in group : \A u \in group : Wanted(u) <= Wanted(t)
<1> DEFINE gaps == {7 - Wanted(t) : t \in group}
<1>1. \A t \in group : Wanted(t) \in 0 .. 7
  BY RankInRange DEF Wanted
<1> HIDE DEF Wanted
<1>2. gaps # {} /\ gaps \subseteq Nat
  BY <1>1
<1>3. \E least \in gaps : \A gap \in gaps : ~(<<gap, least>> \in OpToRel(<, Nat))
  BY <1>2, WFMin, NatLessThanWellFounded, Zenon
<1>4. PICK least \in gaps : \A gap \in gaps : ~(gap < least)
  BY <1>2, <1>3 DEF OpToRel
<1>5. PICK t \in group : least = 7 - Wanted(t)
  OBVIOUS
<1>6. \A u \in group : Wanted(u) <= Wanted(t)
  BY <1>1, <1>4, <1>5
<1>7. QED
  BY <1>6

\* A waiting transaction outside Crossing waits for a row that comes after all it holds.
LEMMA WaitsAscend ==
  ASSUME LocksInv, NEW t \in Transactions, running[t].kind \notin Crossing,
         running[t].locks # <<>>, NEW lock \in held[t]
  PROVE  Rank(attemptOpen, lock.row) < Wanted(t)
<1> DEFINE r == running[t]
<1>1. r \in Running /\ Ascends(r, held[t]) /\ ReadStands(r) /\ attemptOpen \in BOOLEAN
  BY DEF LocksInv, LocksTypeOK, Running
<1>2. r.kind \in Deciding /\ r.decided => attemptOpen = r.open
  BY <1>1 DEF Running, ReadStands, Deciding
<1>3. Sorted(attemptOpen, held[t], r.locks)
  BY <1>1, <1>2 DEF Ascends
<1>4. 1 \in DOMAIN r.locks /\ Head(r.locks) = r.locks[1]
  BY <1>1 DEF Running
<1>5. QED
  BY <1>3, <1>4 DEF Sorted, Wanted

\* In every such group one transaction waits for none of the others: the one that
\* wants the highest row.
LEMMA HighestWaitsForNone == LocksInv => DeadlocksNeedEvidence
<1> SUFFICES ASSUME LocksInv, NEW group \in SUBSET {t \in Transactions : running[t].kind \notin Crossing},
                    group # {}
             PROVE  \E t \in group : \A u \in group : ~Blocks(u, t)
  BY DEF DeadlocksNeedEvidence
<1>1. CASE \E t \in group : running[t].locks = <<>>
  BY <1>1 DEF Blocks
<1>2. CASE \A t \in group : running[t].locks # <<>>
  <2>1. PICK t \in group : \A u \in group : Wanted(u) <= Wanted(t)
    BY HighestWanted
  <2>2. ASSUME NEW u \in group, Blocks(u, t) PROVE FALSE
    <3>1. PICK lock \in held[u] : lock.row = Head(running[t].locks).row
      BY <2>2 DEF Blocks, Conflict
    <3>2. Wanted(t) < Wanted(u)
      BY <1>2, <3>1, WaitsAscend DEF Wanted
    <3>3. Wanted(t) \in 0 .. 7 /\ Wanted(u) \in 0 .. 7
      BY RankInRange DEF Wanted
    <3>4. QED
      BY <2>1, <3>2, <3>3
  <2>3. QED
    BY <2>2
<1>3. QED
  BY <1>1, <1>2

\* Any group of transactions outside Crossing has one that waits for none of the
\* group: the transactions that wait for each other in a cycle always include one
\* that combines a listing with the evidence about it.
THEOREM DeadlocksCross == LocksSpec => []DeadlocksNeedEvidence
  BY HighestWaitsForNone, LocksSafe, PTL

-----------------------------------------------------------------------------
(* The components together. *)

\* What stays in its initial state while the identity moves.
NothingOwned ==
    /\ SubmissionTypeOK
    /\ vehicles = <<>> /\ vehicleOf = [l \in Listings |-> 0]
    /\ proofs = [v \in VehicleIds |-> <<>>]
    /\ submissions = [l \in Listings |-> <<>>]
    /\ publication = [l \in Listings |-> [moderation |-> "not_started", submitted |-> 0]]
    /\ requests = {}

\* The projection belongs to the identity service or to those who rely on it.
EvidencePart == IF focus = "identity" THEN IdentityInv /\ NothingOwned ELSE ShapeInv /\ ServiceInit

MarketplaceInv ==
    focus \in Focuses /\ LimiterInv /\ RegistrationInv /\ AccessInv /\ LocksInv /\ EvidencePart

-----------------------------------------------------------------------------
(* The initial states. *)

LEMMA NothingOwnedStarts == SubmissionInit => NothingOwned
  BY ShapeStarts, ShapeSafe DEF SubmissionInit, OwnershipInit, NothingOwned

\* A sequence of one element.
LEMMA OneElement ==
  ASSUME NEW S, NEW x \in S
  PROVE  <<x>> \in Seq(S) /\ Len(<<x>>) = 1 /\ DOMAIN <<x>> = {1} /\ <<x>>[1] = x
  OBVIOUS

\* The prepared evidence is evidence that could have come about.
LEMMA PreparedEvidence == PreparedInit => EvidenceInv
<1> SUFFICES ASSUME PreparedInit PROVE EvidenceInv
  OBVIOUS
<1>1. ProjectionTyped
  <2>1. projection = [attempt |-> 2, status |-> "verified", version |-> 6]
    BY DEF PreparedInit
  <2>2. 6 \in 0 .. MaxProjection /\ "verified" \in AttemptStatuses
    BY PreparedAssumption, OwnershipAssumption DEF AttemptStatuses, TerminalStatuses
  <2>3. QED
    BY <2>1, <2>2 DEF ProjectionTyped
<1>2. PICK basis \in Bases : proofs = [v \in VehicleIds |-> IF v # 1 THEN <<>> ELSE
           <<[listing |-> Offered, identity |-> 3, basis |-> basis, status |-> "verified",
              known |-> TRUE, superseded |-> FALSE, age |-> "fresh"]>>]
  BY DEF PreparedInit
<1> DEFINE proof == [listing |-> Offered, identity |-> 3, basis |-> basis, status |-> "verified",
                     known |-> TRUE, superseded |-> FALSE, age |-> "fresh"]
<1>3. proof \in Proof
  <2>1. 3 \in 1 .. MaxProjection /\ Offered \in Listings
    BY PreparedAssumption, OwnershipAssumption
  <2>2. QED
    BY <2>1 DEF Proof, AttemptStatuses, TerminalStatuses
<1> HIDE DEF proof
<1>4. ProofsInv
  <2>1. proofs = [v \in VehicleIds |-> IF v # 1 THEN <<>> ELSE <<proof>>]
    BY <1>2 DEF proof
  <2> HIDE DEF Proof, VehicleIds
  <2>2. /\ <<proof>> \in Seq(Proof) /\ NewestStands(<<proof>>) /\ Len(<<proof>>) <= MaxProofs
        /\ <<>> \in Seq(Proof) /\ NewestStands(<<>>) /\ Len(<<>>) <= MaxProofs
    BY <1>3, PreparedAssumption, OwnershipAssumption DEF NewestStands
  <2>3. ASSUME NEW v \in VehicleIds
        PROVE  proofs[v] \in Seq(Proof) /\ NewestStands(proofs[v]) /\ Len(proofs[v]) <= MaxProofs
    BY <2>1, <2>2
  <2>4. proofs \in [VehicleIds -> Seq(Proof)]
    BY <2>1, <2>2
  <2>5. QED
    BY <1>1, <2>3, <2>4 DEF ProofsInv
<1>5. VehiclesInv
  <2>1. TheVehicle \in Vehicle
    BY PreparedAssumption DEF TheVehicle, Vehicle
  <2>2. vehicles = <<TheVehicle>> /\ vehicleOf = [l \in Listings |-> IF l = Offered THEN 1 ELSE 0]
    BY DEF PreparedInit
  <2> HIDE DEF Vehicle
  <2>3. vehicles \in Seq(Vehicle) /\ Len(vehicles) = 1 /\ DOMAIN vehicles = {1}
    BY <2>1, <2>2, OneElement
  <2>4. Apart(vehicles)
    BY <2>3 DEF Apart
  <2>5. vehicleOf \in [Listings -> 0 .. Len(vehicles)]
    BY <2>2, <2>3
  <2>6. QED
    BY <2>3, <2>4, <2>5 DEF VehiclesInv
<1>6. RequestsInv
  BY DEF PreparedInit, RequestsInv
<1>7. QED
  BY <1>4, <1>5, <1>6 DEF EvidenceInv

LEMMA PreparedStarts == PreparedInit => ShapeInv
<1> SUFFICES ASSUME PreparedInit PROVE ShapeInv
  OBVIOUS
<1>1. RecordsTyped
  <2>1. /\ version = [l \in Listings |-> IF l = Offered THEN 6 ELSE 1]
        /\ draft = [l \in Listings |-> [complete |-> l = Offered, located |-> l = Offered]]
        /\ media = [l \in Listings |-> [o \in Orders |->
                       IF l = Offered /\ o = CHOOSE p \in Orders : TRUE THEN "processing" ELSE "none"]]
        /\ submissions = [l \in Listings |-> <<>>]
        /\ publication = [l \in Listings |-> [moderation |-> "not_started", submitted |-> 0]]
    BY DEF PreparedInit
  <2>2. version \in [Listings -> Nat] /\ media \in [Listings -> [Orders -> MediaStatuses]]
    BY <2>1 DEF MediaStatuses
  <2>3. draft \in [Listings -> [complete : BOOLEAN, located : BOOLEAN]]
    BY <2>1, Zenon
  <2>4. /\ submissions \in [Listings -> Seq(Submission)]
        /\ publication \in [Listings -> [moderation : {"not_started", "pending"}, submitted : Nat]]
    BY <2>1
  <2>5. QED
    BY <2>2, <2>3, <2>4 DEF RecordsTyped
<1>2. ASSUME NEW l \in Listings
      PROVE  RecordsAgree(l) /\ ContentStands(l)
  <2>1. /\ submissions[l] = <<>> /\ version[l] \in Nat
        /\ publication[l] = [moderation |-> "not_started", submitted |-> 0]
    BY <1>1 DEF PreparedInit, RecordsTyped
  <2>2. QED
    BY <2>1 DEF RecordsAgree, ContentStands, LastLives
<1>3. ModerationInv
  BY <1>1, <1>2, PreparedEvidence DEF ModerationInv
<1>4. ClaimsTyped
  BY DEF PreparedInit, NoClaim, ClaimsTyped, ClaimShape, InFlight
<1>5. OwnerTyped
  <2>1. lapsed = 0 /\ ownerActive = TRUE /\ sellerReady = TRUE
    BY DEF PreparedInit
  <2>2. lapsed \in 0 .. MaxProjection
    BY <2>1, OwnershipAssumption
  <2>3. QED
    BY <2>1, <2>2, Zenon DEF OwnerTyped
<1>6. reuses = {} /\ requests = {}
  BY DEF PreparedInit
<1>7. ReusesTyped /\ RequestsTyped
  BY <1>6 DEF ReusesTyped, RequestsTyped
<1>8. QED
  BY <1>3, <1>4, <1>5, <1>7 DEF ShapeInv

LEMMA MarketplaceStarts == MarketplaceInit => MarketplaceInv
<1> SUFFICES ASSUME MarketplaceInit PROVE MarketplaceInv
  OBVIOUS
<1>1. LimiterInv /\ RegistrationInv /\ AccessInv /\ LocksInv
  BY LimiterStarts, RegistrationStarts, AccessStarts, LocksStart DEF MarketplaceInit
<1>2. ShapeInv /\ ServiceInit
  BY ShapeStarts, PreparedStarts DEF MarketplaceInit
<1>3. focus = "identity" => IdentityInv /\ NothingOwned
  <2>1. focus = "identity" => SubmissionInit /\ ServiceInit
    BY DEF MarketplaceInit
  <2>2. SubmissionInit => ProjectionInit
    BY DEF SubmissionInit, OwnershipInit
  <2>3. QED
    BY <2>1, <2>2, IdentityStarts, NothingOwnedStarts DEF IdentityInit
<1>4. QED
  BY <1>1, <1>2, <1>3 DEF MarketplaceInit, MarketplaceInv, EvidencePart

-----------------------------------------------------------------------------
(* The steps. *)

\* Whoever is not running stays as it was.
LEMMA OthersRest ==
  ASSUME MarketplaceInv
  PROVE  /\ UNCHANGED limiterVars => LimiterInv'
         /\ UNCHANGED registrationVars => RegistrationInv'
         /\ UNCHANGED accessVars => AccessInv'
         /\ UNCHANGED locksVars => LocksInv'
  BY LimiterStep, RegistrationStep, AccessStep, LocksStep DEF MarketplaceInv

LEMMA ServiceRests ==
  ASSUME ServiceInit, UNCHANGED identityRest
  PROVE  ServiceInit'
  BY DEF ServiceInit, identityRest

LEMMA OwnershipRests ==
  ASSUME NothingOwned, UNCHANGED <<ownershipRest, contentVars, recordVars>>
  PROVE  NothingOwned'
  BY DEF NothingOwned, SubmissionTypeOK, OwnershipTypeOK, ownershipRest, contentVars, recordVars

LEMMA EvidenceRests ==
  ASSUME EvidencePart, UNCHANGED <<focus, identityRest, submissionVars>>
  PROVE  EvidencePart'
<1>1. /\ UNCHANGED <<projection, ownershipRest, contentVars, recordVars>>
      /\ [SubmissionNext]_submissionVars
  BY DEF submissionVars, ownershipVars, ownershipRest
<1>2. CASE focus = "identity"
  <2>1. IdentityInv'
    <3>1. [IdentityNext]_identityVars
      BY <1>1 DEF identityVars, identityRest
    <3>2. QED
      BY <1>2, <3>1, IdentityStep DEF EvidencePart
  <2>2. NothingOwned'
    BY <1>1, <1>2, OwnershipRests DEF EvidencePart
  <2>3. QED
    BY <1>2, <2>1, <2>2 DEF EvidencePart
<1>3. CASE focus # "identity"
  BY <1>1, <1>3, ShapeStep, ServiceRests DEF EvidencePart
<1>4. QED
  BY <1>2, <1>3

LEMMA MarketplaceStep == MarketplaceInv /\ [MarketplaceNext]_marketplaceVars => MarketplaceInv'
<1> SUFFICES ASSUME MarketplaceInv, [MarketplaceNext]_marketplaceVars
             PROVE  MarketplaceInv'
  OBVIOUS
<1>1. focus \in Focuses /\ EvidencePart
  BY DEF MarketplaceInv
<1>2. CASE /\ focus = "identity"
           /\ IdentityNext
           /\ UNCHANGED <<focus, ownershipRest, contentVars, recordVars, limiterVars, registrationVars,
                          accessVars, locksVars>>
  <2>1. IdentityInv' /\ NothingOwned'
    BY <1>1, <1>2, IdentityStep, OwnershipRests DEF EvidencePart
  <2>2. QED
    BY <1>1, <1>2, <2>1, OthersRest DEF MarketplaceInv, EvidencePart
<1>3. CASE /\ focus \in {"vehicles", "ownership", "submission"}
           /\ SubmissionNext
           /\ UNCHANGED <<focus, identityRest, limiterVars, registrationVars, accessVars, locksVars>>
  <2>1. ShapeInv' /\ ServiceInit'
    BY <1>1, <1>3, ShapeStep, ServiceRests DEF EvidencePart
  <2>2. QED
    BY <1>1, <1>3, <2>1, OthersRest DEF MarketplaceInv, EvidencePart
<1>4. CASE /\ focus \in {"vehicles", "ownership"}
           /\ OwnershipNext
           /\ UNCHANGED <<focus, identityRest, contentVars, recordVars, limiterVars, registrationVars,
                          accessVars, locksVars>>
  <2>1. SubmissionNext
    BY <1>4 DEF SubmissionNext
  <2>2. QED
    BY <1>3, <1>4, <2>1
<1>5. ASSUME UNCHANGED <<focus, identityRest, submissionVars>>
      PROVE  focus' \in Focuses /\ EvidencePart'
  BY <1>1, <1>5, EvidenceRests
<1>6. CASE /\ LimiterNext
           /\ UNCHANGED <<focus, identityRest, submissionVars, registrationVars, accessVars, locksVars>>
  BY <1>5, <1>6, LimiterStep, OthersRest DEF MarketplaceInv
<1>7. CASE /\ RegistrationNext
           /\ UNCHANGED <<focus, identityRest, submissionVars, limiterVars, accessVars, locksVars>>
  BY <1>5, <1>7, RegistrationStep, OthersRest DEF MarketplaceInv
<1>8. CASE /\ AccessNext
           /\ UNCHANGED <<focus, identityRest, submissionVars, limiterVars, registrationVars, locksVars>>
  BY <1>5, <1>8, AccessStep, OthersRest DEF MarketplaceInv
<1>9. CASE /\ LocksNext
           /\ UNCHANGED <<focus, identityRest, submissionVars, limiterVars, registrationVars, accessVars>>
  BY <1>5, <1>9, LocksStep, OthersRest DEF MarketplaceInv
<1>10. CASE UNCHANGED marketplaceVars
  <2>1. UNCHANGED <<focus, identityRest, submissionVars, limiterVars, registrationVars, accessVars, locksVars>>
    BY <1>10 DEF marketplaceVars
  <2>2. QED
    BY <1>5, <2>1, OthersRest DEF MarketplaceInv
<1>11. QED
  BY <1>2, <1>3, <1>4, <1>6, <1>7, <1>8, <1>9, <1>10 DEF MarketplaceNext

LEMMA MarketplaceHolds == MarketplaceSpec => []MarketplaceInv
  BY MarketplaceStarts, MarketplaceStep, PTL DEF MarketplaceSpec

-----------------------------------------------------------------------------
(* What follows. *)

\* The identity service at rest, under a projection others move.
LEMMA ServiceTyped ==
  ASSUME ServiceInit, ProjectionTyped
  PROVE  IdentityTypeOK /\ ProjectionIsNewestAttempt /\ RedeliveryIsDuplicate
<1>1. /\ attempts = <<>> /\ accountActive = TRUE /\ startKeys = [k \in IdentityKeys |-> 0]
      /\ starts = [c \in Starters |-> Idle] /\ sessions = {} /\ verdicts = {}
      /\ announced = NoAnnouncement
  BY DEF ServiceInit
<1>2. projection \in [attempt : Nat, status : AttemptStatuses, version : Nat]
  BY OwnershipAssumption DEF ProjectionTyped
<1>3. announced \in [attempt : 0 .. MaxAttempts, status : AttemptStatuses \cup {"none"}, version : Nat]
  BY <1>1, IdentityAssumption DEF NoAnnouncement
<1>4. accountActive \in BOOLEAN
  BY <1>1, Zenon
<1>5. IdentityTypeOK
  BY <1>1, <1>2, <1>3, <1>4, IdentityAssumption DEF IdentityTypeOK, Idle
<1>6. QED
  BY <1>1, <1>5 DEF ProjectionIsNewestAttempt, RedeliveryIsDuplicate

\* Listings without evidence, whatever the identity.
LEMMA NothingSelected ==
  ASSUME NothingOwned
  PROVE  SelectionIsNewestProof /\ PendingIsLastSubmission /\ RequestsBoundToIdentity
<1>1. ASSUME NEW v \in VehicleIds
      PROVE  /\ \A n \in DOMAIN proofs[v] : n < Len(proofs[v]) => proofs[v][n].superseded
             /\ \A l \in Listings, basis \in Bases :
                   Select(proofs[v], Context(l, basis)).attempt =
                       IF Proves(proofs[v], Context(l, basis)) THEN Len(proofs[v]) ELSE 0
  <2>1. proofs[v] = <<>>
    BY DEF NothingOwned
  <2> HIDE DEF Proof
  <2>2. <<>> \in Seq(Proof) /\ NewestStands(<<>>)
    BY DEF NewestStands
  <2>3. QED
    BY <2>1, <2>2, PolicyFindsNewest DEF NewestStands
<1>2. SelectionIsNewestProof
  BY <1>1 DEF SelectionIsNewestProof
<1>3. PendingIsLastSubmission
  BY DEF NothingOwned, PendingIsLastSubmission
<1>4. QED
  BY <1>2, <1>3 DEF NothingOwned, RequestsBoundToIdentity

LEMMA EvidenceShows ==
  ASSUME EvidencePart
  PROVE  /\ IdentityTypeOK /\ SubmissionTypeOK
         /\ ProjectionIsNewestAttempt /\ RedeliveryIsDuplicate
         /\ SelectionIsNewestProof /\ PendingIsLastSubmission /\ RequestsBoundToIdentity
<1>1. CASE focus = "identity"
  BY <1>1, VerdictsMatch, NothingSelected DEF EvidencePart, IdentityInv, NothingOwned
<1>2. CASE focus # "identity"
  <2>1. ModerationInv /\ EvidenceInv /\ ProjectionTyped /\ ServiceInit /\ SubmissionTypeOK
    BY <1>2, ShapeSafe DEF EvidencePart, ShapeInv, ModerationInv, EvidenceInv, ProofsInv
  <2>2. RequestsBoundToIdentity
    BY <2>1 DEF EvidenceInv, RequestsInv, RequestsBoundToIdentity
  <2>3. QED
    BY <2>1, <2>2, ServiceTyped, SearchesAgree, RecordsShowPending
<1>3. QED
  BY <1>1, <1>2

\* Every component's variables keep their types, wherever its behaviour begins.
THEOREM MarketplaceTypeCorrect == MarketplaceSpec => []MarketplaceTypeOK
<1>1. MarketplaceInv => MarketplaceTypeOK
  BY EvidenceShows
  DEF MarketplaceInv, LimiterInv, RegistrationInv, AccessInv, LocksInv, MarketplaceTypeOK
<1>2. QED
  BY <1>1, MarketplaceHolds, PTL

\* The components' safety invariants hold in the marketplace, for every number of
\* requests, listings, vehicles and transactions: those of accounts and their
\* limits, of the identity, of the evidence and of the submissions, also for a
\* listing that was prepared under an older identity.
THEOREM MarketplaceIsSafe ==
    MarketplaceSpec =>
        [](/\ ProjectionIsNewestAttempt /\ RedeliveryIsDuplicate
           /\ AdmissionsBounded
           /\ OneAccountPerEmail /\ KeysNameTheirAccount
           /\ VersionCountsGrants /\ CachedAccessCurrent
           /\ SelectionIsNewestProof /\ PendingIsLastSubmission /\ RequestsBoundToIdentity
           /\ DeadlocksNeedEvidence /\ MediaWithinLimit)
<1> DEFINE Promises ==
             /\ ProjectionIsNewestAttempt /\ RedeliveryIsDuplicate
             /\ AdmissionsBounded
             /\ OneAccountPerEmail /\ KeysNameTheirAccount
             /\ VersionCountsGrants /\ CachedAccessCurrent
             /\ SelectionIsNewestProof /\ PendingIsLastSubmission /\ RequestsBoundToIdentity
             /\ DeadlocksNeedEvidence /\ MediaWithinLimit
<1>1. ASSUME MarketplaceInv PROVE Promises
  <2>1. LimiterInv /\ RegistrationInv /\ AccessInv /\ LocksInv /\ EvidencePart
    BY <1>1 DEF MarketplaceInv
  <2>2. AdmissionsBounded /\ KeysNameTheirAccount /\ CachedAccessCurrent /\ DeadlocksNeedEvidence
    BY <2>1, BudgetBounds, AnswersMatch, FreshIsCurrent, HighestWaitsForNone
  <2>3. OneAccountPerEmail /\ VersionCountsGrants /\ MediaWithinLimit
    BY <2>1 DEF RegistrationInv, AccessInv, LocksInv
  <2>4. QED
    BY <2>1, <2>2, <2>3, EvidenceShows
<1>2. MarketplaceInv => Promises
  BY <1>1
<1> HIDE DEF Promises
<1>3. MarketplaceSpec => []Promises
  BY <1>2, MarketplaceHolds, PTL
<1>4. QED
  BY <1>3 DEF Promises

\* What a step does to the projection, the attempts and the vehicles.
LEMMA MarketplaceMoves ==
  MarketplaceInv /\ [MarketplaceNext]_marketplaceVars =>
      /\ [ProjectionNext]_projection
      /\ [GrantsFit]_accessVars
      /\ [VerdictsStandStep]_ownershipVars
      /\ [IdentifiersStay]_ownershipVars
<1> SUFFICES ASSUME MarketplaceInv, [MarketplaceNext]_marketplaceVars
             PROVE  /\ ProjectionNext \/ UNCHANGED projection
                    /\ GrantsFit \/ UNCHANGED accessVars
                    /\ VerdictsStandStep \/ UNCHANGED ownershipVars
                    /\ IdentifiersStay \/ UNCHANGED ownershipVars
  OBVIOUS
<1>1. EvidencePart
  BY DEF MarketplaceInv
<1>2. ASSUME focus = "identity", IdentityNext, UNCHANGED ownershipRest
      PROVE  ProjectionNext \/ UNCHANGED projection
  BY <1>1, <1>2, IdentityStep DEF EvidencePart
<1>3. ASSUME focus = "identity", UNCHANGED ownershipRest
      PROVE  VerdictsStandStep /\ IdentifiersStay
  <2>1. NothingOwned /\ UNCHANGED <<proofs, vehicles, vehicleOf>>
    BY <1>1, <1>3 DEF EvidencePart, ownershipRest
  <2>2. VerdictsStandStep
    BY <2>1 DEF NothingOwned, VerdictsStandStep
  <2>3. IdentifiersStay
    BY <2>1 DEF NothingOwned, IdentifiersStay
  <2>4. QED
    BY <2>2, <2>3
<1>4. ASSUME focus # "identity", SubmissionNext
      PROVE  VerdictsStandStep /\ IdentifiersStay
  <2>1. EvidenceInv
    BY <1>1, <1>4 DEF EvidencePart, ShapeInv, ModerationInv
  <2>2. AttemptsStep /\ VehiclesStep
    BY <1>4, <2>1, EvidenceStep
  <2>3. QED
    BY <2>1, <2>2, StandingVerdicts, StayingIdentifiers
<1>5. ASSUME SubmissionNext
      PROVE  ProjectionNext \/ UNCHANGED projection
  BY <1>5, SubmissionMoves
<1>6. OwnershipNext /\ UNCHANGED <<contentVars, recordVars>> => SubmissionNext
  BY DEF SubmissionNext
<1>7. UNCHANGED submissionVars => UNCHANGED ownershipVars /\ UNCHANGED projection
  BY DEF submissionVars, ownershipVars
<1>8. UNCHANGED marketplaceVars => UNCHANGED submissionVars
  BY DEF marketplaceVars
<1>9. GrantsFit \/ UNCHANGED accessVars
  <2>1. AccessNext \/ UNCHANGED accessVars
    BY DEF MarketplaceNext, marketplaceVars
  <2>2. QED
    BY <2>1, FittingGrants DEF MarketplaceInv
<1>10. QED
  BY <1>2, <1>3, <1>4, <1>5, <1>6, <1>7, <1>8, <1>9 DEF MarketplaceNext

\* Together, too, the projection moves only as its readers assume, challenges grant
\* within their attempts, verdicts follow the newest attempt and the valid identity,
\* and no identifier moves between vehicles.
THEOREM MarketplaceMovesSafely ==
    MarketplaceSpec => /\ ProjectionImplemented /\ GrantsWithinTries
                       /\ SupersededNeverVerified /\ VerdictsFollowIdentity /\ VehicleIdentityStable
<1>1. /\ MarketplaceSpec => [][ProjectionNext]_projection
      /\ MarketplaceSpec => [][GrantsFit]_accessVars
      /\ MarketplaceSpec => [][VerdictsStandStep]_ownershipVars
      /\ MarketplaceSpec => [][IdentifiersStay]_ownershipVars
  BY MarketplaceHolds, MarketplaceMoves, PTL DEF MarketplaceSpec
<1>2. VerdictsStandStep =>
        /\ \A v \in VehicleIds : \A n \in DOMAIN proofs[v] :
              proofs'[v][n].status = "verified" /\ proofs[v][n].status # "verified" =>
                  ~proofs[v][n].superseded /\ n = Len(proofs[v])
        /\ \A v \in VehicleIds : \A n \in DOMAIN proofs[v] :
              proofs'[v][n].status = "verified" /\ proofs[v][n].status # "verified" =>
                  IdentityValid /\ proofs[v][n].identity = projection.version
  BY DEF VerdictsStandStep
<1>3. MarketplaceSpec => SupersededNeverVerified /\ VerdictsFollowIdentity
  BY <1>1, <1>2, PTL DEF SupersededNeverVerified, VerdictsFollowIdentity
<1>4. MarketplaceSpec => ProjectionImplemented /\ GrantsWithinTries /\ VehicleIdentityStable
  BY <1>1 DEF ProjectionImplemented, GrantsWithinTries, GrantsFit, Unspent, VehicleIdentityStable,
     IdentifiersStay
<1>5. QED
  BY <1>3, <1>4
=============================================================================
