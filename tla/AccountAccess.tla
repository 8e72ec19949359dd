---------------------------- MODULE AccountAccess ----------------------------
(***************************************************************************)
(* What an account may do, and who changes it: the verification challenges *)
(* of its e-mail and phone, the seller profile, and the capabilities that  *)
(* are derived from them and cached in Redis under the account's           *)
(* authorization version.  Transactions take their row locks one by one;   *)
(* capabilities are read without locks, and cache entries are written and  *)
(* deleted outside any transaction.                                        *)
(***************************************************************************)
EXTENDS Naturals

CONSTANTS
    Callers,   \* requests in flight
    MaxTries,  \* VerificationChallenge.max_attempts
    Nobody     \* holder of a free row

ASSUME AccessAssumption == MaxTries \in Nat \ {0} /\ Nobody \notin Callers

VARIABLES
    account,    \* the users row and whether the seller profile exists
    challenge,  \* verification_challenges by kind
    cached,     \* the Redis entry authz:user:<id>
    locked,     \* [rows -> the request whose transaction locks it, or Nobody]
    work        \* the requests in flight

accessVars == <<account, challenge, cached, locked, work>>

Kinds == {"email", "phone"}
Rows == Kinds \cup {"user"}
NewAccount == [email |-> FALSE, phone |-> FALSE, seller |-> FALSE, version |-> 1,
               status |-> "active"]
NoEntry == [NewAccount EXCEPT !.version = 0]
NoWork == [at |-> "idle", change |-> "none", seen |-> NoEntry]

AccessInit ==
    /\ account = NewAccount
    /\ challenge = [k \in Kinds |-> [tries |-> 0, consumed |-> FALSE, lapsed |-> FALSE]]
    /\ cached = NoEntry
    /\ locked = [r \in Rows |-> Nobody]
    /\ work = [c \in Callers |-> NoWork]

Unlock(c) == locked' = [r \in Rows |-> IF locked[r] = c THEN Nobody ELSE locked[r]]
Proceed(c, at) == work' = [work EXCEPT ![c].at = at]
Done(c) == work' = [work EXCEPT ![c] = NoWork]

Usable(k) ==
    /\ ~challenge[k].consumed
    /\ ~challenge[k].lapsed
    /\ challenge[k].tries < MaxTries

-----------------------------------------------------------------------------
\* Variant of WrongCode: the count is written without the challenge's lock.
WrongCodeUnlocked(c, k) ==
    /\ work[c].at = "idle"
    /\ Usable(k)
    /\ challenge' = [challenge EXCEPT ![k].tries = @ + 1]
    /\ UNCHANGED <<account, cached, locked, work>>

\* A challenge that is not usable rejects any code.  A wrong code is counted
\* in the transaction that holds the challenge; a right one goes on to the user.
WrongCode(c, k) ==
    /\ work[c].at = "idle"
    /\ locked[k] = Nobody
    /\ Usable(k)
    /\ challenge' = [challenge EXCEPT ![k].tries = @ + 1]
    /\ UNCHANGED <<account, cached, locked, work>>

\* Variant of RightCode: the challenge is read without its lock.
RightCodeUnlocked(c, k) ==
    /\ work[c].at = "idle"
    /\ Usable(k)
    /\ UNCHANGED locked
    /\ work' = [work EXCEPT ![c] = [NoWork EXCEPT !.at = "user", !.change = k]]
    /\ UNCHANGED <<account, challenge, cached>>

RightCode(c, k) ==
    /\ work[c].at = "idle"
    /\ locked[k] = Nobody
    /\ Usable(k)
    /\ locked' = [locked EXCEPT ![k] = c]
    /\ work' = [work EXCEPT ![c] = [NoWork EXCEPT !.at = "user", !.change = k]]
    /\ UNCHANGED <<account, challenge, cached>>

CreateSellerProfile(c) ==
    /\ work[c].at = "idle"
    /\ work' = [work EXCEPT ![c] = [NoWork EXCEPT !.at = "user", !.change = "seller"]]
    /\ UNCHANGED <<account, challenge, cached, locked>>

\* SELECT ... FOR UPDATE waits for the row and then reads it.
LockUser(c) ==
    /\ work[c].at = "user"
    /\ locked["user"] = Nobody
    /\ locked' = [locked EXCEPT !["user"] = c]
    /\ work' = [work EXCEPT ![c].at = "grant", ![c].seen = account]
    /\ UNCHANGED <<account, challenge, cached>>

\* A deleted account verifies nothing, one that is not active opens no seller profile.
Permitted(change, status) == IF change = "seller" THEN status = "active" ELSE status # "deleted"

\* The commit: the flag or the seller profile, and the version read plus one.
Grant(c) ==
    LET change == work[c].change
        seen == work[c].seen
    IN
    /\ work[c].at = "grant"
    /\ Unlock(c)
    /\ \/ /\ ~Permitted(change, seen.status)
          /\ Done(c)
          /\ UNCHANGED <<account, challenge>>
       \/ /\ Permitted(change, seen.status)
          /\ Proceed(c, "invalidate")
          /\ account' = IF change = "seller" /\ seen.seller THEN account
                        ELSE [seen EXCEPT ![change] = TRUE, !.version = @ + 1]
          /\ challenge' = IF change \in Kinds
                          THEN [challenge EXCEPT ![change].consumed = TRUE]
                          ELSE challenge
    /\ UNCHANGED cached

\* After the commit the entry is deleted, unless Redis fails.
InvalidateEntry(c) ==
    /\ work[c].at = "invalidate"
    /\ cached' \in {cached, NoEntry}
    /\ Done(c)
    /\ UNCHANGED <<account, challenge, locked>>

-----------------------------------------------------------------------------
\* get_capabilities: the user row, the entry, the seller profile, the store.
ReadAccount(c) ==
    /\ work[c].at = "idle"
    /\ account.status = "active"
    /\ work' = [work EXCEPT ![c] = [NoWork EXCEPT !.at = "lookup", !.seen = account]]
    /\ UNCHANGED <<account, challenge, cached, locked>>

LookUp(c) ==
    /\ work[c].at = "lookup"
    /\ \/ cached.version = work[c].seen.version /\ Done(c)
       \/ Proceed(c, "seller")
    /\ UNCHANGED <<account, challenge, cached, locked>>

ReadSeller(c) ==
    /\ work[c].at = "seller"
    /\ work' = [work EXCEPT ![c].at = "store", ![c].seen.seller = account.seller]
    /\ UNCHANGED <<account, challenge, cached, locked>>

\* Variant of StoreEntry: the entry is stored under the version of now.
StoreEntryAsCurrent(c) ==
    /\ work[c].at = "store"
    /\ cached' \in {cached, [work[c].seen EXCEPT !.version = account.version]}
    /\ Done(c)
    /\ UNCHANGED <<account, challenge, locked>>

StoreEntry(c) ==
    /\ work[c].at = "store"
    /\ cached' \in {cached, work[c].seen}
    /\ Done(c)
    /\ UNCHANGED <<account, challenge, locked>>

-----------------------------------------------------------------------------
\* The entry's ttl passes, the challenge's expires_at passes.
EntryExpires ==
    /\ cached # NoEntry
    /\ cached' = NoEntry
    /\ UNCHANGED <<account, challenge, locked, work>>

ChallengeLapses(k) ==
    /\ ~challenge[k].lapsed
    /\ challenge' = [challenge EXCEPT ![k].lapsed = TRUE]
    /\ UNCHANGED <<account, cached, locked, work>>

\* An operator suspends the account and later deletes it, under the lock of its row.
AccountRestricted ==
    /\ locked["user"] = Nobody
    /\ account.status # "deleted"
    /\ account' = [account EXCEPT !.status = IF @ = "active" THEN "suspended" ELSE "deleted"]
    /\ UNCHANGED <<challenge, cached, locked, work>>

\* The process dies: an open transaction is rolled back.
CallerDies(c) ==
    /\ work[c].at # "idle"
    /\ Unlock(c)
    /\ Done(c)
    /\ UNCHANGED <<account, challenge, cached>>

AccessNext ==
    \/ \E c \in Callers :
          \/ \E k \in Kinds : WrongCode(c, k) \/ RightCode(c, k)
          \/ CreateSellerProfile(c) \/ LockUser(c) \/ Grant(c) \/ InvalidateEntry(c)
          \/ ReadAccount(c) \/ LookUp(c) \/ ReadSeller(c) \/ StoreEntry(c) \/ CallerDies(c)
    \/ \E k \in Kinds : ChallengeLapses(k)
    \/ EntryExpires \/ AccountRestricted

AccessSpec == AccessInit /\ [][AccessNext]_accessVars

-----------------------------------------------------------------------------
Access == [email : BOOLEAN, phone : BOOLEAN, seller : BOOLEAN, version : Nat,
           status : {"active", "suspended", "deleted"}]

\* Every variable has the shape the services give it.
AccessTypeOK ==
    /\ account \in Access
    /\ challenge \in [Kinds -> [tries : 0 .. MaxTries, consumed : BOOLEAN, lapsed : BOOLEAN]]
    /\ cached \in Access
    /\ locked \in [Rows -> Callers \cup {Nobody}]
    /\ work \in [Callers -> [at : {"idle", "user", "grant", "invalidate", "lookup", "seller", "store"},
                             change : Kinds \cup {"seller", "none"}, seen : Access]]

\* Two challenges and the seller profile change one account at once, and no
\* change is lost: the account is verified exactly for the challenges consumed,
\* and its version counts every change once.
VersionCountsGrants ==
    LET granted == {k \in Kinds : account[k]}
        count(flag) == IF flag THEN 1 ELSE 0
    IN
    /\ granted = {k \in Kinds : challenge[k].consumed}
    /\ account.version = 1 + count(account.email) + count(account.phone) + count(account.seller)

\* Wrong codes are counted while a right one waits for the user's row: still a
\* contact is verified at most once, and never by a challenge whose attempts are
\* used up by then.
GrantsWithinTries ==
    [][\A k \in Kinds : account'[k] # account[k] =>
          ~challenge[k].consumed /\ challenge[k].tries < MaxTries]_accessVars

\* An entry that a request would find under the account's current version tells
\* what the account may do now, however the read that filled it was overtaken.
CachedAccessCurrent ==
    cached.version = account.version =>
        /\ cached.email = account.email /\ cached.phone = account.phone
        /\ cached.seller = account.seller
=============================================================================
