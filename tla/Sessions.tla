------------------------------ MODULE Sessions ------------------------------
(***************************************************************************)
(* The account, session and password-recovery operations of the identity   *)
(* module (modules/identity/session_service.py, service.py, repository.py) *)
(* on one account.  PostgreSQL runs them at READ COMMITTED: a transaction  *)
(* locks rows one at a time, each UPDATE works on the rows its own         *)
(* snapshot shows, and nothing it writes is seen before it commits.  So    *)
(* every transaction here takes its row locks in separate steps and writes *)
(* in the step that commits; what other requests hold it waits for, and    *)
(* the database aborts one request of a cycle of waiting ones.             *)
(*                                                                         *)
(* Passwords are hashed outside the transactions, on values read before    *)
(* them.  A stored hash is its password and a serial number: hashing the   *)
(* same password again gives a different hash (a fresh salt), and number 0 *)
(* is the one hash made with outdated parameters.                          *)
(***************************************************************************)
EXTENDS Naturals, FiniteSets, Functions

CONSTANTS
    Clients,          \* concurrent requests
    Families, Tokens, Challenges,   \* ids of rows yet to be created
    UserRow,          \* the account's row in the lock table
    Passwords, None,
    Threshold,        \* login_failure_threshold
    MaxHashes,        \* bound: how many passwords are stored
    Operations        \* bound: the requests and events a run considers

ASSUME ConstantsDistinct ==
    /\ None \notin Clients \cup Families \cup Tokens \cup Challenges \cup Passwords
    /\ UserRow \notin Families \cup Tokens \cup Challenges
    /\ Threshold \in Nat \ {0} /\ MaxHashes \in Nat

VARIABLES
    account,      \* the users row
    family,       \* [Families -> session_families row]
    token,        \* [Tokens -> refresh_sessions row]
    challenge,    \* [Challenges -> password_recovery_challenges row]
    holder,       \* [Rows -> the client whose transaction locked the row]
    req           \* [Clients -> the request being served]

rowVars == <<account, family, token, challenge>>
vars == <<account, family, token, challenge, holder, req>>

Rows == {UserRow} \cup Families \cup Tokens \cup Challenges
Hash == [password : Passwords, number : Nat]
Status == {"active", "suspended", "deleted"}
Account == [hash : Hash, status : Status, failed : 0 .. Threshold, locked : BOOLEAN]
\* "opener" is a history of the model: the password the login presented.
Family == [state : {"absent", "live", "revoked"}, expired : BOOLEAN,
           opener : Passwords \cup {None}]
Token == [family : Families \cup {None}, used : BOOLEAN, revoked : BOOLEAN]
Challenge == [state : {"absent", "open", "consumed"}, expired : BOOLEAN]
Op == {"none", "login", "refresh", "logout", "logout_all", "change", "reset", "recover"}
Step == {"idle", "check", "token", "family", "user", "challenge",
         "tokens", "families", "challenges", "commit"}

\* "late" is whether what the request presents had expired when it took the
\* time; "rows" is what the current statement still has to lock; "tokens",
\* "families" and "challenges" are what the transaction will write.
Request == [op : Op, step : Step, token : Tokens \cup {None},
            family : Families \cup {None}, challenge : Challenges \cup {None},
            presented : Passwords \cup {None}, new : Passwords \cup {None},
            hash : Hash \cup {None}, late : BOOLEAN, rows : SUBSET Rows, tokens : SUBSET Tokens,
            families : SUBSET Families, challenges : SUBSET Challenges]

NoRequest == [op |-> "none", step |-> "idle", token |-> None, family |-> None,
              challenge |-> None, presented |-> None, new |-> None, hash |-> None,
              late |-> FALSE, rows |-> {}, tokens |-> {}, families |-> {}, challenges |-> {}]

Init ==
    /\ account \in [hash : [password : Passwords, number : {0, 1}], status : {"active"},
                    failed : {0}, locked : {FALSE}]
    /\ family = [f \in Families |-> [state |-> "absent", expired |-> FALSE, opener |-> None]]
    /\ token = [t \in Tokens |-> [family |-> None, used |-> FALSE, revoked |-> FALSE]]
    /\ challenge = [h \in Challenges |-> [state |-> "absent", expired |-> FALSE]]
    /\ holder = [r \in Rows |-> None]
    /\ req = [c \in Clients |-> NoRequest]

Absent == {f \in Families : family[f].state = "absent"}
LiveFamilies == {f \in Families : family[f].state = "live"}
Unissued == {t \in Tokens : token[t].family = None}
Unsent == {h \in Challenges : challenge[h].state = "absent"}

----------------------------------------------------------------------------
(* Row locks. *)

At(c, op, step) == req[c].op \in op /\ req[c].step = step
Free(c, r) == holder[r] \in {None, c}
Take(c, r) == Free(c, r) /\ holder' = [holder EXCEPT ![r] = c]
Released(c) == [r \in Rows |-> IF holder[r] = c THEN None ELSE holder[r]]

\* The transaction of c ends, and its request with it.
Done(c) ==
    /\ holder' = Released(c)
    /\ req' = [req EXCEPT ![c] = NoRequest]

\* The rows c waits for.  The audit record of a revocation references the
\* account, whose row must not be locked for update when it is inserted.
Wanted(c) ==
    IF At(c, {"logout", "logout_all"}, "commit") /\ req[c].rows = {}
    THEN {UserRow} ELSE req[c].rows
WaitsFor(c, d) == c # d /\ \E r \in Wanted(c) : holder[r] = d

\* c is on a cycle of requests that wait for each other.
InCycle(c) ==
    \E S \in SUBSET Clients : c \in S /\
        \E next \in Bijection(S, S) : \A d \in S : WaitsFor(d, next[d])

\* The database aborts one of them: nothing it did remains.
Deadlock(c) ==
    /\ InCycle(c)
    /\ Done(c)
    /\ UNCHANGED rowVars

\* The API process or its connection dies: the transaction is rolled back.
Crash(c) ==
    /\ "crash" \in Operations
    /\ req[c].step # "idle"
    /\ Done(c)
    /\ UNCHANGED rowVars

----------------------------------------------------------------------------
(* Requests arrive.  The ones that insert rows arrive while ids are left. *)

InFlight(ops) == Cardinality({c \in Clients : req[c].op \in ops})

Begin(c, r) ==
    /\ req[c].step = "idle"
    /\ r.op \in Operations
    /\ req' = [req EXCEPT ![c] = r]
    /\ UNCHANGED <<account, family, token, challenge, holder>>

\* login reads the candidate hash in a transaction of its own.
Login(c, p) ==
    /\ InFlight({"login"}) < Cardinality(Absent)
    /\ InFlight({"login", "refresh"}) < Cardinality(Unissued)
    /\ Begin(c, [NoRequest EXCEPT !.op = "login", !.step = "check", !.presented = p,
                                  !.hash = account.hash, !.rows = {UserRow}])

\* A refresh that may insert a successor needs an id for it.
Exchangeable(t) ==
    /\ account.status # "deleted" /\ ~token[t].used /\ ~token[t].revoked
    /\ family[token[t].family].state = "live" /\ ~family[token[t].family].expired

\* refresh of an issued token (a hash that matches no row changes nothing).
Refresh(c, t) ==
    /\ token[t].family # None
    /\ Exchangeable(t) => InFlight({"login", "refresh"}) < Cardinality(Unissued)
    /\ Begin(c, [NoRequest EXCEPT !.op = "refresh", !.step = "token", !.token = t,
                                  !.late = family[token[t].family].expired, !.rows = {t}])

\* authenticate_access_token accepts family f, in its own transaction.
Authenticated(f) ==
    account.status = "active" /\ family[f].state = "live" /\ ~family[f].expired

\* logout of the caller's own family, or revoke_session of any of the account.
Logout(c, f, g) ==
    /\ Authenticated(f)
    /\ family[g].state # "absent"
    /\ Begin(c, [NoRequest EXCEPT !.op = "logout", !.step = "family", !.family = g,
                                  !.rows = {g}])

LogoutAll(c, f) ==
    /\ Authenticated(f)
    /\ Begin(c, [NoRequest EXCEPT !.op = "logout_all", !.step = "tokens"])

PasswordWrites == account.hash.number + InFlight({"change", "reset"})

ChangePassword(c, f, p, n) ==
    /\ Authenticated(f)
    /\ PasswordWrites < MaxHashes
    /\ Begin(c, [NoRequest EXCEPT !.op = "change", !.step = "check", !.presented = p,
                                  !.new = n, !.hash = account.hash, !.rows = {UserRow}])

RequestRecovery(c) ==
    /\ InFlight({"recover"}) < Cardinality(Unsent)
    /\ Begin(c, [NoRequest EXCEPT !.op = "recover", !.step = "user", !.rows = {UserRow}])

ResetPassword(c, h, n) ==
    /\ challenge[h].state # "absent"
    /\ PasswordWrites < MaxHashes
    /\ Begin(c, [NoRequest EXCEPT !.op = "reset", !.step = "challenge", !.challenge = h,
                                  !.new = n, !.late = challenge[h].expired, !.rows = {h}])

Arrival(c) ==
    \/ \E p \in Passwords : Login(c, p)
    \/ \E t \in Tokens : Refresh(c, t)
    \/ \E f, g \in Families : Logout(c, f, g)
    \/ \E f \in Families : LogoutAll(c, f)
    \/ \E f \in Families, p, n \in Passwords : ChangePassword(c, f, p, n)
    \/ RequestRecovery(c)
    \/ \E h \in Challenges, n \in Passwords : ResetPassword(c, h, n)

----------------------------------------------------------------------------
(* login: one transaction that locks the account only. *)

Verified(c) == req[c].hash.password = req[c].presented
\* Variant: the password check is trusted although the hash was replaced since.
LoginValidUnchanged(c) == Verified(c) /\ account.status = "active" /\ ~account.locked

LoginValid(c) ==
    /\ Verified(c) /\ account.hash = req[c].hash
    /\ account.status = "active" /\ ~account.locked

Rehashed(h) == IF h.number = 0 THEN [h EXCEPT !.number = 1] ELSE h

LoginAccepted(c, f, t) ==
    /\ At(c, {"login"}, "check") /\ Free(c, UserRow)
    /\ LoginValid(c)
    /\ f \in Absent /\ t \in Unissued
    /\ account' = [account EXCEPT !.failed = 0, !.locked = FALSE,
                                  !.hash = Rehashed(account.hash)]
    /\ family' = [family EXCEPT ![f] = [state |-> "live", expired |-> FALSE,
                                        opener |-> req[c].presented]]
    /\ token' = [token EXCEPT ![t] = [family |-> f, used |-> FALSE, revoked |-> FALSE]]
    /\ Done(c)
    /\ UNCHANGED challenge

\* Failures are counted while the account is not locked; only whether they
\* reach the threshold matters, so the count stops there.
LoginDenied(c) ==
    /\ At(c, {"login"}, "check") /\ Free(c, UserRow)
    /\ ~LoginValid(c)
    /\ IF account.locked THEN UNCHANGED account
       ELSE LET n == IF account.failed < Threshold THEN account.failed + 1 ELSE Threshold
            IN  account' = [account EXCEPT !.failed = n, !.locked = n >= Threshold]
    /\ Done(c)
    /\ UNCHANGED <<family, token, challenge>>

----------------------------------------------------------------------------
(* refresh: SELECT ... FOR UPDATE locks the token, its family, the account. *)

LockToken(c) ==
    /\ At(c, {"refresh"}, "token")
    /\ Take(c, req[c].token)
    /\ LET f == token[req[c].token].family
       IN  req' = [req EXCEPT ![c].step = "family", ![c].family = f, ![c].rows = {f}]
    /\ UNCHANGED rowVars

LockFamily(c) ==
    /\ At(c, {"refresh"}, "family")
    /\ Take(c, req[c].family)
    /\ req' = [req EXCEPT ![c].step = "user", ![c].rows = {UserRow}]
    /\ UNCHANGED rowVars

\* Variant of Usable: a token that was exchanged meanwhile is not refused.
UsableAgain(c) ==
    /\ ~token[req[c].token].revoked
    /\ family[req[c].family].state = "live" /\ ~req[c].late
    /\ account.status = "active"

Usable(c) ==
    /\ ~token[req[c].token].revoked /\ ~token[req[c].token].used
    /\ family[req[c].family].state = "live" /\ ~req[c].late
    /\ account.status = "active"

\* A used token, or a live family of an inactive account: revoke_family.
MustRevoke(c) ==
    \/ token[req[c].token].used
    \/ account.status # "active" /\ family[req[c].family].state = "live"

\* Variant: the successor is filed under its parent's id.
RotateMisfiled(c, u) ==
    /\ At(c, {"refresh"}, "user") /\ Free(c, UserRow)
    /\ Usable(c)
    /\ u \in Unissued
    /\ token' = [token EXCEPT
           ![req[c].token].used = TRUE,
           ![u] = [family |-> req[c].token, used |-> FALSE, revoked |-> FALSE]]
    /\ Done(c)
    /\ UNCHANGED <<account, family, challenge>>

Rotate(c, u) ==
    /\ At(c, {"refresh"}, "user") /\ Free(c, UserRow)
    /\ Usable(c)
    /\ u \in Unissued
    /\ token' = [token EXCEPT
           ![req[c].token].used = TRUE,
           ![u] = [family |-> req[c].family, used |-> FALSE, revoked |-> FALSE]]
    /\ Done(c)
    /\ UNCHANGED <<account, family, challenge>>

RefreshDenied(c) ==
    /\ At(c, {"refresh"}, "user") /\ Free(c, UserRow)
    /\ ~Usable(c) /\ ~MustRevoke(c)
    /\ Done(c)
    /\ UNCHANGED rowVars

RefreshRevokes(c) ==
    /\ At(c, {"refresh"}, "user")
    /\ MustRevoke(c)
    /\ Take(c, UserRow)
    /\ req' = [req EXCEPT ![c].step = "tokens", ![c].rows = {}]
    /\ UNCHANGED rowVars

----------------------------------------------------------------------------
(* logout and revoke_session lock the family first. *)

LogoutLocks(c) ==
    /\ At(c, {"logout"}, "family")
    /\ family[req[c].family].state # "revoked"
    /\ Take(c, req[c].family)
    /\ req' = [req EXCEPT ![c].step = "tokens", ![c].rows = {}]
    /\ UNCHANGED rowVars

LogoutIdle(c) ==
    /\ At(c, {"logout"}, "family") /\ Free(c, req[c].family)
    /\ family[req[c].family].state = "revoked"
    /\ Done(c)
    /\ UNCHANGED rowVars

----------------------------------------------------------------------------
(* The UPDATEs of revoke_family and revoke_user_sessions. *)

Bulk == {"logout_all", "change", "reset"}

TokensToRevoke(c) ==
    {t \in Tokens :
        /\ token[t].family # None /\ ~token[t].revoked
        /\ IF req[c].op \in Bulk THEN family[token[t].family].state = "live"
                                 ELSE token[t].family = req[c].family}

UpdateTokens(c) ==
    /\ req[c].step = "tokens"
    /\ req' = [req EXCEPT
           ![c].step = IF req[c].op \in Bulk THEN "families" ELSE "commit",
           ![c].rows = TokensToRevoke(c), ![c].tokens = TokensToRevoke(c),
           ![c].families = IF req[c].op \in Bulk THEN {} ELSE {req[c].family}]
    /\ UNCHANGED <<account, family, token, challenge, holder>>

UpdateFamilies(c) ==
    /\ req[c].step = "families" /\ req[c].rows = {}
    /\ req' = [req EXCEPT ![c].step = "commit", ![c].rows = LiveFamilies,
                          ![c].families = LiveFamilies]
    /\ UNCHANGED <<account, family, token, challenge, holder>>

\* A bulk statement locks the rows of its snapshot, waiting where it must.
LockRow(c, r) ==
    /\ req[c].step \in {"families", "commit"}
    /\ r \in req[c].rows
    /\ Take(c, r)
    /\ req' = [req EXCEPT ![c].rows = @ \ {r}]
    /\ UNCHANGED rowVars

RevokeRows(c) ==
    /\ family' = [f \in Families |-> IF f \in req[c].families
                                     THEN [family[f] EXCEPT !.state = "revoked"]
                                     ELSE family[f]]
    /\ token' = [t \in Tokens |-> IF t \in req[c].tokens
                                  THEN [token[t] EXCEPT !.revoked = TRUE]
                                  ELSE token[t]]

CommitRevocation(c) ==
    /\ At(c, {"refresh", "logout", "logout_all"}, "commit") /\ req[c].rows = {}
    /\ Free(c, UserRow)
    /\ RevokeRows(c)
    /\ Done(c)
    /\ UNCHANGED <<account, challenge>>

----------------------------------------------------------------------------
(* change_password and reset_password lock the account, then revoke. *)

ChangeValid(c) ==
    Verified(c) /\ account.status = "active" /\ account.hash = req[c].hash

ChangeLocks(c) ==
    /\ At(c, {"change"}, "check")
    /\ ChangeValid(c)
    /\ Take(c, UserRow)
    /\ req' = [req EXCEPT ![c].step = "tokens", ![c].rows = {}]
    /\ UNCHANGED rowVars

ChangeDenied(c) ==
    /\ At(c, {"change"}, "check") /\ Free(c, UserRow)
    /\ ~ChangeValid(c)
    /\ Done(c)
    /\ UNCHANGED rowVars

Acceptable(c) == challenge[req[c].challenge].state = "open" /\ ~req[c].late

ResetLocksChallenge(c) ==
    /\ At(c, {"reset"}, "challenge")
    /\ Acceptable(c)
    /\ Take(c, req[c].challenge)
    /\ req' = [req EXCEPT ![c].step = "user", ![c].rows = {UserRow}]
    /\ UNCHANGED rowVars

ResetLocks(c) ==
    /\ At(c, {"reset"}, "user")
    /\ account.status # "deleted"
    /\ Take(c, UserRow)
    /\ req' = [req EXCEPT ![c].step = "tokens", ![c].rows = {}]
    /\ UNCHANGED rowVars

ResetDenied(c) ==
    /\ \/ /\ At(c, {"reset"}, "challenge") /\ Free(c, req[c].challenge)
          /\ ~Acceptable(c)
       \/ /\ At(c, {"reset"}, "user") /\ Free(c, UserRow)
          /\ account.status = "deleted"
    /\ Done(c)
    /\ UNCHANGED rowVars

\* Variant: the new password is stored and the families are left alone.
CommitPasswordOnly(c) ==
    /\ At(c, {"change", "reset"}, "commit") /\ req[c].rows = {}
    /\ account' = [account EXCEPT
           !.hash = [password |-> req[c].new, number |-> account.hash.number + 1],
           !.failed = 0, !.locked = FALSE]
    /\ challenge' = [h \in Challenges |-> IF h = req[c].challenge
                                          THEN [challenge[h] EXCEPT !.state = "consumed"]
                                          ELSE challenge[h]]
    /\ Done(c)
    /\ UNCHANGED <<family, token>>

CommitPassword(c) ==
    /\ At(c, {"change", "reset"}, "commit") /\ req[c].rows = {}
    /\ account' = [account EXCEPT
           !.hash = [password |-> req[c].new, number |-> account.hash.number + 1],
           !.failed = 0, !.locked = FALSE]
    /\ RevokeRows(c)
    /\ challenge' = [h \in Challenges |-> IF h = req[c].challenge
                                          THEN [challenge[h] EXCEPT !.state = "consumed"]
                                          ELSE challenge[h]]
    /\ Done(c)

----------------------------------------------------------------------------
(* request_recovery: lock the account, consume what is open, issue one. *)

RecoverLocks(c) ==
    /\ At(c, {"recover"}, "user")
    /\ account.status # "deleted"
    /\ Take(c, UserRow)
    /\ req' = [req EXCEPT ![c].step = "challenges", ![c].rows = {}]
    /\ UNCHANGED rowVars

RecoverIgnored(c) ==
    /\ At(c, {"recover"}, "user") /\ Free(c, UserRow)
    /\ account.status = "deleted"
    /\ Done(c)
    /\ UNCHANGED rowVars

UpdateChallenges(c) ==
    /\ At(c, {"recover"}, "challenges")
    /\ LET open == {h \in Challenges : challenge[h].state = "open"}
       IN  req' = [req EXCEPT ![c].step = "commit", ![c].rows = open,
                              ![c].challenges = open]
    /\ UNCHANGED <<account, family, token, challenge, holder>>

\* Variant: earlier challenges stay open.
CommitRecoveryAgain(c, h) ==
    /\ At(c, {"recover"}, "commit") /\ req[c].rows = {}
    /\ h \in Unsent
    /\ challenge' = [challenge EXCEPT ![h] = [state |-> "open", expired |-> FALSE]]
    /\ Done(c)
    /\ UNCHANGED <<account, family, token>>

CommitRecovery(c, h) ==
    /\ At(c, {"recover"}, "commit") /\ req[c].rows = {}
    /\ h \in Unsent
    /\ challenge' = [k \in Challenges |->
           IF k = h THEN [state |-> "open", expired |-> FALSE]
           ELSE IF k \in req[c].challenges THEN [challenge[k] EXCEPT !.state = "consumed"]
           ELSE challenge[k]]
    /\ Done(c)
    /\ UNCHANGED <<account, family, token>>

----------------------------------------------------------------------------
(* Time, and an operator of the database. *)

FamilyExpires(f) ==
    /\ "expiry" \in Operations
    /\ family[f].state # "absent" /\ ~family[f].expired
    /\ family' = [family EXCEPT ![f].expired = TRUE]
    /\ UNCHANGED <<account, token, challenge, holder, req>>

ChallengeExpires(h) ==
    /\ "expiry" \in Operations
    /\ challenge[h].state = "open" /\ ~challenge[h].expired
    /\ challenge' = [challenge EXCEPT ![h].expired = TRUE]
    /\ UNCHANGED <<account, family, token, holder, req>>

\* A login that took the time before the lockout ended still sees it; it is
\* then as if the lockout ended after that login.
LockoutEnds ==
    /\ account.locked
    /\ account' = [account EXCEPT !.locked = FALSE]
    /\ UNCHANGED <<family, token, challenge, holder, req>>

\* No code under src/ writes users.status after registration.
StatusChanges(s) ==
    /\ "status" \in Operations
    /\ holder[UserRow] = None
    /\ account.status # "deleted" /\ s # account.status
    /\ account' = [account EXCEPT !.status = s]
    /\ UNCHANGED <<family, token, challenge, holder, req>>

Environment ==
    \/ \E f \in Families : FamilyExpires(f)
    \/ \E h \in Challenges : ChallengeExpires(h)
    \/ LockoutEnds
    \/ \E s \in Status : StatusChanges(s)

----------------------------------------------------------------------------
ClientStep(c) ==
    \/ Deadlock(c)
    \/ \E f \in Families, t \in Tokens : LoginAccepted(c, f, t)
    \/ LoginDenied(c)
    \/ LockToken(c) \/ LockFamily(c)
    \/ \E u \in Tokens : Rotate(c, u)
    \/ RefreshDenied(c) \/ RefreshRevokes(c)
    \/ LogoutLocks(c) \/ LogoutIdle(c)
    \/ UpdateTokens(c) \/ UpdateFamilies(c)
    \/ \E r \in Rows : LockRow(c, r)
    \/ CommitRevocation(c)
    \/ ChangeLocks(c) \/ ChangeDenied(c)
    \/ ResetLocksChallenge(c) \/ ResetLocks(c) \/ ResetDenied(c)
    \/ CommitPassword(c)
    \/ RecoverLocks(c) \/ RecoverIgnored(c) \/ UpdateChallenges(c)
    \/ \E h \in Challenges : CommitRecovery(c, h)

Next ==
    \/ \E c \in Clients : Arrival(c) \/ ClientStep(c) \/ Crash(c)
    \/ Environment

Spec == Init /\ [][Next]_vars

----------------------------------------------------------------------------
(* Properties. *)

\* Every row and request has its type.
TypeOK ==
    /\ account \in Account
    /\ family \in [Families -> Family]
    /\ token \in [Tokens -> Token]
    /\ challenge \in [Challenges -> Challenge]
    /\ holder \in [Rows -> Clients \cup {None}]
    /\ req \in [Clients -> Request]

\* A family never has two tokens that could still be exchanged: two refreshes
\* of one token, in whatever order their row locks are granted, leave one
\* successor (SessionService.refresh).
OneUnusedToken ==
    \A t, u \in Tokens :
        /\ token[t].family # None /\ token[t].family = token[u].family
        /\ ~token[t].used /\ ~token[u].used
        => t = u

\* A family that is live was opened with the password that is stored: a login
\* whose password check ran before a change or a reset commits after it only
\* to be refused, and a change or reset misses no family
\* (SessionService.login, change_password, IdentityService.reset_password).
LiveFamiliesKnowPassword ==
    \A f \in LiveFamilies : family[f].opener = account.hash.password

\* At most one recovery challenge can be used, so the token of an earlier
\* request cannot undo a later reset (IdentityService.request_recovery).
OneOpenChallenge ==
    \A h, k \in Challenges :
        challenge[h].state = "open" /\ challenge[k].state = "open" => h = k

\* The transactions, with their locks, stale reads and rollbacks, implement
\* the one-step operations of SessionFamily.
Atomic == INSTANCE SessionFamily WITH
    secret <- account.hash.password,
    state <- [f \in Families |-> family[f].state],
    opener <- [f \in Families |-> family[f].opener],
    owner <- [t \in Tokens |-> token[t].family],
    spent <- {t \in Tokens : token[t].used}
AtomicSpec == Atomic!Spec

\* docs/observability-testing.md:78: of two refreshes of one token the other
\* is "family-revoking replay".  A refresh that found its token used, and was
\* neither cut off by a crash nor is still running, has revoked the family.
ReplayRevokes ==
    [][\A c \in Clients :
        /\ At(c, {"refresh"}, "commit") /\ token[req[c].token].used
        /\ req[c]'.step = "idle"
        => family'[req[c].family].state = "revoked"]_vars
=============================================================================
