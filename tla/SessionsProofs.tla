--------------------------- MODULE SessionsProofs ---------------------------
(***************************************************************************)
(* What Sessions guarantees for every number of requests, families, tokens *)
(* and challenges.  A commit may rely on what its transaction read earlier *)
(* because of the rows it keeps locked: the inductive invariant says which *)
(* requests hold the account's row, and that what such a request is about  *)
(* to revoke or consume is still everything there is.                      *)
(***************************************************************************)
EXTENDS Sessions, TLAPS

\* An issued token belongs to a family that exists; one that is not is unused.
TokensFiled ==
    \A t \in Tokens :
        IF token[t].family = None THEN ~token[t].used
        ELSE family[token[t].family].state # "absent"

\* What a request carries from one step to the next.
RequestShape(c) ==
    /\ req[c].step = "tokens" => req[c].op \in {"refresh", "logout"} \cup Bulk
    /\ req[c].step = "families" => req[c].op \in Bulk
    /\ req[c].op = "refresh" =>
         req[c].token \in Tokens /\ token[req[c].token].family \in Families
    /\ req[c].op = "refresh" /\ req[c].step # "token" =>
         req[c].family = token[req[c].token].family
    /\ req[c].op = "logout" =>
         req[c].family \in Families /\ family[req[c].family].state # "absent"
    /\ req[c].op \in {"change", "reset"} => req[c].new \in Passwords
    /\ \A f \in req[c].families : family[f].state # "absent"
RequestsShaped == \A c \in Clients : RequestShape(c)

\* The requests that write the account's secrets keep its row locked.
Writing(c) ==
    /\ req[c].op \in {"change", "reset", "recover"}
    /\ req[c].step \in {"tokens", "families", "challenges", "commit"}
WritersLock == \A c \in Clients : Writing(c) => holder[UserRow] = c

\* So no login and no recovery adds to what they found.
Covered(c) ==
    /\ At(c, {"change", "reset"}, "commit") => LiveFamilies \subseteq req[c].families
    /\ At(c, {"recover"}, "commit") =>
         {h \in Challenges : challenge[h].state = "open"} \subseteq req[c].challenges
AllCovered == \A c \in Clients : Covered(c)

SessionInv ==
    /\ TypeOK /\ TokensFiled /\ RequestsShaped /\ WritersLock /\ AllCovered
    /\ OneUnusedToken /\ LiveFamiliesKnowPassword /\ OneOpenChallenge

-----------------------------------------------------------------------------
(* Types.                                                                  *)

LEMMA InitTypeOK == Init => TypeOK
<1> SUFFICES ASSUME Init PROVE TypeOK
  OBVIOUS
<1>1. account \in Account
  <2>1. 0 \in 0 .. Threshold
    BY ConstantsDistinct
  <2>2. {0, 1} \subseteq Nat
    OBVIOUS
  <2>3. QED
    BY <2>1, <2>2 DEF Init, Account, Hash, Status
<1>2. /\ family \in [Families -> Family] /\ token \in [Tokens -> Token]
      /\ challenge \in [Challenges -> Challenge]
  BY DEF Init, Family, Token, Challenge
<1>3. holder \in [Rows -> Clients \cup {None}]
  BY DEF Init
<1>4. req \in [Clients -> Request]
  BY DEF Init, NoRequest, Request, Op, Step
<1>5. QED
  BY <1>1, <1>2, <1>3, <1>4 DEF TypeOK

\* What ends, starts or locks keeps the tables it touches typed.
LEMMA DoneTyped ==
  ASSUME TypeOK, NEW c \in Clients, Done(c)
  PROVE  holder' \in [Rows -> Clients \cup {None}] /\ req' \in [Clients -> Request]
<1>1. NoRequest \in Request
  BY DEF NoRequest, Request, Op, Step
<1>2. QED
  BY <1>1 DEF TypeOK, Done, Released

LEMMA TakeTyped ==
  ASSUME TypeOK, NEW c \in Clients, NEW r, Take(c, r)
  PROVE  holder' \in [Rows -> Clients \cup {None}]
  BY DEF TypeOK, Take

LEMMA ArrivalTypeOK ==
  ASSUME TypeOK, NEW c \in Clients, Arrival(c)
  PROVE  TypeOK'
<1> USE DEF TypeOK
<1>n. NoRequest \in Request
  BY DEF NoRequest, Request, Op, Step
<1>b. ASSUME NEW r \in Request, Begin(c, r) PROVE TypeOK'
  BY <1>b DEF Begin
<1>h. account.hash \in Hash /\ UserRow \in Rows /\ Tokens \subseteq Rows
      /\ Families \subseteq Rows /\ Challenges \subseteq Rows
  BY DEF Account, Rows
<1>1. ASSUME NEW p \in Passwords, Login(c, p) PROVE TypeOK'
  <2>1. [NoRequest EXCEPT !.op = "login", !.step = "check", !.presented = p,
                          !.hash = account.hash, !.rows = {UserRow}] \in Request
    BY <1>n, <1>h DEF Request, Op, Step
  <2>2. QED
    BY <2>1, <1>1, <1>b DEF Login
<1>2. ASSUME NEW t \in Tokens, Refresh(c, t) PROVE TypeOK'
  <2>1. token[t].family \in Families
    BY <1>2 DEF Refresh, Token
  <2>2. family[token[t].family].expired \in BOOLEAN
    BY <2>1 DEF Family
  <2>3. [NoRequest EXCEPT !.op = "refresh", !.step = "token", !.token = t,
                          !.late = family[token[t].family].expired, !.rows = {t}] \in Request
    BY <1>n, <1>h, <2>2 DEF Request, Op, Step
  <2>4. QED
    BY <2>3, <1>2, <1>b DEF Refresh
<1>3. ASSUME NEW f \in Families, NEW g \in Families, Logout(c, f, g) PROVE TypeOK'
  <2>1. [NoRequest EXCEPT !.op = "logout", !.step = "family", !.family = g,
                          !.rows = {g}] \in Request
    BY <1>n, <1>h DEF Request, Op, Step
  <2>2. QED
    BY <2>1, <1>3, <1>b DEF Logout
<1>4. ASSUME NEW f \in Families, LogoutAll(c, f) PROVE TypeOK'
  <2>1. [NoRequest EXCEPT !.op = "logout_all", !.step = "tokens"] \in Request
    BY <1>n DEF Request, Op, Step
  <2>2. QED
    BY <2>1, <1>4, <1>b DEF LogoutAll
<1>5. ASSUME NEW f \in Families, NEW p \in Passwords, NEW n \in Passwords,
             ChangePassword(c, f, p, n)
      PROVE  TypeOK'
  <2>1. [NoRequest EXCEPT !.op = "change", !.step = "check", !.presented = p,
                          !.new = n, !.hash = account.hash, !.rows = {UserRow}] \in Request
    BY <1>n, <1>h DEF Request, Op, Step
  <2>2. QED
    BY <2>1, <1>5, <1>b DEF ChangePassword
<1>6. ASSUME RequestRecovery(c) PROVE TypeOK'
  <2>1. [NoRequest EXCEPT !.op = "recover", !.step = "user", !.rows = {UserRow}] \in Request
    BY <1>n, <1>h DEF Request, Op, Step
  <2>2. QED
    BY <2>1, <1>6, <1>b DEF RequestRecovery
<1>7. ASSUME NEW h \in Challenges, NEW n \in Passwords, ResetPassword(c, h, n)
      PROVE  TypeOK'
  <2>1. challenge[h].expired \in BOOLEAN
    BY DEF Challenge
  <2>2. [NoRequest EXCEPT !.op = "reset", !.step = "challenge", !.challenge = h,
                          !.new = n, !.late = challenge[h].expired, !.rows = {h}] \in Request
    BY <1>n, <1>h, <2>1 DEF Request, Op, Step
  <2>3. QED
    BY <2>2, <1>7, <1>b DEF ResetPassword
<1>8. QED
  BY <1>1, <1>2, <1>3, <1>4, <1>5, <1>6, <1>7 DEF Arrival

\* A request that moves on keeps its record typed.
LEMMA RequestMoves ==
  ASSUME TypeOK, NEW c \in Clients, NEW q \in Request, req' = [req EXCEPT ![c] = q]
  PROVE  req' \in [Clients -> Request]
  BY DEF TypeOK

\* The writes of a revoking transaction.
LEMMA RevokeRowsTyped ==
  ASSUME TypeOK, NEW c \in Clients, RevokeRows(c)
  PROVE  family' \in [Families -> Family] /\ token' \in [Tokens -> Token]
<1>1. ASSUME NEW f \in Families PROVE [family[f] EXCEPT !.state = "revoked"] \in Family
  BY DEF TypeOK, Family
<1>2. ASSUME NEW t \in Tokens PROVE [token[t] EXCEPT !.revoked = TRUE] \in Token
  BY DEF TypeOK, Token
<1>3. family' \in [Families -> Family]
  BY <1>1 DEF TypeOK, RevokeRows
<1>4. token' \in [Tokens -> Token]
  BY <1>2 DEF TypeOK, RevokeRows
<1>5. QED
  BY <1>3, <1>4

LEMMA ClientTypeOK ==
  ASSUME TypeOK, RequestsShaped, NEW c \in Clients, ClientStep(c) \/ Crash(c)
  PROVE  TypeOK'
<1> USE DEF TypeOK
<1>q. req[c] \in Request /\ RequestShape(c)
  BY DEF RequestsShaped
<1>r. /\ UserRow \in Rows /\ Tokens \subseteq Rows /\ Families \subseteq Rows
      /\ Challenges \subseteq Rows
  BY DEF Rows
<1>d. ASSUME Done(c), UNCHANGED rowVars PROVE TypeOK'
  BY <1>d, DoneTyped DEF rowVars
<1>t. ASSUME NEW r, Take(c, r), NEW rows \in SUBSET Rows, NEW step \in Step,
             req' = [req EXCEPT ![c].step = step, ![c].rows = rows], UNCHANGED rowVars
      PROVE  TypeOK'
  <2>1. req' \in [Clients -> Request]
    BY <1>t, <1>q DEF Request
  <2>2. QED
    BY <1>t, <2>1, TakeTyped DEF rowVars
<1>1. ASSUME Deadlock(c) \/ Crash(c) \/ RefreshDenied(c) \/ LogoutIdle(c) \/ ChangeDenied(c)
             \/ ResetDenied(c) \/ RecoverIgnored(c)
      PROVE  TypeOK'
  BY <1>1, <1>d DEF Deadlock, Crash, RefreshDenied, LogoutIdle, ChangeDenied, ResetDenied,
                    RecoverIgnored
<1>2. ASSUME NEW f \in Families, NEW t \in Tokens, LoginAccepted(c, f, t) PROVE TypeOK'
  <2>1. account' \in Account
    <3>1. Rehashed(account.hash) \in Hash
      BY DEF Rehashed, Account, Hash
    <3>2. 0 \in 0 .. Threshold
      BY ConstantsDistinct
    <3>3. QED
      BY <1>2, <3>1, <3>2 DEF LoginAccepted, Account
  <2>2. family' \in [Families -> Family]
    <3>1. req[c].presented \in Passwords \cup {None}
      BY <1>q DEF Request
    <3>2. QED
      BY <1>2, <3>1 DEF LoginAccepted, Family
  <2>3. token' \in [Tokens -> Token]
    BY <1>2 DEF LoginAccepted, Token
  <2>4. QED
    BY <1>2, <2>1, <2>2, <2>3, DoneTyped DEF LoginAccepted
<1>3. ASSUME LoginDenied(c) PROVE TypeOK'
  <2>1. account' \in Account
    <3>1. account.failed \in 0 .. Threshold
      BY DEF Account
    <3> DEFINE n == IF account.failed < Threshold THEN account.failed + 1 ELSE Threshold
    <3>2. n \in 0 .. Threshold
      BY <3>1, ConstantsDistinct
    <3>3. account' = account \/ account' = [account EXCEPT !.failed = n, !.locked = n >= Threshold]
      BY <1>3 DEF LoginDenied
    <3> DEFINE b == n >= Threshold
    <3>b. b \in BOOLEAN
      OBVIOUS
    <3>c. account' = account \/ account' = [account EXCEPT !.failed = n, !.locked = b]
      BY <3>3
    <3> HIDE DEF n, b
    <3>4. QED
      BY <3>2, <3>b, <3>c DEF Account
  <2>2. QED
    BY <1>3, <2>1, DoneTyped DEF LoginDenied
<1>4. ASSUME LockToken(c) PROVE TypeOK'
  <2> DEFINE f == token[req[c].token].family
  <2>1. f \in Families
    BY <1>4, <1>q DEF LockToken, At, RequestShape
  <2>2. req' = [req EXCEPT ![c].step = "family", ![c].family = f, ![c].rows = {f}]
    BY <1>4 DEF LockToken
  <2> HIDE DEF f
  <2>a. [req[c] EXCEPT !.step = "family", !.family = f, !.rows = {f}] \in Request
    BY <2>1, <1>q, <1>r DEF Request, Step
  <2>b. req' = [req EXCEPT ![c] = [req[c] EXCEPT !.step = "family", !.family = f, !.rows = {f}]]
    BY <2>2
  <2>3. req' \in [Clients -> Request]
    BY <2>a, <2>b, RequestMoves
  <2>4. QED
    BY <1>4, <2>3, TakeTyped DEF LockToken, rowVars
<1>5. ASSUME LockFamily(c) PROVE TypeOK'
  BY <1>5, <1>t, <1>r DEF LockFamily, Step
<1>6. ASSUME NEW u \in Tokens, Rotate(c, u) PROVE TypeOK'
  <2>1. req[c].family \in Families \cup {None}
    BY <1>q DEF Request
  <2>2. token' \in [Tokens -> Token]
    BY <1>6, <2>1 DEF Rotate, Token
  <2>3. QED
    BY <1>6, <2>2, DoneTyped DEF Rotate
<1>7. ASSUME RefreshRevokes(c) \/ LogoutLocks(c) \/ ChangeLocks(c) \/ ResetLocks(c)
             \/ RecoverLocks(c)
      PROVE  TypeOK'
  BY <1>7, <1>t DEF RefreshRevokes, LogoutLocks, ChangeLocks, ResetLocks, RecoverLocks, Step
<1>8. ASSUME UpdateTokens(c) PROVE TypeOK'
  <2> DEFINE step == IF req[c].op \in Bulk THEN "families" ELSE "commit"
             fs == IF req[c].op \in Bulk THEN {} ELSE {req[c].family}
             ts == TokensToRevoke(c)
  <2>1. ts \in SUBSET Tokens
    BY DEF TokensToRevoke
  <2>2. fs \in SUBSET Families
    BY <1>8, <1>q DEF UpdateTokens, RequestShape, Request, Step, Token
  <2>3. step \in Step
    BY DEF Step
  <2>4. req' = [req EXCEPT ![c].step = step, ![c].rows = ts, ![c].tokens = ts, ![c].families = fs]
    BY <1>8 DEF UpdateTokens
  <2> HIDE DEF step, fs, ts
  <2>a. [req[c] EXCEPT !.step = step, !.rows = ts, !.tokens = ts, !.families = fs] \in Request
    BY <2>1, <2>2, <2>3, <1>q, <1>r DEF Request
  <2>b. req' = [req EXCEPT ![c] = [req[c] EXCEPT !.step = step, !.rows = ts, !.tokens = ts,
                                                 !.families = fs]]
    BY <2>4
  <2>5. req' \in [Clients -> Request]
    BY <2>a, <2>b, RequestMoves
  <2>6. QED
    BY <1>8, <2>5 DEF UpdateTokens
<1>9. ASSUME UpdateFamilies(c) PROVE TypeOK'
  <2>1. LiveFamilies \in SUBSET Families
    BY DEF LiveFamilies
  <2> DEFINE live == LiveFamilies
  <2>2. req' = [req EXCEPT ![c].step = "commit", ![c].rows = live, ![c].families = live]
    BY <1>9 DEF UpdateFamilies
  <2>3. live \in SUBSET Families
    BY <2>1
  <2> HIDE DEF live
  <2>a. [req[c] EXCEPT !.step = "commit", !.rows = live, !.families = live] \in Request
    BY <2>3, <1>q, <1>r DEF Request, Step
  <2>b. req' = [req EXCEPT ![c] = [req[c] EXCEPT !.step = "commit", !.rows = live,
                                                 !.families = live]]
    BY <2>2
  <2>4. req' \in [Clients -> Request]
    BY <2>a, <2>b, RequestMoves
  <2>5. QED
    BY <1>9, <2>4 DEF UpdateFamilies
<1>10. ASSUME NEW r \in Rows, LockRow(c, r) PROVE TypeOK'
  <2>1. req[c].rows \ {r} \in SUBSET Rows
    BY <1>q DEF Request
  <2>2. req' \in [Clients -> Request]
    BY <1>10, <2>1, <1>q DEF LockRow, Request
  <2>3. QED
    BY <1>10, <2>2, TakeTyped DEF LockRow, rowVars
<1>11. ASSUME CommitRevocation(c) PROVE TypeOK'
  BY <1>11, RevokeRowsTyped, DoneTyped DEF CommitRevocation
<1>12. ASSUME ResetLocksChallenge(c) PROVE TypeOK'
  BY <1>12, <1>t, <1>r DEF ResetLocksChallenge, Step
<1>13. ASSUME CommitPassword(c) PROVE TypeOK'
  <2>1. req[c].new \in Passwords
    BY <1>13, <1>q DEF CommitPassword, At, RequestShape
  <2>2. account' \in Account
    <3>1. account.hash.number + 1 \in Nat
      BY DEF Account, Hash
    <3>2. [password |-> req[c].new, number |-> account.hash.number + 1] \in Hash
      BY <2>1, <3>1 DEF Hash
    <3>3. 0 \in 0 .. Threshold
      BY ConstantsDistinct
    <3>4. QED
      BY <1>13, <3>2, <3>3 DEF CommitPassword, Account
  <2>3. challenge' \in [Challenges -> Challenge]
    BY <1>13 DEF CommitPassword, Challenge
  <2>4. QED
    BY <1>13, <2>2, <2>3, RevokeRowsTyped, DoneTyped DEF CommitPassword
<1>14. ASSUME UpdateChallenges(c) PROVE TypeOK'
  <2> DEFINE open == {h \in Challenges : challenge[h].state = "open"}
  <2>1. open \in SUBSET Challenges
    OBVIOUS
  <2>2. req' = [req EXCEPT ![c].step = "commit", ![c].rows = open, ![c].challenges = open]
    BY <1>14 DEF UpdateChallenges
  <2> HIDE DEF open
  <2>a. [req[c] EXCEPT !.step = "commit", !.rows = open, !.challenges = open] \in Request
    BY <2>1, <1>q, <1>r DEF Request, Step
  <2>b. req' = [req EXCEPT ![c] = [req[c] EXCEPT !.step = "commit", !.rows = open,
                                                 !.challenges = open]]
    BY <2>2
  <2>3. req' \in [Clients -> Request]
    BY <2>a, <2>b, RequestMoves
  <2>4. QED
    BY <1>14, <2>3 DEF UpdateChallenges
<1>15. ASSUME NEW h \in Challenges, CommitRecovery(c, h) PROVE TypeOK'
  <2>1. challenge' \in [Challenges -> Challenge]
    BY <1>15 DEF CommitRecovery, Challenge
  <2>2. QED
    BY <1>15, <2>1, DoneTyped DEF CommitRecovery
<1>16. QED
  BY <1>1, <1>2, <1>3, <1>4, <1>5, <1>6, <1>7, <1>8, <1>9, <1>10, <1>11, <1>12, <1>13, <1>14,
     <1>15 DEF ClientStep

LEMMA EnvironmentTypeOK ==
  ASSUME TypeOK, Environment
  PROVE  TypeOK'
<1> USE DEF TypeOK
<1>1. ASSUME NEW f \in Families, FamilyExpires(f) PROVE TypeOK'
  BY <1>1 DEF FamilyExpires, Family
<1>2. ASSUME NEW h \in Challenges, ChallengeExpires(h) PROVE TypeOK'
  BY <1>2 DEF ChallengeExpires, Challenge
<1>3. ASSUME LockoutEnds PROVE TypeOK'
  BY <1>3 DEF LockoutEnds, Account
<1>4. ASSUME NEW s \in Status, StatusChanges(s) PROVE TypeOK'
  BY <1>4 DEF StatusChanges, Account
<1>5. QED
  BY <1>1, <1>2, <1>3, <1>4 DEF Environment

LEMMA NextTypeOK ==
  ASSUME TypeOK, RequestsShaped, [Next]_vars
  PROVE  TypeOK'
<1>1. CASE Next
  BY <1>1, ArrivalTypeOK, ClientTypeOK, EnvironmentTypeOK DEF Next
<1>2. CASE UNCHANGED vars
  BY <1>2 DEF vars, TypeOK
<1>3. QED
  BY <1>1, <1>2

-----------------------------------------------------------------------------
(* What a step of one request leaves of the others, and of the tables.     *)

LEMMA OthersKept ==
  ASSUME TypeOK, NEW c \in Clients, Arrival(c) \/ ClientStep(c) \/ Crash(c),
         NEW d \in Clients, d # c
  PROVE  req'[d] = req[d] /\ \A r \in Rows : holder[r] = d => holder'[r] = d
<1> USE DEF TypeOK
<1>d. ASSUME Done(c) PROVE req'[d] = req[d] /\ \A r \in Rows : holder[r] = d => holder'[r] = d
  BY <1>d DEF Done, Released
<1>t. ASSUME NEW r, Take(c, r) PROVE \A s \in Rows : holder[s] = d => holder'[s] = d
  BY <1>t, ConstantsDistinct DEF Take, Free
<1>1. CASE Arrival(c)
  <2>1. ASSUME NEW q, Begin(c, q) PROVE req'[d] = req[d] /\ holder' = holder
    BY <2>1 DEF Begin
  <2>2. QED
    BY <1>1, <2>1 DEF Arrival, Login, Refresh, Logout, LogoutAll, ChangePassword, RequestRecovery,
                      ResetPassword
<1>2. CASE Crash(c)
  BY <1>2, <1>d DEF Crash
<1>3. CASE ClientStep(c)
  <2>1. CASE \/ Deadlock(c) \/ LoginDenied(c) \/ RefreshDenied(c) \/ LogoutIdle(c)
             \/ CommitRevocation(c) \/ ChangeDenied(c) \/ ResetDenied(c) \/ CommitPassword(c)
             \/ RecoverIgnored(c)
             \/ \E f \in Families, t \in Tokens : LoginAccepted(c, f, t)
             \/ \E u \in Tokens : Rotate(c, u)
             \/ \E h \in Challenges : CommitRecovery(c, h)
    BY <2>1, <1>d DEF Deadlock, LoginDenied, RefreshDenied, LogoutIdle, CommitRevocation,
                      ChangeDenied, ResetDenied, CommitPassword, RecoverIgnored, LoginAccepted,
                      Rotate, CommitRecovery
  <2>2. CASE \/ LockToken(c) \/ LockFamily(c) \/ RefreshRevokes(c) \/ LogoutLocks(c)
             \/ ChangeLocks(c) \/ ResetLocksChallenge(c) \/ ResetLocks(c) \/ RecoverLocks(c)
             \/ \E r \in Rows : LockRow(c, r)
    <3>1. \A s \in Rows : holder[s] = d => holder'[s] = d
      BY <2>2, <1>t DEF LockToken, LockFamily, RefreshRevokes, LogoutLocks, ChangeLocks,
                        ResetLocksChallenge, ResetLocks, RecoverLocks, LockRow
    <3>2. req'[d] = req[d]
      BY <2>2 DEF LockToken, LockFamily, RefreshRevokes, LogoutLocks, ChangeLocks,
                  ResetLocksChallenge, ResetLocks, RecoverLocks, LockRow
    <3>3. QED
      BY <3>1, <3>2
  <2>3. CASE UpdateTokens(c) \/ UpdateFamilies(c) \/ UpdateChallenges(c)
    BY <2>3 DEF UpdateTokens, UpdateFamilies, UpdateChallenges
  <2>4. QED
    BY <1>3, <2>1, <2>2, <2>3 DEF ClientStep
<1>4. QED
  BY <1>1, <1>2, <1>3

LEMMA ArrivalSteps ==
  ASSUME TypeOK, NEW c \in Clients, Arrival(c)
  PROVE  /\ req'[c].step \in {"check", "token", "family", "tokens", "user", "challenge"}
         /\ req'[c].step = "tokens" => req'[c].op = "logout_all"
<1> DEFINE Started == /\ req'[c].step \in {"check", "token", "family", "tokens", "user", "challenge"}
                      /\ req'[c].step = "tokens" => req'[c].op = "logout_all"
<1>b. ASSUME NEW q, Begin(c, q) PROVE req'[c] = q
  BY <1>b DEF Begin, TypeOK
<1>1. ASSUME NEW p \in Passwords, Login(c, p) PROVE Started
  BY ZenonT(30), <1>1, <1>b DEF Login, NoRequest
<1>2. ASSUME NEW t \in Tokens, Refresh(c, t) PROVE Started
  BY ZenonT(30), <1>2, <1>b DEF Refresh, NoRequest
<1>3. ASSUME NEW f \in Families, NEW g \in Families, Logout(c, f, g) PROVE Started
  BY <1>3, <1>b DEF Logout, NoRequest
<1>4. ASSUME NEW f \in Families, LogoutAll(c, f) PROVE Started
  BY <1>4, <1>b DEF LogoutAll, NoRequest
<1>5. ASSUME NEW f \in Families, NEW p \in Passwords, NEW n \in Passwords,
             ChangePassword(c, f, p, n)
      PROVE  Started
  BY ZenonT(30), <1>5, <1>b DEF ChangePassword, NoRequest
<1>6. ASSUME RequestRecovery(c) PROVE Started
  BY <1>6, <1>b DEF RequestRecovery, NoRequest
<1>7. ASSUME NEW h \in Challenges, NEW n \in Passwords, ResetPassword(c, h, n) PROVE Started
  BY ZenonT(30), <1>7, <1>b DEF ResetPassword, NoRequest
<1>8. QED
  BY <1>1, <1>2, <1>3, <1>4, <1>5, <1>6, <1>7 DEF Arrival

\* Only four steps write families or tokens.
LEMMA TablesKept ==
  ASSUME TypeOK, [Next]_vars
  PROVE  \/ UNCHANGED <<account, family, token>>
         \/ \E c \in Clients, f \in Families, t \in Tokens : LoginAccepted(c, f, t)
         \/ \E c \in Clients, u \in Tokens : Rotate(c, u)
         \/ \E c \in Clients : CommitRevocation(c) \/ CommitPassword(c)
         \/ /\ UNCHANGED token /\ account'.hash = account.hash
            /\ \/ UNCHANGED family
               \/ \E f \in Families : family' = [family EXCEPT ![f].expired = TRUE]
<1>1. ASSUME NEW c \in Clients, Arrival(c) PROVE UNCHANGED <<account, family, token>>
  BY <1>1 DEF Arrival, Begin, Login, Refresh, Logout, LogoutAll, ChangePassword, RequestRecovery,
              ResetPassword
<1>2. ASSUME NEW c \in Clients, ClientStep(c),
             ~(\E f \in Families, t \in Tokens : LoginAccepted(c, f, t)),
             ~(\E u \in Tokens : Rotate(c, u)), ~CommitRevocation(c), ~CommitPassword(c)
      PROVE  UNCHANGED <<family, token>> /\ account'.hash = account.hash
  <2>1. CASE LoginDenied(c)
    <3>1. account' = account \/ \E n, b : account' = [account EXCEPT !.failed = n, !.locked = b]
      BY <2>1 DEF LoginDenied
    <3>2. account'.hash = account.hash
      BY <3>1 DEF TypeOK, Account
    <3>3. QED
      BY <2>1, <3>2 DEF LoginDenied
  <2>2. CASE ~LoginDenied(c)
    BY <1>2, <2>2 DEF ClientStep, Deadlock, RefreshDenied, LogoutIdle, ChangeDenied, ResetDenied,
       RecoverIgnored, CommitRecovery, LockToken, LockFamily, RefreshRevokes, LogoutLocks,
       ChangeLocks, ResetLocksChallenge, ResetLocks, RecoverLocks, LockRow, UpdateTokens,
       UpdateFamilies, UpdateChallenges, rowVars
  <2>3. QED
    BY <2>1, <2>2
<1>3. ASSUME NEW c \in Clients, Crash(c) PROVE UNCHANGED <<account, family, token>>
  BY <1>3 DEF Crash, rowVars
<1>4. ASSUME Environment
      PROVE  /\ UNCHANGED token /\ account'.hash = account.hash
             /\ \/ UNCHANGED family
                \/ \E f \in Families : family' = [family EXCEPT ![f].expired = TRUE]
  <2>1. CASE LockoutEnds \/ \E s \in Status : StatusChanges(s)
    <3>1. account'.hash = account.hash
      BY <2>1 DEF LockoutEnds, StatusChanges, TypeOK, Account
    <3>2. QED
      BY <2>1, <3>1 DEF LockoutEnds, StatusChanges
  <2>2. CASE ~(LockoutEnds \/ \E s \in Status : StatusChanges(s))
    BY <1>4, <2>2 DEF Environment, FamilyExpires, ChallengeExpires
  <2>3. QED
    BY <2>1, <2>2
<1>5. QED
  BY <1>1, <1>2, <1>3, <1>4 DEF Next, vars

\* Tokens stay filed, and families that exist stay.
LEMMA RowsStay ==
  ASSUME TypeOK, [Next]_vars
  PROVE  /\ \A t \in Tokens : token[t].family # None => token'[t].family = token[t].family
         /\ \A f \in Families : family[f].state # "absent" => family'[f].state # "absent"
<1> USE DEF TypeOK
<1> DEFINE Stay ==
      /\ \A t \in Tokens : token[t].family # None => token'[t].family = token[t].family
      /\ \A f \in Families : family[f].state # "absent" => family'[f].state # "absent"
<1>1. CASE UNCHANGED <<family, token>>
  BY <1>1
<1>2. ASSUME NEW c \in Clients, NEW f \in Families, NEW t \in Tokens, LoginAccepted(c, f, t)
      PROVE  Stay
  BY <1>2 DEF LoginAccepted, Unissued, Absent
<1>3. ASSUME NEW c \in Clients, NEW u \in Tokens, Rotate(c, u) PROVE Stay
  <2>1. \A t \in Tokens : token[t].family # None => token'[t].family = token[t].family
    BY <1>3 DEF Rotate, Unissued, Token
  <2>2. QED
    BY <1>3, <2>1 DEF Rotate
<1>4. ASSUME NEW c \in Clients, RevokeRows(c) PROVE Stay
  <2>1. \A t \in Tokens : token'[t].family = token[t].family
    BY <1>4 DEF RevokeRows, Token
  <2>2. \A f \in Families : family[f].state # "absent" => family'[f].state # "absent"
    BY <1>4 DEF RevokeRows, Family
  <2>3. QED
    BY <2>1, <2>2
<1>5. ASSUME NEW f \in Families, family' = [family EXCEPT ![f].expired = TRUE], UNCHANGED token
      PROVE  Stay
  BY <1>5 DEF Family
<1>6. QED
  BY <1>1, <1>2, <1>3, <1>4, <1>5, TablesKept DEF CommitRevocation, CommitPassword

LEMMA TokensFiledStep ==
  ASSUME TypeOK, TokensFiled, RequestsShaped, [Next]_vars
  PROVE  TokensFiled'
<1> USE DEF TypeOK
<1> SUFFICES ASSUME NEW t \in Tokens
             PROVE  IF token'[t].family = None THEN ~token'[t].used
                    ELSE family'[token'[t].family].state # "absent"
  BY DEF TokensFiled
<1> DEFINE Filed == IF token'[t].family = None THEN ~token'[t].used
                    ELSE family'[token'[t].family].state # "absent"
<1>1. CASE token[t].family # None
  <2>1. token'[t].family = token[t].family /\ token[t].family \in Families
    BY <1>1, RowsStay DEF Token
  <2>2. QED
    BY <1>1, <2>1, RowsStay DEF TokensFiled
<1>2. CASE token[t].family = None
  <2>0. ~token[t].used
    BY <1>2 DEF TokensFiled
  <2>1. ASSUME NEW c \in Clients, NEW f \in Families, NEW u \in Tokens, LoginAccepted(c, f, u)
        PROVE  Filed
    BY <1>2, <2>0, <2>1 DEF LoginAccepted
  <2>2. ASSUME NEW c \in Clients, NEW u \in Tokens, Rotate(c, u)
        PROVE  Filed
    <3>1. /\ req[c].token \in Tokens /\ req[c].token # t
          /\ family[req[c].family].state = "live" /\ family' = family
      BY <1>2, <2>2, ConstantsDistinct DEF Rotate, Usable, At, RequestsShaped, RequestShape
    <3>2. CASE t = u
      BY <2>2, <3>1, <3>2, ConstantsDistinct DEF Rotate, Token
    <3>3. CASE t # u
      BY <1>2, <2>0, <2>2, <3>1, <3>3 DEF Rotate, Token
    <3>4. QED
      BY <3>2, <3>3
  <2>3. ASSUME NEW c \in Clients, RevokeRows(c) PROVE Filed
    BY <1>2, <2>0, <2>3 DEF RevokeRows, Token
  <2>4. ASSUME UNCHANGED token PROVE Filed
    BY <1>2, <2>0, <2>4
  <2>5. QED
    BY <2>1, <2>2, <2>3, <2>4, TablesKept DEF CommitRevocation, CommitPassword
<1>3. QED
  BY <1>1, <1>2

LEMMA RequestsShapedStep ==
  ASSUME TypeOK, TokensFiled, RequestsShaped, [Next]_vars
  PROVE  RequestsShaped'
<1> USE DEF TypeOK
<1>s. ASSUME NEW d \in Clients, req'[d] = req[d] PROVE RequestShape(d)'
  <2>1. RequestShape(d) /\ req[d] \in Request
    BY DEF RequestsShaped
  <2>2. req[d].families \subseteq Families
    BY <2>1 DEF Request
  <2>3. req[d].op = "refresh" =>
          /\ req[d].token \in Tokens
          /\ token'[req[d].token].family = token[req[d].token].family
          /\ token[req[d].token].family \in Families
    BY <2>1, RowsStay, ConstantsDistinct DEF RequestShape
  <2>4. QED
    BY <1>s, <2>1, <2>2, <2>3, RowsStay DEF RequestShape
<1>i. ASSUME NEW c \in Clients, req'[c] = NoRequest PROVE RequestShape(c)'
  BY <1>i DEF RequestShape, NoRequest
<1>c. ASSUME NEW c \in Clients, Arrival(c) \/ ClientStep(c) \/ Crash(c)
      PROVE  RequestsShaped'
  <2>q. req[c] \in Request /\ RequestShape(c)
    BY DEF RequestsShaped
  <2>d. ASSUME Done(c) PROVE RequestShape(c)'
    BY <2>d, <1>i DEF Done
  <2>m. ASSUME NEW step \in Step \ {"tokens", "token", "families"}, NEW rows,
               req' = [req EXCEPT ![c].step = step, ![c].rows = rows],
               UNCHANGED rowVars, req[c].step # "token"
        PROVE  RequestShape(c)'
    BY <2>m, <2>q DEF RequestShape, rowVars, Request
  <2>t. ASSUME req' = [req EXCEPT ![c].step = "tokens", ![c].rows = {}], UNCHANGED rowVars,
               req[c].step # "token", req[c].op \in {"refresh", "logout"} \cup Bulk
        PROVE  RequestShape(c)'
    BY <2>t, <2>q DEF RequestShape, rowVars, Request
  <2>1. CASE Arrival(c)
    <3>1. ASSUME NEW p \in Passwords, Login(c, p) PROVE RequestShape(c)'
      BY <3>1 DEF Login, Begin, RequestShape, NoRequest
    <3>2. ASSUME NEW t \in Tokens, Refresh(c, t) PROVE RequestShape(c)'
      BY <3>2 DEF Refresh, Begin, RequestShape, NoRequest, Token
    <3>3. ASSUME NEW f \in Families, NEW g \in Families, Logout(c, f, g) PROVE RequestShape(c)'
      BY <3>3 DEF Logout, Begin, RequestShape, NoRequest
    <3>4. ASSUME NEW f \in Families, LogoutAll(c, f) PROVE RequestShape(c)'
      BY <3>4 DEF LogoutAll, Begin, RequestShape, NoRequest, Bulk
    <3>5. ASSUME NEW f \in Families, NEW p \in Passwords, NEW n \in Passwords,
                 ChangePassword(c, f, p, n)
          PROVE  RequestShape(c)'
      BY <3>5 DEF ChangePassword, Begin, RequestShape, NoRequest
    <3>6. ASSUME RequestRecovery(c) PROVE RequestShape(c)'
      BY <3>6 DEF RequestRecovery, Begin, RequestShape, NoRequest
    <3>7. ASSUME NEW h \in Challenges, NEW n \in Passwords, ResetPassword(c, h, n)
          PROVE  RequestShape(c)'
      BY <3>7 DEF ResetPassword, Begin, RequestShape, NoRequest
    <3>8. QED
      BY <2>1, <3>1, <3>2, <3>3, <3>4, <3>5, <3>6, <3>7, <1>s, OthersKept
         DEF Arrival, RequestsShaped
  <2>2. CASE Crash(c)
    BY <2>2, <2>d, <1>s, OthersKept DEF Crash, RequestsShaped
  <2>3. CASE ClientStep(c)
    <3> SUFFICES RequestShape(c)'
      BY <2>3, <1>s, OthersKept DEF RequestsShaped
    <3>1. CASE \/ Deadlock(c) \/ LoginDenied(c) \/ RefreshDenied(c) \/ LogoutIdle(c)
               \/ CommitRevocation(c) \/ ChangeDenied(c) \/ ResetDenied(c) \/ CommitPassword(c)
               \/ RecoverIgnored(c)
               \/ \E f \in Families, t \in Tokens : LoginAccepted(c, f, t)
               \/ \E u \in Tokens : Rotate(c, u)
               \/ \E h \in Challenges : CommitRecovery(c, h)
      BY <3>1, <2>d DEF Deadlock, LoginDenied, RefreshDenied, LogoutIdle, CommitRevocation,
                        ChangeDenied, ResetDenied, CommitPassword, RecoverIgnored, LoginAccepted,
                        Rotate, CommitRecovery
    <3>2. CASE LockToken(c)
      BY <3>2, <2>q DEF LockToken, At, RequestShape, rowVars, Request
    <3>3. CASE LockFamily(c) \/ ResetLocksChallenge(c)
      BY <3>3, <2>m DEF LockFamily, ResetLocksChallenge, At, Step
    <3>4. CASE RecoverLocks(c)
      BY <3>4, <2>m DEF RecoverLocks, At, Step
    <3>5. CASE RefreshRevokes(c) \/ LogoutLocks(c) \/ ChangeLocks(c) \/ ResetLocks(c)
      BY <3>5, <2>t DEF RefreshRevokes, LogoutLocks, ChangeLocks, ResetLocks, At, Bulk
    <3>6. CASE UpdateTokens(c)
      <4> DEFINE q == req'[c]
      <4>1. /\ q.op = req[c].op /\ q.token = req[c].token /\ q.family = req[c].family
            /\ q.new = req[c].new
            /\ q.step = IF req[c].op \in Bulk THEN "families" ELSE "commit"
            /\ q.families = IF req[c].op \in Bulk THEN {} ELSE {req[c].family}
        BY <3>6, <2>q DEF UpdateTokens, Request
      <4>2. req[c].step = "tokens" /\ UNCHANGED <<token, family>>
        BY <3>6 DEF UpdateTokens
      <4>3. ASSUME NEW f \in q.families PROVE family[f].state # "absent"
        <5>1. f = req[c].family /\ req[c].op \in {"refresh", "logout"}
          BY <4>1, <4>2, <4>3, <2>q DEF RequestShape
        <5>2. CASE req[c].op = "refresh"
          BY <5>1, <5>2, <4>2, <2>q, ConstantsDistinct DEF RequestShape, TokensFiled
        <5>3. CASE req[c].op = "logout"
          BY <5>1, <5>3, <2>q DEF RequestShape
        <5>4. QED
          BY <5>1, <5>2, <5>3
      <4> HIDE DEF q
      <4>4. QED
        BY <4>1, <4>2, <4>3, <2>q DEF RequestShape, q
    <3>7. CASE UpdateFamilies(c)
      BY <3>7, <2>q DEF UpdateFamilies, RequestShape, Request, LiveFamilies
    <3>8. ASSUME NEW r \in Rows, LockRow(c, r) PROVE RequestShape(c)'
      BY <3>8, <2>q DEF LockRow, RequestShape, Request, rowVars
    <3>9. CASE UpdateChallenges(c)
      BY <3>9, <2>q DEF UpdateChallenges, At, RequestShape, Request
    <3>10. QED
      BY <2>3, <3>1, <3>2, <3>3, <3>4, <3>5, <3>6, <3>7, <3>8, <3>9 DEF ClientStep
  <2>4. QED
    BY <1>c, <2>1, <2>2, <2>3
<1>e. CASE Environment \/ UNCHANGED vars
  <2>1. UNCHANGED req
    BY <1>e DEF Environment, FamilyExpires, ChallengeExpires, LockoutEnds, StatusChanges, vars
  <2>2. QED
    BY <2>1, <1>s DEF RequestsShaped
<1>q. QED
  BY <1>c, <1>e DEF Next

-----------------------------------------------------------------------------
(* The account's row, and what its holder relies on.                       *)

LEMMA WritersLockStep ==
  ASSUME TypeOK, WritersLock, [Next]_vars
  PROVE  WritersLock'
<1> USE DEF TypeOK
<1>u. UserRow \in Rows
  BY DEF Rows
<1>1. ASSUME NEW c \in Clients, Arrival(c) \/ ClientStep(c) \/ Crash(c) PROVE WritersLock'
  <2>q. req[c] \in Request /\ (Writing(c) => holder[UserRow] = c)
    BY DEF WritersLock
  <2> SUFFICES Writing(c)' => holder'[UserRow] = c
    BY <1>1, <1>u, OthersKept DEF WritersLock, Writing
  <2>d. ASSUME Done(c) PROVE ~Writing(c)'
    BY <2>d DEF Done, Writing, NoRequest
  <2>1. CASE Arrival(c)
    BY <2>1, ArrivalSteps DEF Writing
  <2>2. CASE Crash(c)
    BY <2>2, <2>d DEF Crash
  <2>3. CASE ClientStep(c)
    <3>1. CASE \/ Deadlock(c) \/ LoginDenied(c) \/ RefreshDenied(c) \/ LogoutIdle(c)
               \/ CommitRevocation(c) \/ ChangeDenied(c) \/ ResetDenied(c) \/ CommitPassword(c)
               \/ RecoverIgnored(c)
               \/ \E f \in Families, t \in Tokens : LoginAccepted(c, f, t)
               \/ \E u \in Tokens : Rotate(c, u)
               \/ \E h \in Challenges : CommitRecovery(c, h)
      BY <3>1, <2>d DEF Deadlock, LoginDenied, RefreshDenied, LogoutIdle, CommitRevocation,
                        ChangeDenied, ResetDenied, CommitPassword, RecoverIgnored, LoginAccepted,
                        Rotate, CommitRecovery
    <3>2. CASE LockToken(c) \/ LockFamily(c) \/ LogoutLocks(c)
      BY <3>2, <2>q DEF LockToken, LockFamily, LogoutLocks, At, Writing, Request
    <3>3. CASE RefreshRevokes(c) \/ ChangeLocks(c) \/ ResetLocks(c) \/ RecoverLocks(c)
      BY <3>3, <1>u DEF RefreshRevokes, ChangeLocks, ResetLocks, RecoverLocks, Take
    <3>4. CASE ResetLocksChallenge(c)
      BY <3>4, <2>q DEF ResetLocksChallenge, Writing, Request
    <3>5. CASE UpdateTokens(c) \/ UpdateFamilies(c)
      BY <3>5, <2>q DEF UpdateTokens, UpdateFamilies, Writing, Request
    <3>6. CASE UpdateChallenges(c)
      BY <3>6, <2>q DEF UpdateChallenges, At, Writing, Request
    <3>7. ASSUME NEW r \in Rows, LockRow(c, r) PROVE Writing(c)' => holder'[UserRow] = c
      BY <3>7, <2>q, <1>u DEF LockRow, Take, Writing, Request
    <3>8. QED
      BY <2>3, <3>1, <3>2, <3>3, <3>4, <3>5, <3>6, <3>7 DEF ClientStep
  <2>4. QED
    BY <1>1, <2>1, <2>2, <2>3
<1>2. CASE Environment \/ UNCHANGED vars
  BY <1>2 DEF Environment, FamilyExpires, ChallengeExpires, LockoutEnds, StatusChanges, vars,
              WritersLock, Writing
<1>3. QED
  BY <1>1, <1>2 DEF Next

\* Live families come from logins only, open challenges from recoveries only.
LEMMA NothingAdded ==
  ASSUME TypeOK, [Next]_vars
  PROVE  /\ \/ LiveFamilies' \subseteq LiveFamilies
            \/ \E c \in Clients, f \in Families, t \in Tokens : LoginAccepted(c, f, t)
         /\ \/ \A h \in Challenges : challenge'[h].state = "open" => challenge[h].state = "open"
            \/ \E c \in Clients, h \in Challenges : CommitRecovery(c, h)
<1> USE DEF TypeOK
<1>1. \/ LiveFamilies' \subseteq LiveFamilies
      \/ \E c \in Clients, f \in Families, t \in Tokens : LoginAccepted(c, f, t)
  <2>1. ASSUME UNCHANGED family PROVE LiveFamilies' \subseteq LiveFamilies
    BY <2>1 DEF LiveFamilies
  <2>2. ASSUME NEW c \in Clients, RevokeRows(c) PROVE LiveFamilies' \subseteq LiveFamilies
    BY <2>2 DEF RevokeRows, LiveFamilies, Family
  <2>3. ASSUME NEW f \in Families, family' = [family EXCEPT ![f].expired = TRUE]
        PROVE  LiveFamilies' \subseteq LiveFamilies
    BY <2>3 DEF LiveFamilies, Family
  <2>4. QED
    BY <2>1, <2>2, <2>3, TablesKept DEF CommitRevocation, CommitPassword, Rotate
<1>2. \/ \A h \in Challenges : challenge'[h].state = "open" => challenge[h].state = "open"
      \/ \E c \in Clients, h \in Challenges : CommitRecovery(c, h)
  <2>1. ASSUME NEW c \in Clients, CommitPassword(c)
        PROVE  \A h \in Challenges : challenge'[h].state = "open" => challenge[h].state = "open"
    BY <2>1 DEF CommitPassword, Challenge
  <2>2. ASSUME NEW k \in Challenges, ChallengeExpires(k)
        PROVE  \A h \in Challenges : challenge'[h].state = "open" => challenge[h].state = "open"
    BY <2>2 DEF ChallengeExpires, Challenge
  <2>3. ASSUME NEW c \in Clients, Arrival(c) \/ Crash(c) \/ ClientStep(c), ~CommitPassword(c),
               ~(\E h \in Challenges : CommitRecovery(c, h))
        PROVE  UNCHANGED challenge
    <3>1. CASE Arrival(c) \/ Crash(c)
      BY <3>1 DEF Arrival, Begin, Login, Refresh, Logout, LogoutAll, ChangePassword,
                  RequestRecovery, ResetPassword, Crash, rowVars
    <3>2. CASE ClientStep(c)
      BY <2>3, <3>2 DEF ClientStep, Deadlock, LoginAccepted, LoginDenied, RefreshDenied, Rotate,
         LogoutIdle, ChangeDenied, ResetDenied, RecoverIgnored, LockToken, LockFamily,
         RefreshRevokes, LogoutLocks, ChangeLocks, ResetLocksChallenge, ResetLocks, RecoverLocks,
         LockRow, UpdateTokens, UpdateFamilies, UpdateChallenges, CommitRevocation, rowVars
    <3>3. QED
      BY <2>3, <3>1, <3>2
  <2>4. ASSUME Environment, ~(\E k \in Challenges : ChallengeExpires(k)) PROVE UNCHANGED challenge
    BY <2>4 DEF Environment, FamilyExpires, LockoutEnds, StatusChanges
  <2>5. QED
    BY <2>1, <2>2, <2>3, <2>4 DEF Next, vars
<1>3. QED
  BY <1>1, <1>2

LEMMA AllCoveredStep ==
  ASSUME TypeOK, RequestsShaped, WritersLock, AllCovered, [Next]_vars
  PROVE  AllCovered'
<1> USE DEF TypeOK
<1> SUFFICES ASSUME NEW d \in Clients PROVE Covered(d)'
  BY DEF AllCovered
<1>q. req[d] \in Request /\ RequestShape(d) /\ Covered(d) /\ (Writing(d) => holder[UserRow] = d)
  BY DEF RequestsShaped, AllCovered, WritersLock
\* A request that was committing and goes on has seen all there is.
<1>1. ASSUME req'[d].op = req[d].op, req'[d].step = req[d].step,
             req'[d].families = req[d].families, req'[d].challenges = req[d].challenges
      PROVE  Covered(d)'
  <2>1. ASSUME At(d, {"change", "reset"}, "commit") PROVE LiveFamilies' \subseteq LiveFamilies
    <3>1. holder[UserRow] = d
      BY <2>1, <1>q DEF At, Writing
    <3>2. ASSUME NEW c \in Clients, NEW f \in Families, NEW t \in Tokens, LoginAccepted(c, f, t)
          PROVE  FALSE
      <4>1. c = d
        BY <3>1, <3>2, ConstantsDistinct DEF LoginAccepted, Free
      <4>2. QED
        BY <4>1, <2>1, <3>2 DEF LoginAccepted, At
    <3>3. QED
      BY <3>2, NothingAdded
  <2>2. ASSUME At(d, {"recover"}, "commit"), req'[d].step = "commit"
        PROVE  \A h \in Challenges : challenge'[h].state = "open" => challenge[h].state = "open"
    <3>1. holder[UserRow] = d
      BY <2>2, <1>q DEF At, Writing
    <3>2. ASSUME NEW c \in Clients, NEW h \in Challenges, CommitRecovery(c, h) PROVE FALSE
      <4>1. holder[UserRow] = c
        BY <3>2 DEF CommitRecovery, At, WritersLock, Writing
      <4>2. req'[d] = NoRequest
        BY <4>1, <3>1, <3>2 DEF CommitRecovery, Done
      <4>3. QED
        BY <4>2, <2>2 DEF NoRequest
    <3>3. QED
      BY <3>2, NothingAdded
  <2>3. At(d, {"change", "reset"}, "commit")' => LiveFamilies' \subseteq req'[d].families
    BY <1>1, <2>1, <1>q DEF At, Covered
  <2>4. ASSUME At(d, {"recover"}, "commit")'
        PROVE  {h \in Challenges : challenge'[h].state = "open"} \subseteq req'[d].challenges
    <3>1. At(d, {"recover"}, "commit") /\ req'[d].step = "commit"
      BY <1>1, <2>4 DEF At
    <3>2. {h \in Challenges : challenge[h].state = "open"} \subseteq req[d].challenges
      BY <3>1, <1>q DEF Covered
    <3>3. QED
      BY <3>1, <3>2, <2>2, <1>1
  <2>5. QED
    BY <2>3, <2>4 DEF Covered
<1>2. ASSUME ~(req'[d].step = "commit") PROVE Covered(d)'
  BY <1>2 DEF Covered, At
<1>3. ASSUME Arrival(d) \/ ClientStep(d) \/ Crash(d) PROVE Covered(d)'
  <2>d. ASSUME Done(d) PROVE Covered(d)'
    BY <2>d, <1>2 DEF Done, NoRequest
  <2>1. CASE Arrival(d)
    BY <2>1, <1>2, ArrivalSteps
  <2>2. CASE Crash(d)
    BY <2>2, <2>d DEF Crash
  <2>3. CASE ClientStep(d)
    <3>1. CASE \/ Deadlock(d) \/ LoginDenied(d) \/ RefreshDenied(d) \/ LogoutIdle(d)
               \/ CommitRevocation(d) \/ ChangeDenied(d) \/ ResetDenied(d) \/ CommitPassword(d)
               \/ RecoverIgnored(d)
               \/ \E f \in Families, t \in Tokens : LoginAccepted(d, f, t)
               \/ \E u \in Tokens : Rotate(d, u)
               \/ \E h \in Challenges : CommitRecovery(d, h)
      BY <3>1, <2>d DEF Deadlock, LoginDenied, RefreshDenied, LogoutIdle, CommitRevocation,
                        ChangeDenied, ResetDenied, CommitPassword, RecoverIgnored, LoginAccepted,
                        Rotate, CommitRecovery
    <3>2. CASE \/ LockToken(d) \/ LockFamily(d) \/ LogoutLocks(d) \/ RefreshRevokes(d)
               \/ ChangeLocks(d) \/ ResetLocks(d) \/ RecoverLocks(d) \/ ResetLocksChallenge(d)
      <4>1. req'[d].step # "commit"
        BY <3>2, <1>q DEF LockToken, LockFamily, LogoutLocks, RefreshRevokes, ChangeLocks,
                          ResetLocks, RecoverLocks, ResetLocksChallenge, Request
      <4>2. QED
        BY <4>1, <1>2
    <3>3. CASE UpdateTokens(d)
      <4>1. req'[d].op = req[d].op
            /\ req'[d].step = IF req[d].op \in Bulk THEN "families" ELSE "commit"
        BY <3>3, <1>q DEF UpdateTokens, Request
      <4>2. req[d].op \in {"refresh", "logout"} \cup Bulk
        BY <3>3, <1>q DEF UpdateTokens, RequestShape
      <4>3. QED
        BY <4>1, <4>2 DEF Covered, At, Bulk
    <3>4. CASE UpdateFamilies(d)
      <4>1. req'[d].op = req[d].op /\ req'[d].families = LiveFamilies /\ UNCHANGED family
        BY <3>4, <1>q DEF UpdateFamilies, Request
      <4>2. LiveFamilies' \subseteq req'[d].families
        BY <4>1 DEF LiveFamilies
      <4>3. ~At(d, {"recover"}, "commit")'
        BY <3>4, <4>1, <1>q DEF UpdateFamilies, At, RequestShape, Bulk
      <4>4. QED
        BY <4>2, <4>3 DEF Covered
    <3>5. CASE UpdateChallenges(d)
      BY <3>5, <1>q DEF UpdateChallenges, At, Request, Covered
    <3>6. ASSUME NEW r \in Rows, LockRow(d, r) PROVE Covered(d)'
      BY <3>6, <1>q, <1>1 DEF LockRow, Request
    <3>7. QED
      BY <2>3, <3>1, <3>2, <3>3, <3>4, <3>5, <3>6 DEF ClientStep
  <2>4. QED
    BY <1>3, <2>1, <2>2, <2>3
<1>4. ASSUME NEW c \in Clients, c # d, Arrival(c) \/ ClientStep(c) \/ Crash(c)
      PROVE  Covered(d)'
  BY <1>4, <1>1, OthersKept
<1>5. ASSUME Environment \/ UNCHANGED vars PROVE Covered(d)'
  BY <1>5, <1>1 DEF Environment, FamilyExpires, ChallengeExpires, LockoutEnds, StatusChanges, vars
<1>6. QED
  BY <1>3, <1>4, <1>5 DEF Next

-----------------------------------------------------------------------------
(* The properties.                                                         *)

LEMMA OneUnusedTokenStep ==
  ASSUME TypeOK, TokensFiled, RequestsShaped, OneUnusedToken, [Next]_vars
  PROVE  OneUnusedToken'
<1> USE DEF TypeOK
<1>1. ASSUME NEW c \in Clients, NEW f \in Families, NEW t \in Tokens, LoginAccepted(c, f, t)
      PROVE  OneUnusedToken'
  <2>1. /\ token' = [token EXCEPT ![t] = [family |-> f, used |-> FALSE, revoked |-> FALSE]]
        /\ \A u \in Tokens : token[u].family # f
    BY <1>1, ConstantsDistinct DEF LoginAccepted, Absent, TokensFiled
  <2>2. QED
    BY <2>1 DEF OneUnusedToken
<1>2. ASSUME NEW c \in Clients, NEW u \in Tokens, Rotate(c, u) PROVE OneUnusedToken'
  <2> DEFINE t == req[c].token
  <2>1. /\ t \in Tokens /\ token[t].family = req[c].family /\ token[t].family \in Families
        /\ ~token[t].used /\ token[u].family = None
    BY <1>2 DEF Rotate, At, Usable, RequestsShaped, RequestShape, Unissued
  <2>2. token' = [token EXCEPT ![t].used = TRUE,
                    ![u] = [family |-> req[c].family, used |-> FALSE, revoked |-> FALSE]]
    BY <1>2 DEF Rotate
  <2> HIDE DEF t
  <2>3. t # u
    BY <2>1, ConstantsDistinct
  <2>4. \A v \in Tokens :
          /\ v # u => token'[v].family = token[v].family
          /\ v \notin {t, u} => token'[v].used = token[v].used
    BY <2>1, <2>2 DEF Token
  <2>5. token'[t].used /\ token'[u].family = token[t].family
    BY <2>1, <2>2, <2>3 DEF Token
  <2>6. QED
    BY <2>1, <2>3, <2>4, <2>5 DEF OneUnusedToken
<1>3. ASSUME NEW c \in Clients, RevokeRows(c) PROVE OneUnusedToken'
  <2>1. \A t \in Tokens : token'[t].family = token[t].family /\ token'[t].used = token[t].used
    BY <1>3 DEF RevokeRows, Token
  <2>2. QED
    BY <2>1 DEF OneUnusedToken
<1>4. ASSUME UNCHANGED token PROVE OneUnusedToken'
  BY <1>4 DEF OneUnusedToken
<1>5. QED
  BY <1>1, <1>2, <1>3, <1>4, TablesKept DEF CommitRevocation, CommitPassword

\* What a login or a password write does to the families that are live.
LEMMA LoginOpens ==
  ASSUME TypeOK, NEW c \in Clients, NEW f \in Families, NEW t \in Tokens,
         LoginAccepted(c, f, t)
  PROVE  /\ account'.hash.password = account.hash.password
         /\ req[c].presented = account.hash.password
<1>1. account' = [account EXCEPT !.failed = 0, !.locked = FALSE, !.hash = Rehashed(account.hash)]
  BY DEF LoginAccepted
<1>2. account'.hash = Rehashed(account.hash)
  BY <1>1 DEF TypeOK, Account
<1>3. Rehashed(account.hash).password = account.hash.password
  BY DEF TypeOK, Account, Hash, Rehashed
<1>4. QED
  BY <1>2, <1>3 DEF LoginAccepted, LoginValid, Verified

LEMMA PasswordWritten ==
  ASSUME TypeOK, AllCovered, RequestsShaped, NEW c \in Clients, CommitPassword(c)
  PROVE  /\ account'.hash.password = req[c].new /\ req[c].new \in Passwords
         /\ LiveFamilies' = {}
         /\ \A f \in Families : family'[f].opener = family[f].opener
         /\ \A f \in Families : family[f].state # "live" => family'[f].state = family[f].state
         /\ \A f \in LiveFamilies : family'[f].state = "revoked"
<1>1. LiveFamilies \subseteq req[c].families
  BY DEF CommitPassword, AllCovered, Covered
<1>2. family' = [f \in Families |-> IF f \in req[c].families
                                   THEN [family[f] EXCEPT !.state = "revoked"] ELSE family[f]]
  BY DEF CommitPassword, RevokeRows
<1>3. \A f \in Families : /\ family'[f].opener = family[f].opener
                          /\ f \in req[c].families => family'[f].state = "revoked"
                          /\ f \notin req[c].families => family'[f].state = family[f].state
  BY <1>2 DEF TypeOK, Family
<1>4. LiveFamilies' = {}
  BY <1>1, <1>3 DEF LiveFamilies
<1>5. ASSUME NEW f \in Families, family[f].state # "live"
      PROVE  family'[f].state = family[f].state
  <2>1. CASE f \in req[c].families
    <3>1. family[f].state # "absent"
      BY <2>1 DEF RequestsShaped, RequestShape
    <3>2. family[f].state = "revoked"
      BY <1>5, <3>1 DEF TypeOK, Family
    <3>3. QED
      BY <2>1, <3>2, <1>3
  <2>2. CASE f \notin req[c].families
    BY <2>2, <1>3
  <2>3. QED
    BY <2>1, <2>2
<1>6. \A f \in LiveFamilies : family'[f].state = "revoked"
  BY <1>1, <1>3 DEF LiveFamilies
<1>7. account'.hash.password = req[c].new
  BY DEF CommitPassword, TypeOK, Account, Hash
<1>8. req[c].new \in Passwords
  BY DEF CommitPassword, At, RequestsShaped, RequestShape
<1>9. QED
  BY <1>3, <1>4, <1>5, <1>6, <1>7, <1>8

LEMMA LiveFamiliesKnowPasswordStep ==
  ASSUME TypeOK, RequestsShaped, AllCovered, LiveFamiliesKnowPassword, [Next]_vars
  PROVE  LiveFamiliesKnowPassword'
<1> USE DEF TypeOK
<1>1. ASSUME NEW c \in Clients, NEW f \in Families, NEW t \in Tokens, LoginAccepted(c, f, t)
      PROVE  LiveFamiliesKnowPassword'
  <2>1. family' = [family EXCEPT ![f] = [state |-> "live", expired |-> FALSE,
                                         opener |-> account.hash.password]]
    BY <1>1, LoginOpens DEF LoginAccepted
  <2>2. QED
    BY <1>1, <2>1, LoginOpens DEF LiveFamiliesKnowPassword, LiveFamilies
<1>2. ASSUME NEW c \in Clients, CommitPassword(c) PROVE LiveFamiliesKnowPassword'
  BY <1>2, PasswordWritten DEF LiveFamiliesKnowPassword
<1>3. ASSUME account'.hash = account.hash,
             \A f \in Families : /\ family'[f].opener = family[f].opener
                                 /\ family'[f].state = "live" => family[f].state = "live"
      PROVE  LiveFamiliesKnowPassword'
  BY <1>3 DEF LiveFamiliesKnowPassword, LiveFamilies
<1>4. ASSUME NEW c \in Clients, CommitRevocation(c) PROVE LiveFamiliesKnowPassword'
  <2>1. \A f \in Families : /\ family'[f].opener = family[f].opener
                            /\ family'[f].state = "live" => family[f].state = "live"
    BY <1>4 DEF CommitRevocation, RevokeRows, Family
  <2>2. QED
    BY <1>4, <2>1, <1>3 DEF CommitRevocation
<1>5. ASSUME NEW f \in Families, family' = [family EXCEPT ![f].expired = TRUE],
             account'.hash = account.hash
      PROVE  LiveFamiliesKnowPassword'
  <2>1. \A g \in Families : /\ family'[g].opener = family[g].opener
                            /\ family'[g].state = "live" => family[g].state = "live"
    BY <1>5 DEF Family
  <2>2. QED
    BY <1>5, <2>1, <1>3
<1>6. ASSUME NEW c \in Clients, NEW u \in Tokens, Rotate(c, u) PROVE LiveFamiliesKnowPassword'
  BY <1>6, <1>3 DEF Rotate
<1>7. QED
  BY <1>1, <1>2, <1>3, <1>4, <1>5, <1>6, TablesKept

LEMMA OneOpenChallengeStep ==
  ASSUME TypeOK, AllCovered, OneOpenChallenge, [Next]_vars
  PROVE  OneOpenChallenge'
<1> USE DEF TypeOK
<1>1. ASSUME NEW c \in Clients, NEW h \in Challenges, CommitRecovery(c, h)
      PROVE  OneOpenChallenge'
  <2>1. {k \in Challenges : challenge[k].state = "open"} \subseteq req[c].challenges
    BY <1>1 DEF CommitRecovery, AllCovered, Covered
  <2>2. ASSUME NEW k \in Challenges, k # h PROVE challenge'[k].state # "open"
    BY <1>1, <2>1, <2>2 DEF CommitRecovery, Challenge
  <2>3. QED
    BY <2>2 DEF OneOpenChallenge
<1>2. ASSUME \A h \in Challenges : challenge'[h].state = "open" => challenge[h].state = "open"
      PROVE  OneOpenChallenge'
  BY <1>2 DEF OneOpenChallenge
<1>3. QED
  BY <1>1, <1>2, NothingAdded

LEMMA InitSessionInv == Init => SessionInv
<1> SUFFICES ASSUME Init PROVE SessionInv
  OBVIOUS
<1>1. TypeOK
  BY InitTypeOK
<1>2. TokensFiled /\ OneUnusedToken /\ LiveFamiliesKnowPassword /\ OneOpenChallenge
  BY DEF Init, TokensFiled, OneUnusedToken, LiveFamiliesKnowPassword, LiveFamilies,
         OneOpenChallenge
<1>3. RequestsShaped /\ WritersLock /\ AllCovered
  BY DEF Init, RequestsShaped, RequestShape, WritersLock, Writing, AllCovered, Covered, At,
         NoRequest
<1>4. QED
  BY <1>1, <1>2, <1>3 DEF SessionInv

LEMMA NextSessionInv == SessionInv /\ [Next]_vars => SessionInv'
  BY NextTypeOK, TokensFiledStep, RequestsShapedStep, WritersLockStep, AllCoveredStep,
     OneUnusedTokenStep, LiveFamiliesKnowPasswordStep, OneOpenChallengeStep DEF SessionInv

LEMMA Invariant == Spec => []SessionInv
  BY InitSessionInv, NextSessionInv, PTL DEF Spec

\* Rows and requests keep their types, for every number of each.
THEOREM TypeCorrect == Spec => []TypeOK
<1>1. SessionInv => TypeOK
  BY DEF SessionInv
<1>2. QED
  BY <1>1, Invariant, PTL

\* However refreshes of one token overlap, its family has one token left to
\* exchange (SessionService.refresh).
THEOREM RotationIsUnique == Spec => []OneUnusedToken
<1>1. SessionInv => OneUnusedToken
  BY DEF SessionInv
<1>2. QED
  BY <1>1, Invariant, PTL

\* No session opened with an earlier password is live (SessionService.login
\* against change_password and reset_password).
THEOREM OldPasswordsAreOut == Spec => []LiveFamiliesKnowPassword
<1>1. SessionInv => LiveFamiliesKnowPassword
  BY DEF SessionInv
<1>2. QED
  BY <1>1, Invariant, PTL

\* At most one recovery challenge is open (IdentityService.request_recovery).
THEOREM RecoveryIsUnique == Spec => []OneOpenChallenge
<1>1. SessionInv => OneOpenChallenge
  BY DEF SessionInv
<1>2. QED
  BY <1>1, Invariant, PTL

-----------------------------------------------------------------------------
(* Sessions implements SessionFamily.                                      *)

LEMMA InitAtomic == Init => Atomic!Init
  BY DEF Init, Atomic!Init

LEMMA LoginIsOpen ==
  ASSUME SessionInv, NEW c \in Clients, NEW f \in Families, NEW t \in Tokens,
         LoginAccepted(c, f, t)
  PROVE  Atomic!Open(f, t)
<1> USE DEF SessionInv, TypeOK
<1>1. family[f].state = "absent" /\ token[t].family = None
  BY DEF LoginAccepted, Absent, Unissued
<1>2. family' = [family EXCEPT ![f] = [state |-> "live", expired |-> FALSE,
                                       opener |-> account.hash.password]]
  BY LoginOpens DEF LoginAccepted
<1>3. token' = [token EXCEPT ![t] = [family |-> f, used |-> FALSE, revoked |-> FALSE]]
  BY DEF LoginAccepted
<1>4. ~token[t].used
  BY <1>1 DEF TokensFiled
<1>5. {u \in Tokens : token'[u].used} = {u \in Tokens : token[u].used}
  BY <1>3, <1>4
<1>6. account'.hash.password = account.hash.password
  BY LoginOpens
<1>7. [g \in Families |-> family'[g].state] =
        [[g \in Families |-> family[g].state] EXCEPT ![f] = "live"]
  BY <1>2
<1>8. [g \in Families |-> family'[g].opener] =
        [[g \in Families |-> family[g].opener] EXCEPT ![f] = account.hash.password]
  BY <1>2
<1>9. [u \in Tokens |-> token'[u].family] =
        [[u \in Tokens |-> token[u].family] EXCEPT ![t] = f]
  BY <1>3
<1>10. QED
  BY <1>1, <1>5, <1>6, <1>7, <1>8, <1>9 DEF Atomic!Open

LEMMA RotateIsRotate ==
  ASSUME SessionInv, NEW c \in Clients, NEW u \in Tokens, Rotate(c, u)
  PROVE  \E f \in Families, t \in Tokens : Atomic!Rotate(f, t, u)
<1> USE DEF SessionInv, TypeOK
<1>1. PICK t \in Tokens : t = req[c].token
  BY DEF Rotate, At, RequestsShaped, RequestShape
<1>2. PICK f \in Families : f = req[c].family /\ token[t].family = f
  BY <1>1 DEF Rotate, At, RequestsShaped, RequestShape
<1>3. /\ family[f].state = "live" /\ ~token[t].used
      /\ token[u].family = None /\ ~token[u].used /\ t # u
  BY <1>1, <1>2, ConstantsDistinct DEF Rotate, Usable, Unissued, TokensFiled
<1>4. token' = [token EXCEPT ![t].used = TRUE,
                             ![u] = [family |-> f, used |-> FALSE, revoked |-> FALSE]]
  BY <1>1, <1>2 DEF Rotate
<1>5. {v \in Tokens : token[v].family = f /\ ~token[v].used} = {t}
  BY <1>2, <1>3, ConstantsDistinct DEF OneUnusedToken
<1>6. {v \in Tokens : token'[v].used} = {v \in Tokens : token[v].used} \cup {t}
  BY <1>3, <1>4 DEF Token
<1>7. [v \in Tokens |-> token'[v].family] = [[v \in Tokens |-> token[v].family] EXCEPT ![u] = f]
  BY <1>2, <1>3, <1>4 DEF Token
<1>8. {v \in Tokens : [w \in Tokens |-> token[w].family][v] = f
                    /\ v \notin {w \in Tokens : token[w].used}} = {t}
  BY <1>5
<1>9. UNCHANGED <<account, family>>
  BY DEF Rotate
<1>10. Atomic!Rotate(f, t, u)
  BY <1>3, <1>6, <1>7, <1>8, <1>9 DEF Atomic!Rotate
<1>11. QED
  BY <1>10

\* The columns revocation leaves alone.
LEMMA RevokeKeeps ==
  ASSUME TypeOK, NEW c \in Clients, RevokeRows(c)
  PROVE  /\ [f \in Families |-> family'[f].opener] = [f \in Families |-> family[f].opener]
         /\ [t \in Tokens |-> token'[t].family] = [t \in Tokens |-> token[t].family]
         /\ {t \in Tokens : token'[t].used} = {t \in Tokens : token[t].used}
<1>1. \A f \in Families : family'[f].opener = family[f].opener
  BY DEF TypeOK, RevokeRows, Family
<1>2. \A t \in Tokens : token'[t].family = token[t].family /\ token'[t].used = token[t].used
  BY DEF TypeOK, RevokeRows, Token
<1>3. QED
  BY <1>1, <1>2

LEMMA RevocationIsEnd ==
  ASSUME SessionInv, NEW c \in Clients, CommitRevocation(c)
  PROVE  \E S \in SUBSET Families : Atomic!End(S)
<1> USE DEF SessionInv, TypeOK
<1>1. PICK S \in SUBSET Families : S = req[c].families \cap LiveFamilies
  BY DEF LiveFamilies
<1>2. ASSUME NEW f \in Families
      PROVE  family'[f].state = IF f \in S THEN "revoked" ELSE family[f].state
  <2>1. family'[f].state = IF f \in req[c].families THEN "revoked" ELSE family[f].state
    BY DEF CommitRevocation, RevokeRows, Family
  <2>2. f \in req[c].families => family[f].state \in {"live", "revoked"}
    BY DEF RequestsShaped, RequestShape, Family
  <2>3. QED
    BY <1>1, <2>1, <2>2 DEF LiveFamilies
<1>3. UNCHANGED account /\ RevokeRows(c)
  BY DEF CommitRevocation
<1>4. \A f \in S : [g \in Families |-> family[g].state][f] = "live"
  BY <1>1 DEF LiveFamilies
<1>5. Atomic!End(S)
  BY <1>2, <1>3, <1>4, RevokeKeeps DEF Atomic!End, Atomic!Live
<1>6. QED
  BY <1>5

LEMMA PasswordIsReplace ==
  ASSUME SessionInv, NEW c \in Clients, CommitPassword(c)
  PROVE  \E p \in Passwords : Atomic!Replace(p)
<1> USE DEF SessionInv
<1>1. PICK p \in Passwords : p = req[c].new /\ account'.hash.password = p
  BY PasswordWritten
<1>2. ASSUME NEW f \in Families
      PROVE  family'[f].state = IF family[f].state = "live" THEN "revoked" ELSE family[f].state
  BY PasswordWritten DEF LiveFamilies
<1>3. RevokeRows(c)
  BY DEF CommitPassword
<1>4. Atomic!Replace(p)
  BY <1>1, <1>2, <1>3, RevokeKeeps DEF Atomic!Replace, Atomic!Live
<1>5. QED
  BY <1>4

LEMMA AtomicStep ==
  ASSUME SessionInv, [Next]_vars
  PROVE  [Atomic!Next]_(Atomic!vars)
<1> USE DEF SessionInv, TypeOK
<1>1. ASSUME UNCHANGED token, account'.hash = account.hash,
             \/ UNCHANGED family
             \/ \E f \in Families : family' = [family EXCEPT ![f].expired = TRUE]
      PROVE  UNCHANGED Atomic!vars
  <2>1. \A g \in Families : family'[g].state = family[g].state /\ family'[g].opener = family[g].opener
    BY <1>1 DEF Family
  <2>2. QED
    BY <1>1, <2>1 DEF Atomic!vars
<1>2. ASSUME UNCHANGED <<account, family, token>> PROVE UNCHANGED Atomic!vars
  BY <1>2, <1>1
<1>3. ASSUME NEW c \in Clients, NEW f \in Families, NEW t \in Tokens, LoginAccepted(c, f, t)
      PROVE  Atomic!Next
  BY <1>3, LoginIsOpen DEF Atomic!Next
<1>4. ASSUME NEW c \in Clients, NEW u \in Tokens, Rotate(c, u) PROVE Atomic!Next
  BY <1>4, RotateIsRotate DEF Atomic!Next
<1>5. ASSUME NEW c \in Clients, CommitRevocation(c) PROVE Atomic!Next
  BY <1>5, RevocationIsEnd DEF Atomic!Next
<1>6. ASSUME NEW c \in Clients, CommitPassword(c) PROVE Atomic!Next
  BY <1>6, PasswordIsReplace DEF Atomic!Next
<1>7. QED
  BY <1>1, <1>2, <1>3, <1>4, <1>5, <1>6, TablesKept

\* The transactions of the identity module, interleaved as PostgreSQL allows,
\* do what SessionFamily does in single steps.
THEOREM ImplementsSessionFamily == Spec => AtomicSpec
<1>1. SessionInv /\ [Next]_vars => [Atomic!Next]_(Atomic!vars)
  BY AtomicStep
<1>2. QED
  BY <1>1, InitAtomic, Invariant, PTL DEF Spec, AtomicSpec, Atomic!Spec
=============================================================================
