--------------------------- MODULE AccountProofs ---------------------------
(***************************************************************************)
(* What registration, access and the rate limiter promise for one account  *)
(* and its address, for any number of requests at once: one account for an *)
(* address, one effect and one answer for a key; changes of an account     *)
(* under its lock, and what the cache of capabilities may say of them; and *)
(* a bound on the requests the limiter lets through.                       *)
(***************************************************************************)
EXTENDS Registration, AccountAccess, RateLimiter, FiniteSetTheorems, TLAPS

-----------------------------------------------------------------------------
(* Registration: one account for an address, one effect for a key.         *)

UseKey == {"checking", "inserting", "committing"}

\* Two open transactions never have the same key, nor the same address once
\* it is inserted.
HoldersApart ==
    \A c, d \in Registrants : c # d =>
        /\ forms[c].at \in UseKey /\ forms[d].at \in UseKey => forms[c].key # forms[d].key
        /\ forms[c].at = "committing" /\ forms[d].at = "committing" => forms[c].email # forms[d].email

\* What an open transaction relies on when it commits: its key is free and its
\* address is new.
ChecksStand ==
    \A c \in Registrants :
        /\ forms[c].at \in UseKey => records[forms[c].key].account = 0
        /\ forms[c].at = "committing" => \A i \in DOMAIN accounts : accounts[i].email # forms[c].email

\* Every answer, given or about to be, names the account of its key and address.
Named(k, e, i) == i \in DOMAIN accounts /\ accounts[i] = [email |-> e, key |-> k]
AnswersNamed ==
    /\ \A c \in Registrants : forms[c].at = "delivering" =>
          Named(forms[c].key, forms[c].email, forms[c].account)
    /\ \A a \in answers : Named(a.key, a.email, a.account)

RecordsNamed ==
    /\ \A k \in RegistrationKeys : records[k].account # 0 =>
          Named(k, records[k].email, records[k].account)
    /\ \A i \in DOMAIN accounts : records[accounts[i].key].account = i

RegistrationInv ==
    RegistrationTypeOK /\ HoldersApart /\ ChecksStand /\ AnswersNamed /\ RecordsNamed /\ OneAccountPerEmail

-----------------------------------------------------------------------------
LEMMA SomeInSets == SomeKey \in RegistrationKeys /\ SomeEmail \in Emails
  BY RegistrationAssumption DEF SomeKey, SomeEmail

LEMMA Element ==
  ASSUME NEW S, NEW s \in Seq(S), NEW i \in 1 .. Len(s)
  PROVE  s[i] \in S
  OBVIOUS

LEMMA RegistrationStarts == RegistrationInit => RegistrationInv
  BY SomeInSets DEF RegistrationInit, RegistrationInv, RegistrationTypeOK, HoldersApart, ChecksStand, AnswersNamed,
     RecordsNamed, OneAccountPerEmail, NoForm, Free, UseKey, Named

Form == [at : {"idle", "reserving", "checking", "inserting", "committing", "delivering"},
         key : RegistrationKeys, email : Emails, account : 0 .. Len(accounts)]
GivenAnswer == [key : RegistrationKeys, email : Emails, account : DOMAIN accounts]

\* A request may move on without touching the tables when what it then relies on
\* holds, and when an answer it gives names the account.
LEMMA FormMoves ==
  ASSUME RegistrationInv, NEW c \in Registrants, NEW f \in Form,
         forms' = [forms EXCEPT ![c] = f], UNCHANGED <<accounts, records>>,
         answers' \subseteq GivenAnswer, \A a \in answers' : Named(a.key, a.email, a.account),
         f.at # "delivering",
         f.at \in UseKey => /\ records[f.key].account = 0
                            /\ \A d \in Registrants \ {c} : ~(forms[d].key = f.key /\ forms[d].at \in UseKey),
         f.at = "committing" => /\ \A i \in DOMAIN accounts : accounts[i].email # f.email
                                /\ \A d \in Registrants \ {c} : ~HoldsEmail(d, f.email)
  PROVE  RegistrationInv'
<1>1. forms \in [Registrants -> Form] /\ forms' \in [Registrants -> Form]
  BY DEF RegistrationInv, RegistrationTypeOK, Form
<1>2. forms'[c] = f /\ \A d \in Registrants \ {c} : forms'[d] = forms[d]
  BY <1>1
<1>3. RegistrationTypeOK'
  BY <1>1 DEF RegistrationInv, RegistrationTypeOK, Form, GivenAnswer
<1>4. HoldersApart'
  BY <1>2 DEF RegistrationInv, HoldersApart, HoldsEmail, UseKey
<1>5. ChecksStand'
  BY <1>2 DEF RegistrationInv, ChecksStand
<1>6. AnswersNamed'
  BY <1>2 DEF RegistrationInv, AnswersNamed, Named
<1>7. RecordsNamed' /\ OneAccountPerEmail'
  BY DEF RegistrationInv, RecordsNamed, OneAccountPerEmail, Named
<1>8. QED
  BY <1>3, <1>4, <1>5, <1>6, <1>7 DEF RegistrationInv

LEMMA AnswersStand ==
  ASSUME RegistrationInv
  PROVE  answers \subseteq GivenAnswer /\ \A a \in answers : Named(a.key, a.email, a.account)
  BY DEF RegistrationInv, RegistrationTypeOK, AnswersNamed, GivenAnswer

\* A request that leaves takes no part any more.
LEMMA LeaveKeeps ==
  ASSUME RegistrationInv, NEW c \in Registrants, Leave(c), UNCHANGED <<accounts, records>>,
         answers' \subseteq GivenAnswer, \A a \in answers' : Named(a.key, a.email, a.account)
  PROVE  RegistrationInv'
<1> DEFINE f == NoForm(SomeKey, SomeEmail)
<1>1. f \in Form /\ f.at = "idle"
  BY SomeInSets DEF NoForm, Form, RegistrationInv, RegistrationTypeOK
<1>2. forms' = [forms EXCEPT ![c] = f]
  BY DEF Leave
<1> HIDE DEF f
<1>3. QED
  BY <1>1, <1>2, FormMoves DEF UseKey

LEMMA GoMoves ==
  ASSUME RegistrationInv, NEW c \in Registrants, NEW at \in {"checking", "inserting", "committing"}, Go(c, at)
  PROVE  \E f \in Form : /\ forms' = [forms EXCEPT ![c] = f]
                         /\ f.at = at /\ f.key = forms[c].key /\ f.email = forms[c].email
<1>1. forms \in [Registrants -> Form]
  BY DEF RegistrationInv, RegistrationTypeOK, Form
<1>2. [forms[c] EXCEPT !.at = at] \in Form
  BY <1>1 DEF Form
<1>3. QED
  BY <1>1, <1>2 DEF Go, Form

LEMMA FormSubmitKeeps ==
  ASSUME RegistrationInv, NEW c \in Registrants, NEW k \in RegistrationKeys, NEW e \in Emails,
         SubmitForm(c, k, e)
  PROVE  RegistrationInv'
<1> DEFINE f == [NoForm(k, e) EXCEPT !.at = "reserving"]
<1>1. f \in Form /\ f.at = "reserving"
  <2>1. f = [at |-> "reserving", key |-> k, email |-> e, account |-> 0]
    BY DEF NoForm
  <2>2. 0 \in 0 .. Len(accounts)
    BY DEF RegistrationInv, RegistrationTypeOK
  <2>3. QED
    BY <2>1, <2>2 DEF Form
<1>2. forms' = [forms EXCEPT ![c] = f] /\ UNCHANGED <<accounts, records, answers>>
  BY DEF SubmitForm
<1> HIDE DEF f
<1>3. QED
  BY <1>1, <1>2, FormMoves, AnswersStand DEF UseKey

LEMMA ReserveKeeps ==
  ASSUME RegistrationInv, NEW c \in Registrants, Reserve(c)
  PROVE  RegistrationInv'
<1> DEFINE k == forms[c].key
           e == forms[c].email
           a == [key |-> k, email |-> e, account |-> records[k].account]
<1>1. k \in RegistrationKeys /\ e \in Emails
  BY DEF RegistrationInv, RegistrationTypeOK
<1>2. CASE records[k].account = 0
  <2>1. Go(c, "checking") /\ UNCHANGED <<accounts, records, answers>>
        /\ \A d \in Registrants \ {c} : ~(forms[d].key = k /\ forms[d].at \in UseKey)
    BY <1>2 DEF Reserve, Others, HoldsKey, UseKey
  <2>2. PICK f \in Form : forms' = [forms EXCEPT ![c] = f] /\ f.at = "checking" /\ f.key = k
    BY <2>1, GoMoves
  <2>3. QED
    BY <1>2, <2>1, <2>2, FormMoves, AnswersStand
<1>3. CASE records[k].account # 0
  <2>1. Leave(c) /\ UNCHANGED <<accounts, records>>
        /\ (answers' = answers \/ (records[k].email = e /\ answers' = answers \cup {a}))
    BY <1>3 DEF Reserve
  <2>2. CASE records[k].email = e
    <3>1. Named(k, e, records[k].account)
      BY <1>1, <1>3, <2>2 DEF RegistrationInv, RecordsNamed
    <3>2. a \in GivenAnswer /\ Named(a.key, a.email, a.account)
      BY <1>1, <3>1 DEF GivenAnswer, Named
    <3>3. QED
      BY <2>1, <3>2, LeaveKeeps, AnswersStand
  <2>3. CASE records[k].email # e
    BY <2>1, <2>3, LeaveKeeps, AnswersStand
  <2>4. QED
    BY <2>2, <2>3
<1>4. QED
  BY <1>2, <1>3

LEMMA CheckKeeps ==
  ASSUME RegistrationInv, NEW c \in Registrants, CheckEmail(c)
  PROVE  RegistrationInv'
<1>1. forms[c].at = "checking" /\ UNCHANGED <<accounts, records, answers>>
  BY DEF CheckEmail
<1>2. CASE Registered(forms[c].email)
  BY <1>1, <1>2, LeaveKeeps, AnswersStand DEF CheckEmail
<1>3. CASE ~Registered(forms[c].email)
  <2>1. PICK f \in Form : forms' = [forms EXCEPT ![c] = f] /\ f.at = "inserting" /\ f.key = forms[c].key
    BY <1>3, GoMoves DEF CheckEmail
  <2>2. /\ records[f.key].account = 0
        /\ \A d \in Registrants \ {c} : ~(forms[d].key = f.key /\ forms[d].at \in UseKey)
    BY <1>1, <2>1 DEF RegistrationInv, HoldersApart, ChecksStand, UseKey
  <2>3. QED
    BY <1>1, <2>1, <2>2, FormMoves, AnswersStand
<1>4. QED
  BY <1>2, <1>3

LEMMA InsertKeeps ==
  ASSUME RegistrationInv, NEW c \in Registrants, InsertUser(c)
  PROVE  RegistrationInv'
<1>1. forms[c].at = "inserting" /\ UNCHANGED <<accounts, records, answers>>
      /\ \A d \in Registrants \ {c} : ~HoldsEmail(d, forms[c].email)
  BY DEF InsertUser, Others
<1>2. CASE Registered(forms[c].email)
  BY <1>1, <1>2, LeaveKeeps, AnswersStand DEF InsertUser
<1>3. CASE ~Registered(forms[c].email)
  <2>1. PICK f \in Form : /\ forms' = [forms EXCEPT ![c] = f] /\ f.at = "committing"
                          /\ f.key = forms[c].key /\ f.email = forms[c].email
    BY <1>3, GoMoves DEF InsertUser
  <2>2. /\ records[f.key].account = 0
        /\ \A d \in Registrants \ {c} : ~(forms[d].key = f.key /\ forms[d].at \in UseKey)
    BY <1>1, <2>1 DEF RegistrationInv, HoldersApart, ChecksStand, UseKey
  <2>3. \A i \in DOMAIN accounts : accounts[i].email # f.email
    BY <1>3, <2>1 DEF Registered
  <2>4. QED
    BY <1>1, <2>1, <2>2, <2>3, FormMoves, AnswersStand
<1>4. QED
  BY <1>2, <1>3

LEMMA CommitKeeps ==
  ASSUME RegistrationInv, NEW c \in Registrants, CommitRegistration(c)
  PROVE  RegistrationInv'
<1> DEFINE k == forms[c].key
           e == forms[c].email
           id == Len(accounts) + 1
           row == [email |-> e, key |-> k]
<1>1. /\ forms[c].at = "committing" /\ k \in RegistrationKeys /\ e \in Emails
      /\ accounts \in Seq([email : Emails, key : RegistrationKeys]) /\ id \in Nat
  BY DEF CommitRegistration, RegistrationInv, RegistrationTypeOK
<1>2. /\ accounts' = Append(accounts, row)
      /\ accounts' \in Seq([email : Emails, key : RegistrationKeys])
      /\ Len(accounts') = id /\ accounts'[id] = row
      /\ DOMAIN accounts' = DOMAIN accounts \cup {id} /\ id \notin DOMAIN accounts
      /\ DOMAIN accounts = 1 .. Len(accounts)
      /\ \A i \in DOMAIN accounts : accounts'[i] = accounts[i]
  BY <1>1 DEF CommitRegistration
<1>3. /\ records' = [records EXCEPT ![k] = [email |-> e, account |-> id]]
      /\ forms' = [forms EXCEPT ![c].at = "delivering", ![c].account = id]
      /\ answers' = answers
  BY DEF CommitRegistration
<1>4. /\ forms'[c].at = "delivering" /\ forms'[c].key = k /\ forms'[c].email = e /\ forms'[c].account = id
      /\ \A d \in Registrants : d # c => forms'[d] = forms[d]
  BY <1>1, <1>3 DEF RegistrationInv, RegistrationTypeOK
<1> HIDE DEF k, e, id, row
<1>5. RegistrationTypeOK'
  <2>1. records' \in [RegistrationKeys -> [email : Emails, account : 0 .. Len(accounts')]]
    BY <1>1, <1>2, <1>3 DEF RegistrationInv, RegistrationTypeOK, id
  <2>2. forms' \in [Registrants -> [at : {"idle", "reserving", "checking", "inserting",
                                          "committing", "delivering"},
                                    key : RegistrationKeys, email : Emails,
                                    account : 0 .. Len(accounts')]]
    BY <1>1, <1>2, <1>3 DEF RegistrationInv, RegistrationTypeOK, id
  <2>3. answers' \subseteq [key : RegistrationKeys, email : Emails, account : DOMAIN accounts']
    BY <1>2, <1>3 DEF RegistrationInv, RegistrationTypeOK
  <2>4. QED
    BY <1>2, <2>1, <2>2, <2>3 DEF RegistrationTypeOK
<1>6. HoldersApart'
  BY <1>1, <1>4 DEF RegistrationInv, HoldersApart, UseKey
<1>7. ChecksStand'
  <2>1. ASSUME NEW d \in Registrants, forms'[d].at \in UseKey
        PROVE  records'[forms'[d].key].account = 0
    <3>1. d # c /\ forms'[d] = forms[d]
      BY <1>4, <2>1 DEF UseKey
    <3>2. forms[d].key # k /\ forms[d].key \in RegistrationKeys
      BY <1>1, <2>1, <3>1 DEF RegistrationInv, HoldersApart, RegistrationTypeOK, UseKey, k
    <3>3. QED
      BY <1>3, <2>1, <3>1, <3>2 DEF RegistrationInv, ChecksStand, RegistrationTypeOK
  <2>2. ASSUME NEW d \in Registrants, forms'[d].at = "committing", NEW i \in DOMAIN accounts'
        PROVE  accounts'[i].email # forms'[d].email
    <3>1. d # c /\ forms'[d] = forms[d]
      BY <1>4, <2>2
    <3>2. forms[d].email # e
      BY <1>1, <2>2, <3>1 DEF RegistrationInv, HoldersApart, e
    <3>3. QED
      BY <1>2, <2>2, <3>1, <3>2 DEF RegistrationInv, ChecksStand, row
  <2>3. QED
    BY <2>1, <2>2 DEF ChecksStand
<1>8. ASSUME NEW a, NEW b, NEW i, Named(a, b, i)
      PROVE  Named(a, b, i)'
  BY <1>2, <1>8 DEF Named
<1>9. AnswersNamed'
  <2>1. ASSUME NEW d \in Registrants, forms'[d].at = "delivering"
        PROVE  Named(forms[d].key, forms[d].email, forms[d].account)'
    <3>1. CASE d = c
      BY <1>2, <1>4, <3>1 DEF Named, row
    <3>2. CASE d # c
      <4>1. forms'[d] = forms[d] /\ Named(forms[d].key, forms[d].email, forms[d].account)
        BY <1>4, <2>1, <3>2 DEF RegistrationInv, AnswersNamed
      <4>2. QED
        BY <1>2, <4>1 DEF Named
    <3>3. QED
      BY <3>1, <3>2
  <2>2. ASSUME NEW a \in answers'
        PROVE  Named(a.key, a.email, a.account)'
    <3>1. Named(a.key, a.email, a.account)
      BY <1>3, <2>2 DEF RegistrationInv, AnswersNamed
    <3>2. QED
      BY <1>2, <3>1 DEF Named
  <2>3. QED
    BY <2>1, <2>2 DEF AnswersNamed
<1>10. RecordsNamed'
  <2>1. ASSUME NEW l \in RegistrationKeys, records'[l].account # 0
        PROVE  Named(l, records[l].email, records[l].account)' 
    <3>1. CASE l = k
      BY <1>1, <1>2, <1>3, <3>1 DEF Named, row, RegistrationInv, RegistrationTypeOK
    <3>2. CASE l # k
      BY <1>3, <1>8, <2>1, <3>2 DEF RegistrationInv, RecordsNamed, RegistrationTypeOK
    <3>3. QED
      BY <3>1, <3>2
  <2>2. ASSUME NEW i \in DOMAIN accounts'
        PROVE  records'[accounts'[i].key].account = i
    <3>1. CASE i = id
      BY <1>1, <1>2, <1>3, <3>1 DEF row, RegistrationInv, RegistrationTypeOK
    <3>2. CASE i # id
      <4>1. i \in DOMAIN accounts /\ accounts'[i] = accounts[i] /\ i # 0
        BY <1>2, <2>2, <3>2
      <4>2. records[accounts[i].key].account = i /\ records[k].account = 0
        BY <1>1, <4>1 DEF RegistrationInv, RecordsNamed, ChecksStand, UseKey, k
      <4>3. accounts[i].key # k /\ accounts[i].key \in RegistrationKeys
        <5>1. accounts[i] \in [email : Emails, key : RegistrationKeys]
          BY <1>1, <1>2, <4>1, Element
        <5>2. QED
          BY <4>1, <4>2, <5>1
      <4>4. QED
        BY <1>3, <4>1, <4>2, <4>3 DEF RegistrationInv, RegistrationTypeOK
    <3>3. QED
      BY <3>1, <3>2
  <2>3. QED
    BY <2>1, <2>2 DEF RecordsNamed
<1>11. OneAccountPerEmail'
  <2>1. \A i \in DOMAIN accounts : accounts[i].email # e
    BY <1>1 DEF RegistrationInv, ChecksStand, e
  <2>2. QED
    BY <1>2, <2>1 DEF RegistrationInv, OneAccountPerEmail, row
<1>12. QED
  BY <1>5, <1>6, <1>7, <1>9, <1>10, <1>11 DEF RegistrationInv

LEMMA DeliverKeeps ==
  ASSUME RegistrationInv, NEW c \in Registrants, DeliverCode(c)
  PROVE  RegistrationInv'
<1> DEFINE a == [key |-> forms[c].key, email |-> forms[c].email, account |-> forms[c].account]
<1>1. /\ forms[c].at = "delivering" /\ Leave(c) /\ UNCHANGED <<accounts, records>>
      /\ answers' = answers \cup {a}
  BY DEF DeliverCode
<1>2. Named(a.key, a.email, a.account) /\ a.key \in RegistrationKeys /\ a.email \in Emails
  BY <1>1 DEF RegistrationInv, RegistrationTypeOK, AnswersNamed
<1>3. a \in GivenAnswer
  BY <1>2 DEF GivenAnswer, Named
<1> HIDE DEF a
<1>4. QED
  BY <1>1, <1>2, <1>3, LeaveKeeps, AnswersStand

LEMMA RegistrationStep == RegistrationInv /\ [RegistrationNext]_registrationVars => RegistrationInv'
<1> SUFFICES ASSUME RegistrationInv, [RegistrationNext]_registrationVars
             PROVE  RegistrationInv'
  OBVIOUS
<1>1. CASE UNCHANGED registrationVars
  BY <1>1 DEF registrationVars, RegistrationInv, RegistrationTypeOK, HoldersApart, ChecksStand, AnswersNamed,
     RecordsNamed, OneAccountPerEmail, Named
<1>2. ASSUME NEW c \in Registrants, RegistrantDies(c)
      PROVE  RegistrationInv'
  BY <1>2, LeaveKeeps, AnswersStand DEF RegistrantDies
<1>3. QED
  BY <1>1, <1>2, FormSubmitKeeps, ReserveKeeps, CheckKeeps, InsertKeeps, CommitKeeps, DeliverKeeps
     DEF RegistrationNext

LEMMA RegistrationSafe == RegistrationSpec => []RegistrationInv
  BY RegistrationStarts, RegistrationStep, PTL DEF RegistrationSpec

\* The rows, requests and answers keep their types.
THEOREM RegistrationTypeCorrect == RegistrationSpec => []RegistrationTypeOK
<1>1. RegistrationInv => RegistrationTypeOK
  BY DEF RegistrationInv
<1>2. QED
  BY <1>1, RegistrationSafe, PTL

\* However registrations overlap between looking an address up, inserting it and
\* committing, no two accounts have one address (IdentityService.register).
THEOREM AddressesAreUnique == RegistrationSpec => []OneAccountPerEmail
<1>1. RegistrationInv => OneAccountPerEmail
  BY DEF RegistrationInv
<1>2. QED
  BY <1>1, RegistrationSafe, PTL

\* An answer names the account its record does.
LEMMA AnswersMatch ==
  ASSUME RegistrationInv
  PROVE  KeysNameTheirAccount
<1>1. ASSUME NEW a \in answers, NEW b \in answers, a.key = b.key
      PROVE  a = b
  <2>1. a \in [key : RegistrationKeys, email : Emails, account : DOMAIN accounts]
        /\ b \in [key : RegistrationKeys, email : Emails, account : DOMAIN accounts]
    BY DEF RegistrationInv, RegistrationTypeOK
  <2>2. /\ accounts[a.account] = [email |-> a.email, key |-> a.key]
        /\ accounts[b.account] = [email |-> b.email, key |-> b.key]
    BY DEF RegistrationInv, AnswersNamed, Named
  <2>3. records[a.key].account = a.account /\ records[b.key].account = b.account
    BY <2>1, <2>2 DEF RegistrationInv, RecordsNamed
  <2>4. QED
    BY <1>1, <2>1, <2>2, <2>3
<1>2. \A a \in answers : accounts[a.account].email = a.email
  <2>1. SUFFICES ASSUME NEW a \in answers
                 PROVE  accounts[a.account].email = a.email
    OBVIOUS
  <2>2. accounts[a.account] = [email |-> a.email, key |-> a.key]
    BY DEF RegistrationInv, AnswersNamed, Named
  <2>3. QED
    BY <2>2
<1>3. /\ \A k \in RegistrationKeys : records[k].account # 0 =>
            accounts[records[k].account] = [email |-> records[k].email, key |-> k]
      /\ \A i \in DOMAIN accounts : records[accounts[i].key].account = i
  BY DEF RegistrationInv, RecordsNamed, Named
<1>4. QED
  BY <1>1, <1>2, <1>3 DEF KeysNameTheirAccount

\* However requests with one key overlap, are repeated or die, the key has one
\* effect and everyone is answered the same (IdempotencyRepository.reserve).
THEOREM KeysHaveOneEffect == RegistrationSpec => []KeysNameTheirAccount
  BY AnswersMatch, RegistrationSafe, PTL

-----------------------------------------------------------------------------
(* Access: changes under the lock, and the cache that follows them.        *)

Holding == {"user", "grant"}
Reading == {"lookup", "seller", "store"}

Unspent(row) == ~row.consumed /\ row.tries < MaxTries

\* What a change relies on when it commits: it locked the user before it read
\* the row, and its challenge is still the one it found usable.
ChangesLocked ==
    \A c \in Callers :
        /\ work[c].at = "grant" => locked["user"] = c /\ work[c].seen = account
        /\ work[c].at \in Holding => work[c].change \in Kinds \cup {"seller"}
        /\ work[c].at \in Holding /\ work[c].change \in Kinds =>
              locked[work[c].change] = c /\ Unspent(challenge[work[c].change])

\* e is no newer than the account, and under its version tells what is verified.
Fresh(e) ==
    /\ e.version <= account.version
    /\ e.version = account.version => e.email = account.email /\ e.phone = account.phone

\* ... and whether there is a seller profile.
Complete(e) == Fresh(e) /\ (e.version = account.version => e.seller = account.seller)

ReadsFresh ==
    /\ \A c \in Callers : work[c].at \in Reading => Fresh(work[c].seen)
    /\ \A c \in Callers : work[c].at = "store" => Complete(work[c].seen)
    /\ Complete(cached)

AccessInv == AccessTypeOK /\ ChangesLocked /\ VersionCountsGrants /\ ReadsFresh

Work == [at : {"idle", "user", "grant", "invalidate", "lookup", "seller", "store"},
         change : Kinds \cup {"seller", "none"}, seen : Access]

-----------------------------------------------------------------------------
LEMMA Records ==
  /\ NewAccount \in Access
  /\ NoEntry \in Access /\ NoEntry.version = 0
  /\ NoWork \in Work
<1>1. NewAccount \in Access
  BY DEF NewAccount, Access
<1>2. NoEntry \in Access /\ NoEntry.version = 0
  BY <1>1 DEF NoEntry, Access
<1>3. QED
  BY <1>1, <1>2 DEF NoWork, Work

LEMMA AccessStarts == AccessInit => AccessInv
<1> SUFFICES ASSUME AccessInit PROVE AccessInv
  OBVIOUS
<1>1. AccessTypeOK
  BY AccessAssumption, Records DEF AccessInit, AccessTypeOK, Work
<1>2. ChangesLocked
  BY DEF AccessInit, ChangesLocked, NoWork, Holding
<1>3. VersionCountsGrants
  BY DEF AccessInit, VersionCountsGrants, NewAccount, Kinds
<1>4. ReadsFresh
  <2>1. account.version = 1 /\ cached.version = 0 /\ \A c \in Callers : work[c].at = "idle"
    BY Records DEF AccessInit, NewAccount, NoWork
  <2>2. QED
    BY <2>1 DEF ReadsFresh, Fresh, Complete, Reading
<1>5. QED
  BY <1>1, <1>2, <1>3, <1>4 DEF AccessInv

\* A request that moves on while the account stays, when what it then relies
\* on holds; locks may be taken, and those it held be given up.
LEMMA CallerMoves ==
  ASSUME AccessInv, NEW c \in Callers, NEW w \in Work,
         work' = [work EXCEPT ![c] = w], UNCHANGED <<account, challenge>>,
         locked' \in [Rows -> Callers \cup {Nobody}],
         \A r \in Rows : locked[r] \in Callers \ {c} => locked'[r] = locked[r],
         w.at = "grant" => locked'["user"] = c /\ w.seen = account,
         w.at \in Holding => w.change \in Kinds \cup {"seller"},
         w.at \in Holding /\ w.change \in Kinds =>
             locked'[w.change] = c /\ Unspent(challenge[w.change]),
         w.at \in Reading => Fresh(w.seen),
         w.at = "store" => Complete(w.seen),
         cached' \in Access, Complete(cached')
  PROVE  AccessInv'
<1>1. work \in [Callers -> Work] /\ work' \in [Callers -> Work]
  BY DEF AccessInv, AccessTypeOK, Work
<1>2. work'[c] = w /\ \A d \in Callers \ {c} : work'[d] = work[d]
  BY <1>1
<1>3. AccessTypeOK'
  BY <1>1 DEF AccessInv, AccessTypeOK, Work
<1>4. ChangesLocked'
  <2>1. ASSUME NEW d \in Callers \ {c}
        PROVE  /\ work'[d].at = "grant" => locked'["user"] = d /\ work'[d].seen = account'
               /\ work'[d].at \in Holding => work'[d].change \in Kinds \cup {"seller"}
               /\ work'[d].at \in Holding /\ work'[d].change \in Kinds =>
                     locked'[work'[d].change] = d /\ Unspent(challenge'[work'[d].change])
    BY <1>2, <2>1 DEF AccessInv, ChangesLocked, Rows
  <2>2. QED
    BY <1>2, <2>1 DEF ChangesLocked
<1>5. VersionCountsGrants'
  BY DEF AccessInv, VersionCountsGrants
<1>6. ReadsFresh'
  BY <1>2 DEF AccessInv, ReadsFresh, Fresh, Complete
<1>7. QED
  BY <1>3, <1>4, <1>5, <1>6 DEF AccessInv

LEMMA AccessFacts ==
  ASSUME AccessInv, NEW c \in Callers
  PROVE  /\ account \in Access /\ cached \in Access /\ work[c] \in Work
         /\ work \in [Callers -> Work] /\ locked \in [Rows -> Callers \cup {Nobody}]
         /\ NoWork \in Work /\ NoEntry \in Access /\ Complete(NoEntry) /\ Complete(cached)
         /\ account.version \in Nat \ {0} /\ Complete(account)
<1>1. /\ account \in Access /\ cached \in Access /\ work \in [Callers -> Work]
      /\ locked \in [Rows -> Callers \cup {Nobody}]
  BY DEF AccessInv, AccessTypeOK, Work
<1>2. Complete(cached)
  BY DEF AccessInv, ReadsFresh
<1>3. account.version \in Nat \ {0}
  BY <1>1 DEF AccessInv, VersionCountsGrants, Access
<1>4. Complete(account)
  BY <1>3 DEF Complete, Fresh
<1>5. Complete(NoEntry)
  <2>1. NoEntry.version = 0
    BY Records
  <2>2. QED
    BY <1>3, <2>1 DEF Complete, Fresh
<1>6. QED
  BY <1>1, <1>2, <1>3, <1>4, <1>5, Records

\* What a request turns into when only some fields change.
LEMMA WorkFields ==
  ASSUME NEW w \in Work, NEW a \in {"idle", "user", "grant", "invalidate", "lookup", "seller", "store"},
         NEW s \in Access, NEW b \in BOOLEAN
  PROVE  /\ [w EXCEPT !.at = a] \in Work
         /\ [w EXCEPT !.at = a, !.seen = s] \in Work
         /\ [w EXCEPT !.at = a, !.seen.seller = b] \in Work
         /\ [w EXCEPT !.at = a, !.seen.seller = b].seen = [w.seen EXCEPT !.seller = b]
  BY DEF Work, Access

\* A request that ends: its locks are given up.
LEMMA LeavingKeeps ==
  ASSUME AccessInv, NEW c \in Callers, Done(c), Unlock(c) \/ UNCHANGED locked,
         UNCHANGED <<account, challenge>>, cached' \in Access, Complete(cached')
  PROVE  AccessInv'
<1>1. work' = [work EXCEPT ![c] = NoWork] /\ NoWork \in Work /\ NoWork.at = "idle"
  BY Records DEF Done, NoWork
<1>2. /\ locked' \in [Rows -> Callers \cup {Nobody}]
      /\ \A r \in Rows : locked[r] \in Callers \ {c} => locked'[r] = locked[r]
  BY AccessFacts DEF Unlock
<1>3. QED
  BY <1>1, <1>2, CallerMoves DEF Holding, Reading

LEMMA RightKeeps ==
  ASSUME AccessInv, NEW c \in Callers, NEW k \in Kinds, RightCode(c, k)
  PROVE  AccessInv'
<1> DEFINE w == [NoWork EXCEPT !.at = "user", !.change = k]
<1>1. w \in Work /\ w.at = "user" /\ w.change = k
  BY Records DEF Work, NoWork
<1>2. work' = [work EXCEPT ![c] = w] /\ UNCHANGED <<account, challenge, cached>>
      /\ Unspent(challenge[k]) /\ locked[k] = Nobody /\ locked' = [locked EXCEPT ![k] = c]
  BY DEF RightCode, Usable, Unspent
<1>3. /\ locked' \in [Rows -> Callers \cup {Nobody}] /\ locked'[k] = c
      /\ \A r \in Rows : locked[r] \in Callers \ {c} => locked'[r] = locked[r]
  BY <1>2, AccessFacts, AccessAssumption DEF Rows
<1> HIDE DEF w
<1>4. QED
  BY <1>1, <1>2, <1>3, AccessFacts, CallerMoves DEF Reading

LEMMA SellerKeeps ==
  ASSUME AccessInv, NEW c \in Callers, CreateSellerProfile(c)
  PROVE  AccessInv'
<1> DEFINE w == [NoWork EXCEPT !.at = "user", !.change = "seller"]
<1>1. w \in Work /\ w.at = "user" /\ w.change = "seller" /\ w.change \notin Kinds
  BY Records DEF Work, NoWork, Kinds
<1>2. work' = [work EXCEPT ![c] = w] /\ UNCHANGED <<account, challenge, cached, locked>>
  BY DEF CreateSellerProfile
<1> HIDE DEF w
<1>3. QED
  BY <1>1, <1>2, AccessFacts, CallerMoves DEF Reading

LEMMA LockKeeps ==
  ASSUME AccessInv, NEW c \in Callers, LockUser(c)
  PROVE  AccessInv'
<1> DEFINE w == [work[c] EXCEPT !.at = "grant", !.seen = account]
<1>1. w \in Work /\ w.at = "grant" /\ w.seen = account /\ w.change = work[c].change
  BY AccessFacts DEF Work
<1>2. work' = [work EXCEPT ![c] = w] /\ UNCHANGED <<account, challenge, cached>>
      /\ work[c].at = "user" /\ locked["user"] = Nobody /\ locked' = [locked EXCEPT !["user"] = c]
  BY DEF LockUser
<1>3. /\ locked' \in [Rows -> Callers \cup {Nobody}] /\ locked'["user"] = c
      /\ \A r \in Rows : locked[r] \in Callers \ {c} => locked'[r] = locked[r]
      /\ \A k \in Kinds : locked'[k] = locked[k]
  BY <1>2, AccessFacts, AccessAssumption DEF Rows, Kinds
<1>4. /\ work[c].change \in Kinds \cup {"seller"}
      /\ work[c].change \in Kinds => locked[work[c].change] = c /\ Unspent(challenge[work[c].change])
  BY <1>2 DEF AccessInv, ChangesLocked, Holding
<1> HIDE DEF w
<1>5. QED
  <2>1. w.change \in Kinds => locked'[w.change] = c /\ Unspent(challenge[w.change])
    BY <1>1, <1>3, <1>4
  <2>2. QED
    BY <1>1, <1>2, <1>3, <1>4, <2>1, AccessFacts, CallerMoves DEF Reading

LEMMA GrantKeeps ==
  ASSUME AccessInv, NEW c \in Callers, Grant(c)
  PROVE  AccessInv'
<1> DEFINE change == work[c].change
<1>1. /\ work[c].at = "grant" /\ Unlock(c) /\ UNCHANGED cached
      /\ locked["user"] = c /\ work[c].seen = account /\ change \in Kinds \cup {"seller"}
      /\ change \in Kinds => locked[change] = c /\ Unspent(challenge[change])
  BY DEF Grant, AccessInv, ChangesLocked, Holding
<1>2. CASE Done(c) /\ UNCHANGED <<account, challenge>>
  BY <1>1, <1>2, AccessFacts, LeavingKeeps
<1> DEFINE w == [work[c] EXCEPT !.at = "invalidate"]
<1>3. w \in Work /\ w.at = "invalidate"
  BY AccessFacts DEF Work
<1>4. /\ locked' \in [Rows -> Callers \cup {Nobody}]
      /\ \A r \in Rows : locked[r] \in Callers \ {c} => locked'[r] = locked[r]
  BY <1>1, AccessFacts DEF Unlock
<1>5. CASE Proceed(c, "invalidate") /\ UNCHANGED <<account, challenge>>
  <2>1. work' = [work EXCEPT ![c] = w]
    BY <1>5 DEF Proceed
  <2> HIDE DEF w
  <2>2. QED
    BY <1>1, <1>3, <1>4, <1>5, <2>1, AccessFacts, CallerMoves DEF Holding, Reading
<1>6. CASE /\ Proceed(c, "invalidate")
           /\ account' = [account EXCEPT ![change] = TRUE, !.version = @ + 1]
           /\ challenge' = IF change \in Kinds THEN [challenge EXCEPT ![change].consumed = TRUE]
                           ELSE challenge
           /\ change = "seller" => ~account.seller
  <2>1. work' = [work EXCEPT ![c] = w] /\ work \in [Callers -> Work]
    BY <1>6, AccessFacts DEF Proceed
  <2>2. work'[c] = w /\ \A d \in Callers \ {c} : work'[d] = work[d]
    BY <2>1
  <2>3. account' \in Access /\ account'.version = account.version + 1 /\ account.version \in Nat
    <3>1. account \in Access /\ account.version \in Nat
      BY AccessFacts DEF Access
    <3>2. change \in {"email", "phone", "seller"}
      BY <1>1 DEF Kinds
    <3>3. account' \in Access
      <4> DEFINE n == account.version + 1
      <4>1. n \in Nat
        BY <3>1
      <4>2. account' = [account EXCEPT ![change] = TRUE, !.version = n]
        BY <1>6
      <4> HIDE DEF n
      <4>3. QED
        BY <3>1, <3>2, <4>1, <4>2 DEF Access
    <3>4. account'.version = account.version + 1
      BY <1>6, <3>1, <3>2 DEF Access
    <3>5. QED
      BY <3>1, <3>3, <3>4
  <2>4. /\ challenge' \in [Kinds -> [tries : 0 .. MaxTries, consumed : BOOLEAN, lapsed : BOOLEAN]]
        /\ \A k \in Kinds : /\ challenge'[k].consumed <=> challenge[k].consumed \/ k = change
                            /\ challenge'[k].tries = challenge[k].tries
    <3>1. challenge \in [Kinds -> [tries : 0 .. MaxTries, consumed : BOOLEAN, lapsed : BOOLEAN]]
      BY DEF AccessInv, AccessTypeOK
    <3>2. CASE change \in Kinds
      BY <1>6, <3>1, <3>2
    <3>3. CASE change \notin Kinds
      BY <1>6, <3>1, <3>3
    <3>4. QED
      BY <3>2, <3>3
  <2>5. AccessTypeOK'
    <3>1. work' \in [Callers -> Work]
      BY <1>3, <2>1
    <3>2. QED
      BY <1>1, <1>4, <2>3, <2>4, <3>1 DEF AccessInv, AccessTypeOK, Work
  <2>6. ChangesLocked'
    <3>1. ASSUME NEW d \in Callers \ {c}
          PROVE  /\ work[d].at # "grant"
                 /\ work[d].at \in Holding => work[d].change \in Kinds \cup {"seller"}
                 /\ work[d].at \in Holding /\ work[d].change \in Kinds =>
                       locked'[work[d].change] = d /\ Unspent(challenge'[work[d].change])
      <4>1. work[d].at # "grant" /\ (work[d].at \in Holding => work[d].change \in Kinds \cup {"seller"})
        BY <1>1 DEF AccessInv, ChangesLocked
      <4>2. ASSUME work[d].at \in Holding, work[d].change \in Kinds
            PROVE  locked'[work[d].change] = d /\ Unspent(challenge'[work[d].change])
        <5>1. locked[work[d].change] = d /\ Unspent(challenge[work[d].change]) /\ work[d].change \in Rows
          BY <4>2 DEF AccessInv, ChangesLocked, Rows
        <5>2. work[d].change # change
          BY <1>1, <4>2, <5>1
        <5>3. QED
          BY <1>4, <2>4, <4>2, <5>1, <5>2 DEF Unspent
      <4>3. QED
        BY <4>1, <4>2
    <3>2. ASSUME NEW d \in Callers
          PROVE  /\ work'[d].at = "grant" => locked'["user"] = d /\ work'[d].seen = account'
                 /\ work'[d].at \in Holding => work'[d].change \in Kinds \cup {"seller"}
                 /\ work'[d].at \in Holding /\ work'[d].change \in Kinds =>
                       locked'[work'[d].change] = d /\ Unspent(challenge'[work'[d].change])
      <4>1. CASE d = c
        BY <1>3, <2>2, <4>1 DEF Holding
      <4>2. CASE d # c
        <5>1. work'[d] = work[d]
          BY <1>3, <2>2, <4>2
        <5>2. QED
          BY <3>1, <4>2, <5>1
      <4>3. QED
        BY <4>1, <4>2
    <3>3. QED
      BY <3>2 DEF ChangesLocked
  <2>7. VersionCountsGrants'
    <3>1. /\ account.email <=> challenge["email"].consumed
          /\ account.phone <=> challenge["phone"].consumed
      BY DEF AccessInv, VersionCountsGrants, Kinds
    <3>2. CASE change = "seller"
      <4>1. account'.email = account.email /\ account'.phone = account.phone /\ account'.seller = TRUE
            /\ account.seller = FALSE
        BY <1>6, <3>2, AccessFacts DEF Access
      <4>2. QED
        BY <2>3, <2>4, <3>1, <3>2, <4>1 DEF AccessInv, VersionCountsGrants, Kinds
    <3>3. CASE change = "email"
      <4>1. account'.email = TRUE /\ account'.phone = account.phone /\ account'.seller = account.seller
            /\ account.email = FALSE
        BY <1>1, <1>6, <3>1, <3>3, AccessFacts DEF Access, Kinds, Unspent
      <4>2. QED
        BY <2>3, <2>4, <3>1, <3>3, <4>1 DEF AccessInv, VersionCountsGrants, Kinds
    <3>4. CASE change = "phone"
      <4>1. account'.email = account.email /\ account'.phone = TRUE /\ account'.seller = account.seller
            /\ account.phone = FALSE
        BY <1>1, <1>6, <3>1, <3>4, AccessFacts DEF Access, Kinds, Unspent
      <4>2. QED
        BY <2>3, <2>4, <3>1, <3>4, <4>1 DEF AccessInv, VersionCountsGrants, Kinds
    <3>5. QED
      BY <1>1, <3>2, <3>3, <3>4 DEF Kinds
  <2>8. ReadsFresh'
    <3>1. ASSUME NEW e \in Access, e.version <= account.version
          PROVE  e.version <= account'.version /\ e.version # account'.version
      <4>1. e.version \in Nat
        BY DEF Access
      <4>2. QED
        BY <2>3, <3>1, <4>1
    <3>2. Complete(cached)'
      <4>1. cached \in Access /\ cached.version <= account.version
        BY AccessFacts DEF Complete, Fresh
      <4>2. QED
        BY <1>1, <3>1, <4>1 DEF Complete, Fresh
    <3>3. ASSUME NEW d \in Callers, work'[d].at \in Reading
          PROVE  work'[d].seen.version <= account'.version /\ work'[d].seen.version # account'.version
      <4>1. d # c /\ work'[d] = work[d]
        BY <1>3, <2>2, <3>3 DEF Reading
      <4>2. work[d].seen.version <= account.version /\ work[d].seen \in Access
        BY <2>1, <3>3, <4>1 DEF AccessInv, ReadsFresh, Fresh, Work
      <4>3. QED
        BY <3>1, <4>1, <4>2
    <3>4. QED
      BY <3>2, <3>3 DEF ReadsFresh, Complete, Fresh, Reading
  <2>9. QED
    BY <2>5, <2>6, <2>7, <2>8 DEF AccessInv
<1> HIDE DEF w
<1>7. CASE ~Permitted(change, account.status)
  BY <1>1, <1>2, <1>7 DEF Grant
<1>8. CASE Permitted(change, account.status)
  <2>1. CASE change = "seller" /\ account.seller
    BY <1>1, <1>5, <1>8, <2>1 DEF Grant, Kinds
  <2>2. CASE ~(change = "seller" /\ account.seller)
    BY <1>1, <1>6, <1>8, <2>2 DEF Grant
  <2>3. QED
    BY <2>1, <2>2
<1>9. QED
  BY <1>7, <1>8

-----------------------------------------------------------------------------
\* Steps outside the rows a change holds.

LEMMA ReadKeeps ==
  ASSUME AccessInv, NEW c \in Callers, ReadAccount(c) \/ LookUp(c) \/ ReadSeller(c) \/ StoreEntry(c)
  PROVE  AccessInv'
<1>1. CASE ReadAccount(c)
  <2> DEFINE w == [NoWork EXCEPT !.at = "lookup", !.seen = account]
  <2>1. w \in Work /\ w.at = "lookup" /\ w.seen = account
    BY AccessFacts DEF Work
  <2>2. work' = [work EXCEPT ![c] = w] /\ UNCHANGED <<account, challenge, cached, locked>>
    BY <1>1 DEF ReadAccount
  <2> HIDE DEF w
  <2>3. QED
    BY <2>1, <2>2, AccessFacts, CallerMoves DEF Holding, Complete
<1>2. CASE LookUp(c) /\ Done(c)
  BY <1>2, AccessFacts, LeavingKeeps DEF LookUp
<1>3. CASE LookUp(c) /\ Proceed(c, "seller")
  <2> DEFINE w == [work[c] EXCEPT !.at = "seller"]
  <2>1. w \in Work /\ w.at = "seller" /\ w.seen = work[c].seen
    BY AccessFacts DEF Work
  <2>2. work' = [work EXCEPT ![c] = w] /\ UNCHANGED <<account, challenge, cached, locked>>
    BY <1>3 DEF LookUp, Proceed
  <2>3. Fresh(work[c].seen)
    BY <1>3 DEF LookUp, AccessInv, ReadsFresh, Reading
  <2> HIDE DEF w
  <2>4. QED
    BY <2>1, <2>2, <2>3, AccessFacts, CallerMoves DEF Holding
<1>4. CASE ReadSeller(c)
  <2> DEFINE w == [work[c] EXCEPT !.at = "store", !.seen.seller = account.seller]
  <2>1. Fresh(work[c].seen)
    BY <1>4 DEF ReadSeller, AccessInv, ReadsFresh, Reading
  <2>2. /\ w \in Work /\ w.at = "store" /\ w.seen.seller = account.seller
        /\ w.seen.version = work[c].seen.version /\ w.seen.email = work[c].seen.email
        /\ w.seen.phone = work[c].seen.phone
    <3> DEFINE seen == [work[c].seen EXCEPT !.seller = account.seller]
    <3>1. work[c] \in Work /\ work[c].seen \in Access /\ account \in Access
      BY AccessFacts DEF Work
    <3>2. /\ seen \in Access /\ seen.seller = account.seller /\ seen.version = work[c].seen.version
          /\ seen.email = work[c].seen.email /\ seen.phone = work[c].seen.phone
      BY <3>1 DEF Access
    <3>3. w = [[work[c] EXCEPT !.at = "store"] EXCEPT !.seen = seen]
      BY <3>1 DEF Work
    <3> HIDE DEF seen
    <3>4. w \in Work /\ w.at = "store" /\ w.seen = seen
      BY <3>1, <3>2, <3>3 DEF Work
    <3>5. QED
      BY <3>2, <3>4
  <2>3. work' = [work EXCEPT ![c] = w] /\ UNCHANGED <<account, challenge, cached, locked>>
    BY <1>4 DEF ReadSeller
  <2> HIDE DEF w
  <2>4. Fresh(w.seen) /\ Complete(w.seen)
    BY <2>1, <2>2 DEF Fresh, Complete
  <2>5. QED
    BY <2>2, <2>3, <2>4, AccessFacts, CallerMoves DEF Holding
<1>5. CASE StoreEntry(c)
  <2>1. Complete(work[c].seen) /\ work[c].seen \in Access
    BY <1>5, AccessFacts DEF StoreEntry, AccessInv, ReadsFresh, Work
  <2>2. cached' \in Access /\ Complete(cached') /\ UNCHANGED <<account, challenge, locked>>
    BY <1>5, <2>1, AccessFacts DEF StoreEntry
  <2>3. QED
    BY <1>5, <2>2, LeavingKeeps DEF StoreEntry
<1>6. QED
  BY <1>1, <1>2, <1>3, <1>4, <1>5 DEF LookUp

LEMMA InvalidateKeeps ==
  ASSUME AccessInv, NEW c \in Callers, InvalidateEntry(c)
  PROVE  AccessInv'
<1>1. cached' \in Access /\ Complete(cached') /\ UNCHANGED <<account, challenge, locked>> /\ Done(c)
  BY AccessFacts DEF InvalidateEntry
<1>2. QED
  BY <1>1, LeavingKeeps

LEMMA DeathKeeps ==
  ASSUME AccessInv, NEW c \in Callers, CallerDies(c)
  PROVE  AccessInv'
  BY AccessFacts, LeavingKeeps DEF CallerDies

LEMMA ExpiryKeeps ==
  ASSUME AccessInv, EntryExpires
  PROVE  AccessInv'
<1>1. NoEntry \in Access /\ NoEntry.version = 0 /\ account.version \in Nat \ {0}
  BY Records DEF AccessInv, AccessTypeOK, VersionCountsGrants, Access
<1>2. cached' = NoEntry /\ UNCHANGED <<account, challenge, locked, work>>
  BY DEF EntryExpires
<1>3. Complete(cached')
  BY <1>1, <1>2 DEF Complete, Fresh
<1>4. QED
  BY <1>1, <1>2, <1>3 DEF AccessInv, AccessTypeOK, ChangesLocked, VersionCountsGrants, ReadsFresh,
     Complete, Fresh

\* A wrong code or the time takes nothing from a challenge that a change relies on:
\* that one is locked.
LEMMA ChallengeKeeps ==
  ASSUME AccessInv, UNCHANGED <<account, cached, locked, work>>,
         challenge' \in [Kinds -> [tries : 0 .. MaxTries, consumed : BOOLEAN, lapsed : BOOLEAN]],
         \A k \in Kinds : /\ challenge'[k].consumed = challenge[k].consumed
                          /\ locked[k] # Nobody => challenge'[k].tries = challenge[k].tries
  PROVE  AccessInv'
<1>1. AccessTypeOK' /\ ReadsFresh'
  BY DEF AccessInv, AccessTypeOK, ReadsFresh, Complete, Fresh
<1>2. ChangesLocked'
  <2>1. SUFFICES ASSUME NEW c \in Callers, work[c].at \in Holding, work[c].change \in Kinds
                 PROVE  locked[work[c].change] = c /\ Unspent(challenge'[work[c].change])
    BY DEF AccessInv, ChangesLocked
  <2>2. locked[work[c].change] = c /\ Unspent(challenge[work[c].change])
    BY <2>1 DEF AccessInv, ChangesLocked
  <2>3. QED
    BY <2>1, <2>2, AccessAssumption DEF Unspent
<1>3. VersionCountsGrants'
  <2>1. challenge'["email"].consumed = challenge["email"].consumed
        /\ challenge'["phone"].consumed = challenge["phone"].consumed
    BY DEF Kinds
  <2>2. QED
    BY <2>1 DEF AccessInv, VersionCountsGrants, Kinds
<1>4. QED
  BY <1>1, <1>2, <1>3 DEF AccessInv

LEMMA WrongKeeps ==
  ASSUME AccessInv, NEW c \in Callers, NEW k \in Kinds, WrongCode(c, k)
  PROVE  AccessInv'
<1>1. /\ challenge \in [Kinds -> [tries : 0 .. MaxTries, consumed : BOOLEAN, lapsed : BOOLEAN]]
      /\ challenge[k].tries \in 0 .. MaxTries /\ challenge[k].tries < MaxTries
  BY DEF AccessInv, AccessTypeOK, WrongCode, Usable
<1>2. challenge[k].tries + 1 \in 0 .. MaxTries
  BY <1>1, AccessAssumption
<1>3. /\ challenge' = [challenge EXCEPT ![k].tries = @ + 1] /\ UNCHANGED <<account, cached, locked, work>>
      /\ locked[k] = Nobody
  BY DEF WrongCode
<1>4. /\ challenge' \in [Kinds -> [tries : 0 .. MaxTries, consumed : BOOLEAN, lapsed : BOOLEAN]]
      /\ \A j \in Kinds : /\ challenge'[j].consumed = challenge[j].consumed
                          /\ locked[j] # Nobody => challenge'[j].tries = challenge[j].tries
  BY <1>1, <1>2, <1>3
<1>5. QED
  BY <1>3, <1>4, ChallengeKeeps

LEMMA LapseKeeps ==
  ASSUME AccessInv, NEW k \in Kinds, ChallengeLapses(k)
  PROVE  AccessInv'
<1>1. challenge \in [Kinds -> [tries : 0 .. MaxTries, consumed : BOOLEAN, lapsed : BOOLEAN]]
  BY DEF AccessInv, AccessTypeOK
<1>2. challenge' = [challenge EXCEPT ![k].lapsed = TRUE] /\ UNCHANGED <<account, cached, locked, work>>
  BY DEF ChallengeLapses
<1>3. /\ challenge' \in [Kinds -> [tries : 0 .. MaxTries, consumed : BOOLEAN, lapsed : BOOLEAN]]
      /\ \A j \in Kinds : /\ challenge'[j].consumed = challenge[j].consumed
                          /\ challenge'[j].tries = challenge[j].tries
  BY <1>1, <1>2
<1>4. QED
  BY <1>2, <1>3, ChallengeKeeps

LEMMA RestrictionKeeps ==
  ASSUME AccessInv, AccountRestricted
  PROVE  AccessInv'
<1>1. /\ account' = [account EXCEPT !.status = IF @ = "active" THEN "suspended" ELSE "deleted"]
      /\ locked["user"] = Nobody /\ UNCHANGED <<challenge, cached, locked, work>>
  BY DEF AccountRestricted
<1>2. /\ account' \in Access /\ account'.email = account.email /\ account'.phone = account.phone
      /\ account'.seller = account.seller /\ account'.version = account.version
  BY <1>1 DEF AccessInv, AccessTypeOK, Access
<1>3. AccessTypeOK'
  BY <1>1, <1>2 DEF AccessInv, AccessTypeOK
<1>4. ChangesLocked'
  BY <1>1, AccessAssumption DEF AccessInv, ChangesLocked
<1>5. VersionCountsGrants'
  BY <1>1, <1>2 DEF AccessInv, VersionCountsGrants, Kinds
<1>6. ReadsFresh'
  BY <1>1, <1>2 DEF AccessInv, ReadsFresh, Complete, Fresh
<1>7. QED
  BY <1>3, <1>4, <1>5, <1>6 DEF AccessInv

-----------------------------------------------------------------------------
LEMMA AccessStep == AccessInv /\ [AccessNext]_accessVars => AccessInv'
<1> SUFFICES ASSUME AccessInv, [AccessNext]_accessVars
             PROVE  AccessInv'
  OBVIOUS
<1>1. CASE UNCHANGED accessVars
  BY <1>1 DEF accessVars, AccessInv, AccessTypeOK, ChangesLocked, VersionCountsGrants, ReadsFresh,
     Complete, Fresh
<1>2. QED
  BY <1>1, WrongKeeps, RightKeeps, SellerKeeps, LockKeeps, GrantKeeps, InvalidateKeeps, ReadKeeps,
     DeathKeeps, LapseKeeps, ExpiryKeeps, RestrictionKeeps DEF AccessNext

LEMMA AccessSafe == AccessSpec => []AccessInv
  BY AccessStarts, AccessStep, PTL DEF AccessSpec

\* Account, challenges, cache, locks and requests keep their types.
THEOREM AccessTypeCorrect == AccessSpec => []AccessTypeOK
<1>1. AccessInv => AccessTypeOK
  BY DEF AccessInv
<1>2. QED
  BY <1>1, AccessSafe, PTL

\* Two challenges and a seller profile may change the account at once: no change
\* is lost and the version counts each (IdentityService.verify_challenge,
\* ProfileService.create_seller_profile).
THEOREM GrantsAreCounted == AccessSpec => []VersionCountsGrants
<1>1. AccessInv => VersionCountsGrants
  BY DEF AccessInv
<1>2. QED
  BY <1>1, AccessSafe, PTL

\* What GrantsWithinTries asks of a step.
GrantsFit ==
    \A k \in Kinds : account'[k] # account[k] => Unspent(challenge[k])

\* Only a grant changes what is verified, and only for the challenge it holds.
LEMMA FittingGrants == AccessInv /\ [AccessNext]_accessVars => GrantsFit \/ UNCHANGED accessVars
<1> SUFFICES ASSUME AccessInv, AccessNext, NEW k \in Kinds, account'[k] # account[k]
             PROVE  Unspent(challenge[k])
  BY DEF GrantsFit
<1>1. account \in Access /\ k \in {"email", "phone"}
  BY DEF AccessInv, AccessTypeOK, Kinds
<1>2. \/ AccountRestricted
      \/ \E c \in Callers : Grant(c)
  BY DEF AccessNext, WrongCode, RightCode, CreateSellerProfile, LockUser, InvalidateEntry,
     ReadAccount, LookUp, ReadSeller, StoreEntry, CallerDies, ChallengeLapses, EntryExpires
<1>3. ~AccountRestricted
  BY <1>1 DEF AccountRestricted, Access
<1>4. PICK c \in Callers : Grant(c)
  BY <1>2, <1>3
<1>5. /\ work[c].seen = account /\ work[c].change \in Kinds \cup {"seller"}
      /\ work[c].change \in Kinds => Unspent(challenge[work[c].change])
  BY <1>4 DEF Grant, AccessInv, ChangesLocked, Holding
<1>6. work[c].change = k
  BY <1>1, <1>4, <1>5 DEF Grant, Kinds, Access
<1>7. QED
  BY <1>5, <1>6

\* However wrong codes and right ones interleave, a contact is verified at most once
\* and by a challenge that has an attempt left (IdentityService.verify_challenge).
THEOREM GrantsAreWithinTries == AccessSpec => GrantsWithinTries
<1>1. AccessInv /\ [AccessNext]_accessVars => [GrantsFit]_accessVars
  BY FittingGrants
<1>2. AccessSpec => [][GrantsFit]_accessVars
  BY <1>1, AccessSafe, PTL DEF AccessSpec
<1>3. QED
  BY <1>2 DEF GrantsWithinTries, GrantsFit, Unspent

LEMMA FreshIsCurrent == AccessInv => CachedAccessCurrent
  BY DEF AccessInv, ReadsFresh, Complete, Fresh, CachedAccessCurrent

\* However a read is overtaken by changes, and whatever Redis fails to delete,
\* the entry under the current version is right (CapabilityService.get_capabilities).
THEOREM CacheFollowsAccount == AccessSpec => []CachedAccessCurrent
  BY FreshIsCurrent, AccessSafe, PTL

-----------------------------------------------------------------------------
(* Rate limiter: what is admitted is paid for by a window.                 *)

Counted(c) == {calls[c].subjects[i] : i \in 1 .. calls[c].counted}

\* Requests that were counted for a subject within the limit and may yet be admitted.
Granted(s) == {c \in LimitedCalls : calls[c].at = "redis" /\ ~calls[c].over /\ s \in Counted(c)}

\* What the open windows of a subject can still admit.
RedisSpare(s) == IF redisCount[s] \in 1 .. Limit THEN Limit - redisCount[s] ELSE 0
BucketSpare(s) == IF bucket[s].open /\ bucket[s].count <= Limit THEN Limit - bucket[s].count ELSE 0

\* Admitted, granted and spare together never exceed what the opened windows are worth.
Budget(s) == admitted[s] + Cardinality(Granted(s)) + RedisSpare(s) + BucketSpare(s)

LimiterInv == LimiterTypeOK /\ \A s \in Subjects : Budget(s) <= Limit * opened[s]

Enforcing == [at : {"idle", "redis", "database"}, counted : Nat, subjects : SubjectLists \cup {<<>>},
              over : BOOLEAN]

\* A call that waits for an answer has a subject left to count.
LEMMA CallShape ==
  ASSUME LimiterTypeOK, NEW c \in LimitedCalls, calls[c].at # "idle"
  PROVE  /\ calls[c] \in Enforcing /\ calls[c].subjects \in SubjectLists
         /\ calls[c].subjects \in Seq(Subjects) /\ Len(calls[c].subjects) \in Nat
         /\ calls[c].counted \in Nat /\ calls[c].counted + 1 \in 1 .. Len(calls[c].subjects)
         /\ NextSubject(c) \in Subjects /\ Of(c) \subseteq Subjects
<1>1. calls[c] \in Enforcing /\ calls[c].subjects \in Seq(Subjects)
      /\ calls[c].subjects \in SubjectLists /\ calls[c].counted < Len(calls[c].subjects)
  BY LimiterAssumption DEF LimiterTypeOK, Enforcing
<1>2. Len(calls[c].subjects) \in Nat /\ calls[c].counted \in Nat
      /\ DOMAIN calls[c].subjects = 1 .. Len(calls[c].subjects)
      /\ calls[c].counted + 1 \in 1 .. Len(calls[c].subjects)
  BY <1>1 DEF Enforcing
<1>3. \A i \in DOMAIN calls[c].subjects : calls[c].subjects[i] \in Subjects
  BY <1>1
<1>4. QED
  BY <1>1, <1>2, <1>3 DEF NextSubject, Of

LEMMA GrantedFinite ==
  ASSUME NEW S \in SUBSET LimitedCalls
  PROVE  /\ IsFiniteSet(S) /\ Cardinality(S) \in Nat
         /\ \A T \in SUBSET S : Cardinality(T) <= Cardinality(S)
         /\ \A c \in LimitedCalls : Cardinality(S \cup {c}) <= Cardinality(S) + 1
         /\ \A c \in S : Cardinality(S \ {c}) = Cardinality(S) - 1
  BY LimiterAssumption, FS_Subset, FS_CardinalityType, FS_AddElement, FS_RemoveElement

LEMMA SpareTyped ==
  ASSUME LimiterTypeOK, NEW s \in Subjects
  PROVE  /\ redisCount[s] \in 0 .. Limit + 1 /\ bucket[s].count \in 0 .. Limit + 1
         /\ bucket[s] \in [count : 0 .. Limit + 1, open : BOOLEAN]
         /\ RedisSpare(s) \in Nat /\ BucketSpare(s) \in Nat /\ admitted[s] \in Nat
         /\ opened[s] \in Nat /\ Limit \in Nat \ {0} /\ Limit * opened[s] \in Nat
         /\ Granted(s) \in SUBSET LimitedCalls /\ Cardinality(Granted(s)) \in Nat
<1>1. redisCount[s] \in 0 .. Limit + 1 /\ Limit \in Nat \ {0} /\ opened[s] \in Nat
      /\ bucket[s] \in [count : 0 .. Limit + 1, open : BOOLEAN] /\ admitted[s] \in Nat
  BY LimiterAssumption DEF LimiterTypeOK
<1>2. bucket[s].count \in 0 .. Limit + 1 /\ Limit * opened[s] \in Nat
  BY <1>1
<1>3. Granted(s) \in SUBSET LimitedCalls /\ Cardinality(Granted(s)) \in Nat
  BY GrantedFinite DEF Granted
<1>4. QED
  BY <1>1, <1>2, <1>3 DEF RedisSpare, BucketSpare

\* The budget of a subject stays, or grows by a window that is opened.
Kept(s) ==
    \/ opened'[s] = opened[s] /\ Budget(s)' <= Budget(s)
    \/ opened'[s] = opened[s] + 1 /\ Budget(s)' <= Budget(s) + Limit

LEMMA BudgetKept ==
  ASSUME LimiterInv, LimiterTypeOK', \A s \in Subjects : Kept(s)
  PROVE  LimiterInv'
<1>1. ASSUME NEW s \in Subjects PROVE Budget(s)' <= Limit * opened'[s]
  <2>1. /\ Budget(s) \in Nat /\ opened[s] \in Nat /\ Limit \in Nat /\ Limit * opened[s] \in Nat
        /\ Budget(s) <= Limit * opened[s]
    BY SpareTyped DEF LimiterInv, Budget
  <2>2. Budget(s)' \in Nat
    <3>1. /\ redisCount'[s] \in 0 .. Limit + 1 /\ Limit \in Nat /\ admitted'[s] \in Nat
          /\ bucket'[s] \in [count : 0 .. Limit + 1, open : BOOLEAN]
      BY LimiterAssumption DEF LimiterTypeOK
    <3>2. RedisSpare(s)' \in Nat /\ BucketSpare(s)' \in Nat
      BY <3>1 DEF RedisSpare, BucketSpare
    <3>3. Granted(s)' \in SUBSET LimitedCalls
      BY DEF Granted
    <3>4. Cardinality(Granted(s))' \in Nat
      BY <3>3, GrantedFinite
    <3>5. QED
      BY <3>1, <3>2, <3>4 DEF Budget
  <2>3. Limit * (opened[s] + 1) = Limit * opened[s] + Limit
    BY <2>1
  <2> HIDE DEF Budget
  <2>4. CASE opened'[s] = opened[s] /\ Budget(s)' <= Budget(s)
    BY <2>1, <2>2, <2>4
  <2>5. CASE opened'[s] = opened[s] + 1 /\ Budget(s)' <= Budget(s) + Limit
    BY <2>1, <2>2, <2>3, <2>5
  <2>6. QED
    BY <2>4, <2>5 DEF Kept
<1>2. QED
  BY <1>1 DEF LimiterInv

\* A count in Redis takes one from what the window can admit, unless it is over the limit.
LEMMA IncrementCounts ==
  ASSUME LimiterTypeOK, NEW s \in Subjects, Increment(s)
  PROVE  /\ redisCount' \in [Subjects -> 0 .. Limit + 1] /\ opened' \in [Subjects -> 0 .. MaxWindows]
         /\ \A r \in Subjects \ {s} : redisCount'[r] = redisCount[r] /\ opened'[r] = opened[r]
         /\ \/ /\ opened'[s] = opened[s]
               /\ RedisSpare(s)' + (IF redisCount'[s] > Limit THEN 0 ELSE 1) <= RedisSpare(s)
            \/ /\ opened'[s] = opened[s] + 1
               /\ RedisSpare(s)' + (IF redisCount'[s] > Limit THEN 0 ELSE 1)
                     <= RedisSpare(s) + Limit
<1>1. Limit \in Nat \ {0} /\ MaxWindows \in Nat /\ redisCount[s] \in 0 .. Limit + 1
      /\ opened[s] \in 0 .. MaxWindows
  BY LimiterAssumption DEF LimiterTypeOK
<1>2. redisCount'[s] = IF redisCount[s] > Limit THEN redisCount[s] ELSE redisCount[s] + 1
  BY DEF Increment, OneMore, LimiterTypeOK
<1>3. opened'[s] = IF redisCount[s] = 0 THEN opened[s] + 1 ELSE opened[s]
  BY DEF Increment, LimiterTypeOK
<1>4. \A r \in Subjects \ {s} : redisCount'[r] = redisCount[r] /\ opened'[r] = opened[r]
  BY DEF Increment, LimiterTypeOK
<1>5. redisCount'[s] \in 0 .. Limit + 1 /\ opened'[s] \in 0 .. MaxWindows
  BY <1>1, <1>2, <1>3 DEF Increment
<1>6. redisCount' \in [Subjects -> 0 .. Limit + 1] /\ opened' \in [Subjects -> 0 .. MaxWindows]
  BY <1>4, <1>5 DEF Increment, LimiterTypeOK
<1>7. QED
  BY <1>1, <1>2, <1>3, <1>4, <1>6 DEF RedisSpare

\* A step that moves one call: what it is granted afterwards, at most a subject more.
LEMMA OneCallMoves ==
  ASSUME LimiterTypeOK, NEW c \in LimitedCalls, NEW call, calls' = [calls EXCEPT ![c] = call],
         NEW s \in Subjects
  PROVE  /\ Cardinality(Granted(s))' \in Nat
         /\ Cardinality(Granted(s))' <= Cardinality(Granted(s)) + 1
         /\ c \notin Granted(s)' => Cardinality(Granted(s))' <= Cardinality(Granted(s))
         /\ c \in Granted(s) => Cardinality(Granted(s))' <= Cardinality(Granted(s))
         /\ c \in Granted(s) /\ c \notin Granted(s)' =>
               Cardinality(Granted(s))' <= Cardinality(Granted(s)) - 1
<1>1. \A d \in LimitedCalls \ {c} : calls'[d] = calls[d]
  BY DEF LimiterTypeOK
<1>2. Granted(s) \in SUBSET LimitedCalls /\ Granted(s)' \in SUBSET LimitedCalls
  BY DEF Granted
<1>3. \A d \in LimitedCalls \ {c} : d \in Granted(s)' <=> d \in Granted(s)
  BY <1>1 DEF Granted, Counted
<1>4. /\ Granted(s)' \subseteq Granted(s) \cup {c}
      /\ c \notin Granted(s)' => Granted(s)' \subseteq Granted(s) \ {c}
      /\ c \in Granted(s) => Granted(s)' \subseteq Granted(s)
  BY <1>2, <1>3
<1> DEFINE G == Granted(s)
           H == Granted(s)'
<1> HIDE DEF G, H
<1>5. /\ IsFiniteSet(G) /\ Cardinality(G) \in Nat /\ IsFiniteSet(H) /\ Cardinality(H) \in Nat
      /\ \A T \in SUBSET G : Cardinality(T) <= Cardinality(G)
      /\ Cardinality(G \cup {c}) <= Cardinality(G) + 1
      /\ c \in G => Cardinality(G \ {c}) = Cardinality(G) - 1
  BY <1>2, GrantedFinite DEF G, H
<1>6. /\ G \cup {c} \in SUBSET LimitedCalls /\ G \ {c} \in SUBSET LimitedCalls
  BY <1>2 DEF G
<1>7. /\ \A T \in SUBSET (G \cup {c}) : Cardinality(T) <= Cardinality(G \cup {c})
      /\ \A T \in SUBSET (G \ {c}) : Cardinality(T) <= Cardinality(G \ {c})
      /\ Cardinality(G \cup {c}) \in Nat /\ Cardinality(G \ {c}) \in Nat
  BY <1>6, GrantedFinite
<1>8. H \subseteq G \cup {c} /\ (c \notin H => H \subseteq G \ {c}) /\ (c \in G => H \subseteq G)
  BY <1>4 DEF G, H
<1>9. /\ Cardinality(H) <= Cardinality(G) + 1
      /\ c \notin H => Cardinality(H) <= Cardinality(G \ {c})
      /\ c \in G => Cardinality(H) <= Cardinality(G)
  <2>1. Cardinality(H) <= Cardinality(G \cup {c})
    <3>1. H \in SUBSET (G \cup {c})
      BY <1>8
    <3>2. QED
      BY <1>7, <3>1
  <2>2. ASSUME c \notin H PROVE Cardinality(H) <= Cardinality(G \ {c})
    <3>1. H \in SUBSET (G \ {c})
      BY <1>8, <2>2
    <3>2. QED
      BY <1>7, <3>1
  <2>3. ASSUME c \in G PROVE Cardinality(H) <= Cardinality(G)
    <3>1. H \in SUBSET G
      BY <1>8, <2>3
    <3>2. QED
      BY <1>5, <3>1
  <2> HIDE DEF G, H
  <2>4. Cardinality(H) <= Cardinality(G) + 1
    BY <1>5, <1>7, <2>1
  <2>5. QED
    BY <2>2, <2>3, <2>4
<1>10. Cardinality(G \ {c}) <= Cardinality(G)
  BY <1>5
<1>11. QED
  BY <1>5, <1>7, <1>9, <1>10 DEF G, H

LEMMA EnforceKeeps ==
  ASSUME LimiterInv, NEW c \in LimitedCalls, NEW list \in SubjectLists, Enforce(c, list)
  PROVE  LimiterInv'
<1> DEFINE call == [NoCall EXCEPT !.at = "redis", !.subjects = list]
<1>1. /\ call.at = "redis" /\ call.subjects = list /\ call.counted = 0 /\ ~call.over
      /\ call \in Enforcing
  BY DEF NoCall, Enforcing
<1>2. calls' = [calls EXCEPT ![c] = call]
  BY DEF Enforce
<1>3. Len(list) \in Nat \ {0}
  BY LimiterAssumption
<1> HIDE DEF call
<1>4. LimiterTypeOK'
  <2>1. calls' \in [LimitedCalls -> Enforcing]
    BY <1>1, <1>2 DEF LimiterInv, LimiterTypeOK, Enforcing
  <2>2. \A d \in LimitedCalls : calls'[d].at # "idle" =>
           calls'[d].subjects \in SubjectLists /\ calls'[d].counted < Len(calls'[d].subjects)
    BY <1>1, <1>2, <1>3 DEF LimiterInv, LimiterTypeOK
  <2>3. QED
    BY <2>1, <2>2 DEF LimiterInv, LimiterTypeOK, Enforce, Enforcing
<1>5. ASSUME NEW s \in Subjects PROVE Kept(s)
  <2>1. c \notin Granted(s)'
    <3>1. calls'[c] = call
      BY <1>2 DEF LimiterInv, LimiterTypeOK
    <3>2. 1 .. call.counted = {}
      BY <1>1
    <3>3. QED
      BY <3>1, <3>2 DEF Granted, Counted
  <2>2. Cardinality(Granted(s))' \in Nat /\ Cardinality(Granted(s))' <= Cardinality(Granted(s))
    BY <1>2, <2>1, OneCallMoves DEF LimiterInv
  <2>3. QED
    BY <2>2, SpareTyped DEF LimiterInv, Enforce, Kept, Budget, RedisSpare, BucketSpare
<1>6. QED
  BY <1>4, <1>5, BudgetKept

\* Whoever is admitted was counted within the limit for every subject.
LEMMA CountInRedisKeeps ==
  ASSUME LimiterInv, NEW c \in LimitedCalls, CountInRedis(c)
  PROVE  LimiterInv'
<1>n. PICK n \in Subjects : n = NextSubject(c)
  BY CallShape DEF LimiterInv, CountInRedis
<1> DEFINE over == calls[c].over \/ redisCount'[n] > Limit
           last == calls[c].counted + 1 = Len(calls[c].subjects)
           next == [calls[c] EXCEPT !.counted = @ + 1, !.over = over]
           k == calls[c].counted
<1>1. /\ LimiterTypeOK /\ calls[c].at = "redis" /\ Increment(n) /\ UNCHANGED bucket
      /\ last => Conclude(c, over)
      /\ ~last => calls' = [calls EXCEPT ![c] = next] /\ UNCHANGED admitted
  BY <1>n DEF CountInRedis, LimiterInv
<1>2. /\ calls[c] \in Enforcing /\ calls[c].subjects \in SubjectLists /\ n \in Subjects
      /\ Len(calls[c].subjects) \in Nat /\ k \in Nat /\ k + 1 \in 1 .. Len(calls[c].subjects)
      /\ DOMAIN calls[c].subjects = 1 .. Len(calls[c].subjects)
  BY <1>1, CallShape
<1> HIDE DEF over
<1>0. over \in BOOLEAN /\ calls[c].counted + 1 \in Nat
  BY <1>2 DEF over, Enforcing
<1>3. next \in Enforcing /\ next.at = "redis" /\ next.counted = k + 1 /\ next.over = over
      /\ next.subjects = calls[c].subjects
  BY <1>0, <1>1, <1>2 DEF Enforcing
<1> HIDE DEF next
<1>4. NoCall \in Enforcing /\ NoCall.at = "idle"
  BY DEF NoCall, Enforcing
<1>5. PICK call \in {next, NoCall} : calls' = [calls EXCEPT ![c] = call] /\ (call = NoCall <=> last)
  BY <1>1, <1>3, <1>4 DEF Conclude
<1>6. LimiterTypeOK'
  <2>1. calls' \in [LimitedCalls -> Enforcing]
    BY <1>3, <1>4, <1>5 DEF LimiterInv, LimiterTypeOK, Enforcing
  <2>2. ASSUME NEW d \in LimitedCalls, calls'[d].at # "idle"
        PROVE  calls'[d].subjects \in SubjectLists /\ calls'[d].counted < Len(calls'[d].subjects)
    <3>1. CASE d = c
      <4>1. calls'[d] = next /\ ~last
        BY <1>1, <1>4, <1>5, <2>2, <3>1 DEF LimiterTypeOK
      <4>2. QED
        BY <1>2, <1>3, <4>1
    <3>2. CASE d # c
      BY <1>1, <1>5, <2>2, <3>2 DEF LimiterTypeOK
    <3>3. QED
      BY <3>1, <3>2
  <2>3. admitted' \in [Subjects -> Nat]
    <3>1. admitted \in [Subjects -> Nat]
      BY <1>1 DEF LimiterTypeOK
    <3>2. CASE last
      BY <1>1, <3>1, <3>2 DEF Conclude
    <3>3. QED
      BY <1>1, <3>1, <3>2
  <2>4. redisCount' \in [Subjects -> 0 .. Limit + 1] /\ opened' \in [Subjects -> 0 .. MaxWindows]
    BY <1>1, <1>2, IncrementCounts
  <2>5. QED
    BY <1>1, <2>1, <2>2, <2>3, <2>4 DEF LimiterTypeOK, Enforcing
<1> DEFINE cost == IF redisCount'[n] > Limit THEN 0 ELSE 1
<1>8. \/ opened'[n] = opened[n] /\ RedisSpare(n)' + cost <= RedisSpare(n)
      \/ opened'[n] = opened[n] + 1 /\ RedisSpare(n)' + cost <= RedisSpare(n) + Limit
  BY <1>1, <1>2, IncrementCounts
<1>9. \A s \in Subjects : s # n => opened'[s] = opened[s] /\ RedisSpare(s)' = RedisSpare(s)
  BY <1>1, <1>2, IncrementCounts DEF RedisSpare
<1>10. cost \in {0, 1} /\ (~over => cost = 1)
  BY DEF over
<1> HIDE DEF cost
<1>7. ASSUME NEW s \in Subjects PROVE Kept(s)
  <2>1. /\ Cardinality(Granted(s))' \in Nat
        /\ Cardinality(Granted(s))' <= Cardinality(Granted(s)) + 1
        /\ c \notin Granted(s)' => Cardinality(Granted(s))' <= Cardinality(Granted(s))
        /\ c \in Granted(s) => Cardinality(Granted(s))' <= Cardinality(Granted(s))
        /\ c \in Granted(s) /\ c \notin Granted(s)' =>
              Cardinality(Granted(s))' <= Cardinality(Granted(s)) - 1
    BY <1>1, <1>5, OneCallMoves
  <2>2. calls'[c] = call
    BY <1>1, <1>5 DEF LimiterTypeOK
  <2>3. last => c \notin Granted(s)'
    BY <1>4, <1>5, <2>2 DEF Granted
  <2>4. over => c \notin Granted(s)'
    BY <1>3, <1>4, <1>5, <2>2 DEF Granted
  <2>5. s # n /\ c \in Granted(s)' => c \in Granted(s)
    <3>1. SUFFICES ASSUME s # n, c \in Granted(s)' PROVE c \in Granted(s)
      OBVIOUS
    <3>2. calls'[c] = next /\ ~over
      BY <1>3, <1>5, <2>2, <2>3, <2>4, <3>1
    <3>3. s \in {calls[c].subjects[i] : i \in 1 .. k + 1}
      BY <1>3, <3>1, <3>2 DEF Granted, Counted
    <3>4. s \in Counted(c)
      BY <1>n, <1>2, <3>1, <3>3 DEF Counted, NextSubject
    <3>5. QED
      BY <1>1, <3>2, <3>4 DEF Granted, over
  <2>6. ASSUME last, ~over, s \in Of(c), s # n PROVE c \in Granted(s)
    <3>1. PICK i \in 1 .. k + 1 : s = calls[c].subjects[i]
      BY <1>2, <2>6 DEF Of
    <3>2. i \in 1 .. k
      BY <1>n, <1>2, <2>6, <3>1 DEF NextSubject
    <3>3. QED
      BY <1>1, <2>6, <3>1, <3>2 DEF Granted, Counted, over
  <2>7. /\ admitted[s] \in Nat /\ admitted'[s] \in {admitted[s], admitted[s] + 1}
        /\ admitted'[s] = admitted[s] + 1 => last /\ ~over /\ s \in Of(c)
    BY <1>1 DEF Conclude, LimiterTypeOK
  <2>8. admitted'[s] + Cardinality(Granted(s))' <=
           admitted[s] + Cardinality(Granted(s)) + (IF s = n THEN cost ELSE 0)
    <3>1. Cardinality(Granted(s)) \in Nat
      BY <1>1, SpareTyped
    <3>2. CASE admitted'[s] = admitted[s] + 1
      BY <1>10, <2>1, <2>3, <2>6, <2>7, <3>1, <3>2
    <3>3. CASE admitted'[s] = admitted[s]
      BY <1>10, <2>1, <2>4, <2>5, <2>7, <3>1, <3>3
    <3>4. QED
      BY <2>7, <3>2, <3>3
  <2>9. BucketSpare(s)' = BucketSpare(s) /\ BucketSpare(s) \in Nat /\ Limit \in Nat
        /\ RedisSpare(s) \in Nat /\ Cardinality(Granted(s)) \in Nat
    BY <1>1, SpareTyped DEF BucketSpare
  <2>10. RedisSpare(s)' \in Nat
    <3>1. redisCount'[s] \in 0 .. Limit + 1
      BY <1>6 DEF LimiterTypeOK
    <3>2. QED
      BY <2>9, <3>1 DEF RedisSpare
  <2>11. admitted'[s] \in Nat
    BY <2>7
  <2>12. CASE s = n
    <3>1. \/ opened'[s] = opened[s] /\ RedisSpare(s)' + cost <= RedisSpare(s)
          \/ opened'[s] = opened[s] + 1 /\ RedisSpare(s)' + cost <= RedisSpare(s) + Limit
      BY <1>8, <2>12 DEF RedisSpare
    <3>2. admitted'[s] + Cardinality(Granted(s))' <=
             admitted[s] + Cardinality(Granted(s)) + cost
      BY <2>8, <2>12
    <3>3. cost \in Nat /\ Cardinality(Granted(s))' \in Nat /\ admitted[s] \in Nat
      BY <1>10, <2>1, <2>7
    <3>4. CASE opened'[s] = opened[s] /\ RedisSpare(s)' + cost <= RedisSpare(s)
      <4>1. Budget(s)' <= Budget(s)
        BY <2>9, <2>10, <2>11, <3>2, <3>3, <3>4 DEF Budget
      <4>2. QED
        BY <3>4, <4>1 DEF Kept
    <3>5. CASE opened'[s] = opened[s] + 1 /\ RedisSpare(s)' + cost <= RedisSpare(s) + Limit
      <4>1. Budget(s)' <= Budget(s) + Limit
        BY <2>9, <2>10, <2>11, <3>2, <3>3, <3>5 DEF Budget
      <4>2. QED
        BY <3>5, <4>1 DEF Kept
    <3>6. QED
      BY <3>1, <3>4, <3>5
  <2>13. CASE s # n
    <3>1. opened'[s] = opened[s] /\ RedisSpare(s)' = RedisSpare(s)
      BY <1>9, <2>13
    <3>2. QED
      BY <2>1, <2>7, <2>8, <2>9, <2>11, <2>13, <3>1 DEF Kept, Budget
  <2>14. QED
    BY <2>12, <2>13
<1>11. QED
  BY <1>6, <1>7, BudgetKept

LEMMA RedisFailsKeeps ==
  ASSUME LimiterInv, NEW c \in LimitedCalls, RedisFails(c)
  PROVE  LimiterInv'
<1>1. PICK n \in Subjects : n = NextSubject(c)
  BY CallShape DEF LimiterInv, RedisFails
<1> DEFINE next == [calls[c] EXCEPT !.at = "database", !.over = FALSE]
<1>2. /\ LimiterTypeOK /\ calls[c] \in Enforcing /\ calls[c].subjects \in SubjectLists
      /\ calls[c].counted < Len(calls[c].subjects)
  BY CallShape DEF LimiterInv, RedisFails, LimiterTypeOK
<1>3. next \in Enforcing /\ next.at = "database" /\ next.counted = calls[c].counted
      /\ next.subjects = calls[c].subjects
  BY <1>2 DEF Enforcing
<1>4. calls' = [calls EXCEPT ![c] = next] /\ UNCHANGED <<bucket, admitted>>
      /\ (UNCHANGED <<redisCount, opened>> \/ Increment(n))
  BY <1>1 DEF RedisFails
<1> HIDE DEF next
<1>5. LimiterTypeOK'
  <2>1. calls' \in [LimitedCalls -> Enforcing]
    BY <1>2, <1>3, <1>4 DEF LimiterTypeOK, Enforcing
  <2>2. \A d \in LimitedCalls : calls'[d].at # "idle" =>
           calls'[d].subjects \in SubjectLists /\ calls'[d].counted < Len(calls'[d].subjects)
    BY <1>2, <1>3, <1>4 DEF LimiterTypeOK
  <2>3. redisCount' \in [Subjects -> 0 .. Limit + 1] /\ opened' \in [Subjects -> 0 .. MaxWindows]
    BY <1>2, <1>4, IncrementCounts DEF LimiterTypeOK
  <2>4. QED
    BY <1>2, <1>4, <2>1, <2>2, <2>3 DEF LimiterTypeOK, Enforcing
<1>6. ASSUME NEW s \in Subjects PROVE Kept(s)
  <2>1. c \notin Granted(s)'
    BY <1>2, <1>3, <1>4 DEF LimiterTypeOK, Granted
  <2>2. Cardinality(Granted(s))' \in Nat /\ Cardinality(Granted(s))' <= Cardinality(Granted(s))
    BY <1>2, <1>4, <2>1, OneCallMoves
  <2>3. \/ opened'[s] = opened[s] /\ RedisSpare(s)' <= RedisSpare(s)
        \/ opened'[s] = opened[s] + 1 /\ RedisSpare(s)' <= RedisSpare(s) + Limit
    <3>1. CASE UNCHANGED <<redisCount, opened>>
      BY <1>2, <3>1, SpareTyped DEF RedisSpare
    <3>2. CASE Increment(n) /\ s # n
      BY <1>2, <3>2, IncrementCounts, SpareTyped DEF RedisSpare
    <3>3. CASE Increment(s) /\ s = n
      <4>1. redisCount'[s] \in 0 .. Limit + 1
        BY <1>5 DEF LimiterTypeOK
      <4>2. RedisSpare(s)' \in Nat /\ RedisSpare(s) \in Nat /\ Limit \in Nat
        BY <1>2, <4>1, SpareTyped DEF RedisSpare
      <4>3. PICK cost \in {0, 1} : cost = IF redisCount'[s] > Limit THEN 0 ELSE 1
        OBVIOUS
      <4>4. \/ opened'[s] = opened[s] /\ RedisSpare(s)' + cost <= RedisSpare(s)
            \/ opened'[s] = opened[s] + 1 /\ RedisSpare(s)' + cost <= RedisSpare(s) + Limit
        BY <1>2, <3>3, <4>3, IncrementCounts
      <4>5. QED
        BY <4>2, <4>3, <4>4
    <3>4. QED
      BY <1>4, <3>1, <3>2, <3>3
  <2>4. BucketSpare(s)' = BucketSpare(s) /\ BucketSpare(s) \in Nat /\ Limit \in Nat
        /\ RedisSpare(s) \in Nat /\ Cardinality(Granted(s)) \in Nat /\ admitted[s] \in Nat
        /\ admitted'[s] = admitted[s]
    BY <1>2, <1>4, SpareTyped DEF BucketSpare
  <2>5. RedisSpare(s)' \in Nat
    <3>1. redisCount'[s] \in 0 .. Limit + 1
      BY <1>5 DEF LimiterTypeOK
    <3>2. QED
      BY <2>4, <3>1 DEF RedisSpare
  <2>6. QED
    BY <2>2, <2>3, <2>4, <2>5 DEF Kept, Budget
<1>7. QED
  BY <1>5, <1>6, BudgetKept DEF LimiterInv

\* A call that ends no longer is granted anything, and is admitted for all its subjects or none.
LEMMA ConcludeCounts ==
  ASSUME LimiterTypeOK, NEW c \in LimitedCalls, calls[c].at = "database", NEW over,
         Conclude(c, over)
  PROVE  /\ calls' \in [LimitedCalls -> Enforcing]
         /\ \A d \in LimitedCalls : calls'[d].at # "idle" =>
               calls'[d].subjects \in SubjectLists /\ calls'[d].counted < Len(calls'[d].subjects)
         /\ admitted' \in [Subjects -> Nat]
         /\ \A s \in Subjects :
               /\ Cardinality(Granted(s))' \in Nat
               /\ Cardinality(Granted(s))' <= Cardinality(Granted(s))
               /\ admitted'[s] = IF s \in Of(c) /\ ~over THEN admitted[s] + 1 ELSE admitted[s]
<1>1. NoCall \in Enforcing /\ NoCall.at = "idle"
  BY DEF NoCall, Enforcing
<1>2. calls' = [calls EXCEPT ![c] = NoCall]
  BY DEF Conclude
<1>3. calls' \in [LimitedCalls -> Enforcing]
  BY <1>1, <1>2 DEF LimiterTypeOK, Enforcing
<1>4. \A d \in LimitedCalls : calls'[d].at # "idle" =>
         calls'[d].subjects \in SubjectLists /\ calls'[d].counted < Len(calls'[d].subjects)
  BY <1>1, <1>2 DEF LimiterTypeOK
<1>5. admitted' \in [Subjects -> Nat]
  BY DEF Conclude, LimiterTypeOK
<1>6. ASSUME NEW s \in Subjects
      PROVE  Cardinality(Granted(s))' \in Nat /\ Cardinality(Granted(s))' <= Cardinality(Granted(s))
  <2>1. c \notin Granted(s)'
    BY <1>1, <1>2 DEF Granted, LimiterTypeOK
  <2>2. QED
    BY <1>2, <2>1, OneCallMoves
<1>7. QED
  BY <1>3, <1>4, <1>5, <1>6 DEF Conclude

LEMMA CountInDatabaseKeeps ==
  ASSUME LimiterInv, NEW c \in LimitedCalls, CountInDatabase(c)
  PROVE  LimiterInv'
<1> DEFINE over == \E s \in Of(c) : bucket'[s].count > Limit
<1>1. LimiterTypeOK /\ calls[c].at = "database" /\ Conclude(c, over) /\ UNCHANGED redisCount
  BY DEF CountInDatabase, LimiterInv
<1> HIDE DEF over
<1>2. ASSUME NEW s \in Subjects
      PROVE  /\ opened'[s] \in 0 .. MaxWindows
             /\ bucket'[s] \in [count : 0 .. Limit + 1, open : BOOLEAN]
             /\ s \notin Of(c) => bucket'[s] = bucket[s] /\ opened'[s] = opened[s]
             /\ s \in Of(c) =>
                   /\ bucket'[s].open
                   /\ bucket'[s].count = IF bucket[s].open THEN OneMore(bucket[s].count) ELSE 1
                   /\ opened'[s] = IF bucket[s].open THEN opened[s] ELSE opened[s] + 1
  <2>1. /\ bucket[s] \in [count : 0 .. Limit + 1, open : BOOLEAN] /\ opened[s] \in 0 .. MaxWindows
        /\ bucket[s].count \in 0 .. Limit + 1 /\ Limit \in Nat \ {0} /\ MaxWindows \in Nat
    BY <1>1, SpareTyped, LimiterAssumption DEF LimiterTypeOK
  <2>2. /\ bucket'[s] = IF s \in Of(c) THEN Upsert(s) ELSE bucket[s]
        /\ opened'[s] = IF s \in Of(c) /\ ~bucket[s].open THEN opened[s] + 1 ELSE opened[s]
        /\ s \in Of(c) /\ ~bucket[s].open => opened[s] < MaxWindows
    BY DEF CountInDatabase
  <2>3. (IF bucket[s].open THEN OneMore(bucket[s].count) ELSE 1) \in 0 .. Limit + 1
    BY <2>1 DEF OneMore
  <2>4. Upsert(s) \in [count : 0 .. Limit + 1, open : BOOLEAN]
    BY <2>3 DEF Upsert
  <2>5. opened'[s] \in 0 .. MaxWindows
    BY <2>1, <2>2
  <2>6. QED
    BY <2>1, <2>2, <2>4, <2>5 DEF Upsert
<1>3. LimiterTypeOK'
  <2>1. bucket' \in [Subjects -> [count : 0 .. Limit + 1, open : BOOLEAN]]
        /\ opened' \in [Subjects -> 0 .. MaxWindows]
    BY <1>2 DEF CountInDatabase
  <2>2. QED
    BY <1>1, <2>1, ConcludeCounts DEF LimiterTypeOK, Enforcing
<1>4. ASSUME NEW s \in Subjects PROVE Kept(s)
  <2>1. /\ Cardinality(Granted(s))' \in Nat
        /\ Cardinality(Granted(s))' <= Cardinality(Granted(s))
        /\ admitted'[s] = IF s \in Of(c) /\ ~over THEN admitted[s] + 1 ELSE admitted[s]
    BY <1>1, ConcludeCounts
  <2>2. /\ Cardinality(Granted(s)) \in Nat /\ admitted[s] \in Nat /\ RedisSpare(s) \in Nat
        /\ RedisSpare(s)' = RedisSpare(s) /\ Limit \in Nat \ {0}
        /\ bucket[s].count \in 0 .. Limit + 1
    BY <1>1, SpareTyped DEF RedisSpare
  <2>3. CASE s \notin Of(c)
    <3>1. opened'[s] = opened[s] /\ BucketSpare(s)' = BucketSpare(s) /\ BucketSpare(s) \in Nat
      BY <1>1, <1>2, <2>3, SpareTyped DEF BucketSpare
    <3>2. QED
      BY <2>1, <2>2, <2>3, <3>1 DEF Kept, Budget
  <2>4. CASE s \in Of(c)
    <3> DEFINE cost == IF bucket'[s].count > Limit THEN 0 ELSE 1
    <3>1. \/ opened'[s] = opened[s] /\ BucketSpare(s)' + cost <= BucketSpare(s)
          \/ opened'[s] = opened[s] + 1 /\ BucketSpare(s)' + cost <= BucketSpare(s) + Limit
      BY <1>2, <2>2, <2>4 DEF BucketSpare, OneMore
    <3>2. cost \in {0, 1} /\ admitted'[s] \in {admitted[s], admitted[s] + cost}
      BY <2>1, <2>4 DEF over
    <3>3. BucketSpare(s) \in Nat /\ BucketSpare(s)' \in Nat
      BY <1>2, <2>2 DEF BucketSpare
    <3> HIDE DEF cost
    <3>4. QED
      BY <2>1, <2>2, <3>1, <3>2, <3>3 DEF Kept, Budget
  <2>5. QED
    BY <2>3, <2>4
<1>5. QED
  BY <1>3, <1>4, BudgetKept

\* A request neither store counted is not admitted.
LEMMA DatabaseFailsKeeps ==
  ASSUME LimiterInv, NEW c \in LimitedCalls, DatabaseFails(c)
  PROVE  LimiterInv'
<1>1. LimiterTypeOK /\ calls[c].at = "database" /\ Conclude(c, TRUE)
      /\ UNCHANGED <<redisCount, bucket, opened>>
  BY DEF DatabaseFails, LimiterInv
<1>2. LimiterTypeOK'
  BY <1>1, ConcludeCounts DEF LimiterTypeOK, Enforcing
<1>3. ASSUME NEW s \in Subjects PROVE Kept(s)
  <2>1. /\ Cardinality(Granted(s))' \in Nat
        /\ Cardinality(Granted(s))' <= Cardinality(Granted(s)) /\ admitted'[s] = admitted[s]
    BY <1>1, ConcludeCounts
  <2>2. /\ Cardinality(Granted(s)) \in Nat /\ admitted[s] \in Nat /\ RedisSpare(s) \in Nat
        /\ RedisSpare(s)' = RedisSpare(s) /\ BucketSpare(s)' = BucketSpare(s)
        /\ BucketSpare(s) \in Nat
    BY <1>1, SpareTyped DEF RedisSpare, BucketSpare
  <2>3. QED
    BY <1>1, <2>1, <2>2 DEF Kept, Budget
<1>4. QED
  BY <1>2, <1>3, BudgetKept

\* A window that ends takes what it had to spare along.
LEMMA WindowsEndKeeps ==
  ASSUME LimiterInv, NEW e \in Subjects, RedisWindowEnds(e) \/ BucketWindowEnds(e)
  PROVE  LimiterInv'
<1>1. LimiterTypeOK /\ Limit \in Nat /\ UNCHANGED <<calls, admitted, opened>>
  BY LimiterAssumption DEF LimiterInv, RedisWindowEnds, BucketWindowEnds
<1>2. /\ redisCount' \in [Subjects -> 0 .. Limit + 1]
      /\ \A s \in Subjects : redisCount'[s] \in {0, redisCount[s]}
  <2>1. redisCount \in [Subjects -> 0 .. Limit + 1] /\ 0 \in 0 .. Limit + 1
    BY <1>1 DEF LimiterTypeOK
  <2>2. CASE RedisWindowEnds(e)
    BY <2>1, <2>2 DEF RedisWindowEnds
  <2>3. CASE BucketWindowEnds(e)
    BY <2>1, <2>3 DEF BucketWindowEnds
  <2>4. QED
    BY <2>2, <2>3
<1>3. /\ bucket' \in [Subjects -> [count : 0 .. Limit + 1, open : BOOLEAN]]
      /\ \A s \in Subjects : bucket'[s] = bucket[s] \/ ~bucket'[s].open
  <2>1. CASE RedisWindowEnds(e)
    BY <1>1, <2>1 DEF LimiterTypeOK, RedisWindowEnds
  <2>2. CASE BucketWindowEnds(e)
    <3> DEFINE row == [bucket[e] EXCEPT !.open = FALSE]
    <3>1. row \in [count : 0 .. Limit + 1, open : BOOLEAN] /\ ~row.open
      BY <1>1 DEF LimiterTypeOK
    <3>2. bucket' = [bucket EXCEPT ![e] = row]
      BY <2>2 DEF BucketWindowEnds
    <3> HIDE DEF row
    <3>3. QED
      BY <1>1, <3>1, <3>2 DEF LimiterTypeOK
  <2>3. QED
    BY <2>1, <2>2
<1>4. LimiterTypeOK'
  BY <1>1, <1>2, <1>3 DEF LimiterTypeOK
<1>5. ASSUME NEW s \in Subjects PROVE Kept(s)
  <2>1. /\ Cardinality(Granted(s)) \in Nat /\ admitted[s] \in Nat /\ RedisSpare(s) \in Nat
        /\ BucketSpare(s) \in Nat /\ redisCount[s] \in 0 .. Limit + 1
    BY <1>1, SpareTyped
  <2>2. RedisSpare(s)' \in {0, RedisSpare(s)}
    BY <1>1, <1>2 DEF RedisSpare
  <2>3. BucketSpare(s)' \in {0, BucketSpare(s)}
    BY <1>1, <1>3 DEF BucketSpare
  <2>4. Granted(s)' = Granted(s)
    BY <1>1 DEF Granted, Counted
  <2>5. QED
    BY <1>1, <2>1, <2>2, <2>3, <2>4 DEF Kept, Budget
<1>6. QED
  BY <1>4, <1>5, BudgetKept

LEMMA LimiterStep == LimiterInv /\ [LimiterNext]_limiterVars => LimiterInv'
<1> SUFFICES ASSUME LimiterInv, [LimiterNext]_limiterVars PROVE LimiterInv'
  OBVIOUS
<1>1. CASE LimiterNext
  BY <1>1, EnforceKeeps, CountInRedisKeeps, RedisFailsKeeps, CountInDatabaseKeeps,
     DatabaseFailsKeeps, WindowsEndKeeps DEF LimiterNext
<1>2. CASE UNCHANGED limiterVars
  <2>1. LimiterTypeOK'
    BY <1>2 DEF limiterVars, LimiterInv, LimiterTypeOK
  <2>2. ASSUME NEW s \in Subjects PROVE Kept(s)
    <3>1. Granted(s)' = Granted(s)
      BY <1>2 DEF limiterVars, Granted, Counted
    <3>2. RedisSpare(s)' = RedisSpare(s) /\ BucketSpare(s)' = BucketSpare(s)
      BY <1>2 DEF limiterVars, RedisSpare, BucketSpare
    <3>3. Budget(s)' = Budget(s) /\ Budget(s) \in Nat
      BY <1>2, <3>1, <3>2, SpareTyped DEF limiterVars, LimiterInv, Budget
    <3>4. QED
      BY <1>2, <3>3 DEF limiterVars, Kept
  <2>3. QED
    BY <2>1, <2>2, BudgetKept
<1>3. QED
  BY <1>1, <1>2

LEMMA LimiterStarts == LimiterInit => LimiterInv
<1> SUFFICES ASSUME LimiterInit PROVE LimiterInv
  OBVIOUS
<1>1. NoCall \in Enforcing /\ NoCall.at = "idle"
  BY DEF NoCall, Enforcing
<1>2. LimiterTypeOK
  BY <1>1, LimiterAssumption DEF LimiterInit, LimiterTypeOK, Enforcing
<1>3. ASSUME NEW s \in Subjects PROVE Budget(s) <= Limit * opened[s]
  <2>1. Granted(s) = {}
    BY <1>1 DEF LimiterInit, Granted
  <2>2. Budget(s) = 0 /\ Limit * opened[s] = 0
    BY <2>1, FS_EmptySet, LimiterAssumption DEF LimiterInit, Budget, RedisSpare, BucketSpare
  <2>3. QED
    BY <2>2
<1>4. QED
  BY <1>2, <1>3 DEF LimiterInv

LEMMA LimiterSafe == LimiterSpec => []LimiterInv
  BY LimiterStarts, LimiterStep, PTL DEF LimiterSpec

\* The limiter's variables keep their types: a call in flight always has a subject left
\* to count in the store it asks.
THEOREM LimiterTypeCorrect == LimiterSpec => []LimiterTypeOK
<1>1. LimiterInv => LimiterTypeOK
  BY DEF LimiterInv
<1>2. QED
  BY <1>1, LimiterSafe, PTL

\* What was admitted is in the budget, and the budget is within the limits.
LEMMA BudgetBounds == LimiterInv => AdmissionsBounded
<1> SUFFICES ASSUME LimiterInv, NEW s \in Subjects PROVE admitted[s] <= Limit * opened[s]
  BY DEF AdmissionsBounded
<1>1. /\ Budget(s) <= Limit * opened[s] /\ Limit * opened[s] \in Nat /\ admitted[s] \in Nat
      /\ Cardinality(Granted(s)) \in Nat /\ RedisSpare(s) \in Nat /\ BucketSpare(s) \in Nat
  BY SpareTyped DEF LimiterInv
<1> DEFINE m == Limit * opened[s]
<1> HIDE DEF m
<1>2. QED
  BY <1>1 DEF Budget

\* Whatever fails and however requests overlap, a subject is admitted at most Limit times
\* for each window (AuthenticationRateLimiter.enforce and its database fallback).
THEOREM AdmissionsAreBounded == LimiterSpec => []AdmissionsBounded
  BY BudgetBounds, LimiterSafe, PTL
=============================================================================
