---------------------------- MODULE Registration ----------------------------
(***************************************************************************)
(* Registration behind an idempotency key.  One transaction reserves the   *)
(* key, looks for the e-mail, inserts the account with its challenge and   *)
(* its event, and completes the key; statements of other transactions come *)
(* between its own.  PostgreSQL makes the insert of a key or an e-mail     *)
(* wait for a transaction that has inserted the same one and not ended.    *)
(* The verification code is handed to delivery after the commit.           *)
(***************************************************************************)
EXTENDS Naturals, Sequences

CONSTANTS
    Registrants,      \* requests in flight
    RegistrationKeys, \* idempotency keys
    Emails            \* normalized addresses; the payload of a request

ASSUME RegistrationAssumption == RegistrationKeys # {} /\ Emails # {}

VARIABLES
    accounts,  \* users: [email, key]; the position is the user's id
    records,   \* idempotency_records: key -> [email, account], account 0 when free
    forms,     \* the requests in flight
    answers    \* history: [key, email, account] answered 201

registrationVars == <<accounts, records, forms, answers>>

Free(email) == [email |-> email, account |-> 0]
NoForm(k, e) == [at |-> "idle", key |-> k, email |-> e, account |-> 0]
SomeKey == CHOOSE k \in RegistrationKeys : TRUE
SomeEmail == CHOOSE e \in Emails : TRUE

RegistrationInit ==
    /\ accounts = <<>>
    /\ records = [k \in RegistrationKeys |-> Free(SomeEmail)]
    /\ forms = [c \in Registrants |-> NoForm(SomeKey, SomeEmail)]
    /\ answers = {}

HoldsKey(c, k) == forms[c].key = k /\ forms[c].at \in {"checking", "inserting", "committing"}
HoldsEmail(c, e) == forms[c].email = e /\ forms[c].at = "committing"
Others(c) == Registrants \ {c}
Registered(e) == \E i \in DOMAIN accounts : accounts[i].email = e

Go(c, at) == forms' = [forms EXCEPT ![c].at = at]
Leave(c) == forms' = [forms EXCEPT ![c] = NoForm(SomeKey, SomeEmail)]

-----------------------------------------------------------------------------
SubmitForm(c, k, e) ==
    /\ forms[c].at = "idle"
    /\ forms' = [forms EXCEPT ![c] = [NoForm(k, e) EXCEPT !.at = "reserving"]]
    /\ UNCHANGED <<accounts, records, answers>>

\* Variant of Reserve: the insert of a key waits for no other.
ReserveUnlocked(c) ==
    LET k == forms[c].key
        e == forms[c].email
    IN
    /\ forms[c].at = "reserving"
    /\ \/ /\ records[k].account = 0
          /\ Go(c, "checking")
          /\ UNCHANGED answers
       \/ /\ records[k].account # 0
          /\ Leave(c)
          /\ answers' = IF records[k].email = e
                        THEN answers \cup {[key |-> k, email |-> e, account |-> records[k].account]}
                        ELSE answers
    /\ UNCHANGED <<accounts, records>>

\* INSERT ... ON CONFLICT DO NOTHING waits while another transaction holds the
\* key; then the key is ours, or its answer is replayed, or the payload differs.
Reserve(c) ==
    LET k == forms[c].key
        e == forms[c].email
    IN
    /\ forms[c].at = "reserving"
    /\ \A d \in Others(c) : ~HoldsKey(d, k)
    /\ \/ /\ records[k].account = 0
          /\ Go(c, "checking")
          /\ UNCHANGED answers
       \/ /\ records[k].account # 0
          /\ Leave(c)
          /\ answers' = IF records[k].email = e
                        THEN answers \cup {[key |-> k, email |-> e, account |-> records[k].account]}
                        ELSE answers
    /\ UNCHANGED <<accounts, records>>

\* An account with the address, committed by now, refuses the request.
CheckEmail(c) ==
    /\ forms[c].at = "checking"
    /\ IF Registered(forms[c].email) THEN Leave(c) ELSE Go(c, "inserting")
    /\ UNCHANGED <<accounts, records, answers>>

\* Variant of InsertUser: no unique index on the address.
InsertUserUnchecked(c) ==
    /\ forms[c].at = "inserting"
    /\ Go(c, "committing")
    /\ UNCHANGED <<accounts, records, answers>>

\* The unique index on the address: wait for an open insert, fail on a committed one.
InsertUser(c) ==
    /\ forms[c].at = "inserting"
    /\ \A d \in Others(c) : ~HoldsEmail(d, forms[c].email)
    /\ IF Registered(forms[c].email) THEN Leave(c) ELSE Go(c, "committing")
    /\ UNCHANGED <<accounts, records, answers>>

\* Account, profile, challenge, event and completed key become visible at once.
CommitRegistration(c) ==
    LET k == forms[c].key
        e == forms[c].email
        id == Len(accounts) + 1
    IN
    /\ forms[c].at = "committing"
    /\ accounts' = Append(accounts, [email |-> e, key |-> k])
    /\ records' = [records EXCEPT ![k] = [email |-> e, account |-> id]]
    /\ forms' = [forms EXCEPT ![c].at = "delivering", ![c].account = id]
    /\ UNCHANGED <<answers>>

\* The code is delivered, then the request is answered.
DeliverCode(c) ==
    /\ forms[c].at = "delivering"
    /\ answers' = answers \cup {[key |-> forms[c].key, email |-> forms[c].email,
                                 account |-> forms[c].account]}
    /\ Leave(c)
    /\ UNCHANGED <<accounts, records>>

\* The process dies, the connection breaks or the delivery adapter raises: an
\* open transaction is rolled back, a committed one stays, its code is lost.
RegistrantDies(c) ==
    /\ forms[c].at # "idle"
    /\ Leave(c)
    /\ UNCHANGED <<accounts, records, answers>>

RegistrationNext ==
    \E c \in Registrants :
       \/ \E k \in RegistrationKeys, e \in Emails : SubmitForm(c, k, e)
       \/ Reserve(c) \/ CheckEmail(c) \/ InsertUser(c) \/ CommitRegistration(c)
       \/ DeliverCode(c) \/ RegistrantDies(c)

RegistrationSpec == RegistrationInit /\ [][RegistrationNext]_registrationVars

-----------------------------------------------------------------------------
\* Every variable has the shape the registration gives it.
RegistrationTypeOK ==
    /\ accounts \in Seq([email : Emails, key : RegistrationKeys])
    /\ records \in [RegistrationKeys -> [email : Emails, account : 0 .. Len(accounts)]]
    /\ forms \in [Registrants -> [at : {"idle", "reserving", "checking", "inserting",
                                        "committing", "delivering"},
                                  key : RegistrationKeys, email : Emails,
                                  account : 0 .. Len(accounts)]]
    /\ answers \subseteq [key : RegistrationKeys, email : Emails, account : DOMAIN accounts]

\* Requests that overlap anywhere between reserving and committing never leave
\* two accounts with one address.
OneAccountPerEmail ==
    \A i, j \in DOMAIN accounts : accounts[i].email = accounts[j].email => i = j

\* A key has at most one effect and one answer: the accounts and the completed
\* keys name each other one to one, so a retry, a concurrent duplicate or a crash
\* never runs a registration twice and never loses the record of one that ran;
\* and everyone who was told "registered" under one key was told the same
\* account, the one of the address that was sent.
KeysNameTheirAccount ==
    /\ \A k \in RegistrationKeys : records[k].account # 0 =>
          accounts[records[k].account] = [email |-> records[k].email, key |-> k]
    /\ \A i \in DOMAIN accounts : records[accounts[i].key].account = i
    /\ \A a, b \in answers : a.key = b.key => a = b
    /\ \A a \in answers : accounts[a.account].email = a.email
=============================================================================
