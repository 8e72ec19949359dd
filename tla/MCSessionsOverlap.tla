----------------------------- MODULE MCSessionsOverlap --------------------------
(***************************************************************************)
(* Sessions with the instances TLC checks.  Both kinds of requests overlap *)
(* only in the proofs; a run explores them one after the other, each with  *)
(* its own bounds.                                                         *)
(***************************************************************************)
EXTENDS Sessions, TLC

VARIABLE focus \* the requests a behaviour considers

Rotation == {"login", "refresh", "logout", "logout_all"}
Credentials == {"login", "refresh", "change", "reset", "recover"}

\* Families that rotate and are revoked, under one password, with crashes.
Rotating ==
    /\ account.status = "active"
    /\ \A h \in Challenges : challenge[h].state = "absent"
    /\ \A c \in Clients : /\ req[c].op \in Rotation \cup {"none"}
                          /\ req[c].presented \in {None, account.hash.password}

\* Requests that may still insert a token.
Issuing ==
    {c \in Clients : req[c].op = "login" \/ (req[c].op = "refresh" /\ Exchangeable(req[c].token))}

\* Passwords and their recovery.  One id of a token is always left: the third token is for
\* the second refresh of a token, among the rotations.
Renewing ==
    /\ \A c \in Clients : req[c].op \in Credentials \cup {"none"}
    /\ Cardinality(Issuing) < Cardinality(Unissued)

OverlapInit == Init /\ focus \in {"rotation", "credentials"}

OverlapNext ==
    /\ UNCHANGED focus
    /\ \/ focus = "rotation" /\ Next /\ Rotating'
       \/ /\ focus = "credentials"
          /\ (\E c \in Clients : Arrival(c) \/ ClientStep(c)) \/ Environment
          /\ Renewing'

OverlapSpec == OverlapInit /\ [][OverlapNext]_<<vars, focus>>

\* Requests, ids and passwords are interchangeable.
Symmetry == Permutations(Clients) \cup Permutations(Families) \cup Permutations(Tokens)
            \cup Permutations(Challenges) \cup Permutations(Passwords)
=============================================================================
