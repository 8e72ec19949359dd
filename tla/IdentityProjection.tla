------------------------- MODULE IdentityProjection -------------------------
(***************************************************************************)
(* What the identity verification service promises about one user: the    *)
(* row of user_verification_states that every other component reads.  The  *)
(* projection follows the attempts in the order they were opened, along    *)
(* the transitions of verification/state.py, and its version grows by one  *)
(* with every change, so two equal versions are the same evidence.         *)
(***************************************************************************)
EXTENDS Naturals

VARIABLE
    projection \* the user's row: current attempt (0: no row), its status, version

ActiveStatuses == {"session_pending", "pending", "manual_review"}
TerminalStatuses == {"manual_review", "verified", "failed", "expired", "revoked"}
ResultStatuses == {"manual_review", "verified", "failed"}
AttemptStatuses == ActiveStatuses \cup TerminalStatuses

\* The statuses an attempt may take next; a terminal status is final.
Transitions(status) ==
    CASE status = "session_pending" -> {"pending", "failed"}
      [] status = "pending" -> ResultStatuses
      [] OTHER -> {}

NoProjection == [attempt |-> 0, status |-> "failed", version |-> 0]

Project(attempt, status) ==
    projection' = [attempt |-> attempt, status |-> status, version |-> projection.version + 1]

ProjectionInit == projection = NoProjection

\* An attempt is opened only when none is under way, and replaces the one before.
OpenAttempt ==
    /\ projection.status \notin ActiveStatuses
    /\ Project(projection.attempt + 1, "session_pending")

Progress ==
    \E status \in Transitions(projection.status) :
        /\ projection.attempt # 0
        /\ Project(projection.attempt, status)

ProjectionNext == OpenAttempt \/ Progress

ProjectionSpec == ProjectionInit /\ [][ProjectionNext]_projection
=============================================================================
