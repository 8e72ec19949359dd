----------------------------- MODULE MediaReview -----------------------------
(***************************************************************************)
(* What media processing promises, without workers, messages, leases or    *)
(* tokens: an accepted upload waits until it is decided once, the decision *)
(* is announced in the same step and never changes, and a removed item is  *)
(* never touched again.                                                    *)
(***************************************************************************)
EXTENDS Sequences

CONSTANTS
  Media,    \* media items
  Verdicts  \* decisions

VARIABLES
  phase,     \* where each item stands
  announced  \* the announcements made about each item

vars == <<phase, announced>>

Phases == {"absent", "intent", "pending", "removed"}

TypeOK ==
  /\ phase \in [Media -> Phases \cup Verdicts]
  /\ announced \in [Media -> Seq(Verdicts)]

Init ==
  /\ phase = [m \in Media |-> "absent"]
  /\ announced = [m \in Media |-> <<>>]

Create(m) ==
  /\ phase[m] = "absent"
  /\ phase' = [phase EXCEPT ![m] = "intent"]
  /\ UNCHANGED announced

Accept(m) ==
  /\ phase[m] = "intent"
  /\ phase' = [phase EXCEPT ![m] = "pending"]
  /\ UNCHANGED announced

Decide(m, v) ==
  /\ phase[m] = "pending" /\ announced[m] = <<>>
  /\ phase' = [phase EXCEPT ![m] = v]
  /\ announced' = [announced EXCEPT ![m] = <<v>>]

Remove(m) ==
  /\ phase[m] \notin {"absent", "removed"}
  /\ phase' = [phase EXCEPT ![m] = "removed"]
  /\ UNCHANGED announced

Next ==
  \E m \in Media :
    \/ Create(m) \/ Accept(m) \/ Remove(m)
    \/ \E v \in Verdicts : Decide(m, v)

Spec == Init /\ [][Next]_vars

=============================================================================
