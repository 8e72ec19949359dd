---------------------------- MODULE EventDelivery ----------------------------
(***************************************************************************)
(* What the outbox promises the services that enqueue events and the       *)
(* handlers that consume them, without relays, claims or queues: only a    *)
(* committed event is sent, only a sent event is marked published, that    *)
(* mark is final, and a handler's effect on a sent event happens once.     *)
(***************************************************************************)
CONSTANT Events

VARIABLES
  stage,   \* "none", "committed" or "published"
  sent,    \* events handed to the queue at least once
  handled  \* how often a handler has taken effect on each event

vars == <<stage, sent, handled>>

Init ==
  /\ stage = [e \in Events |-> "none"]
  /\ sent = {}
  /\ handled = [e \in Events |-> 0]

Commit(e) ==
  /\ stage[e] = "none"
  /\ stage' = [stage EXCEPT ![e] = "committed"]
  /\ UNCHANGED <<sent, handled>>

Send(e) ==
  /\ stage[e] # "none"
  /\ sent' = sent \cup {e}
  /\ UNCHANGED <<stage, handled>>

Confirm(e) ==
  /\ stage[e] = "committed" /\ e \in sent
  /\ stage' = [stage EXCEPT ![e] = "published"]
  /\ UNCHANGED <<sent, handled>>

Handle(e) ==
  /\ e \in sent /\ handled[e] = 0
  /\ handled' = [handled EXCEPT ![e] = 1]
  /\ UNCHANGED <<stage, sent>>

Next == \E e \in Events : Commit(e) \/ Send(e) \/ Confirm(e) \/ Handle(e)

Spec == Init /\ [][Next]_vars

=============================================================================
