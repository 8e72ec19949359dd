---------------------------- MODULE MCOutboxRelay ----------------------------
(* Instances of OutboxRelay for TLC. *)
EXTENDS OutboxRelay, TLC

\* Relays and consumers are interchangeable: sound for the invariants and
\* step properties.
Symmetry == Permutations(Relays) \cup Permutations(Consumers)
=============================================================================
