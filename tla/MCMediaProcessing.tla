-------------------------- MODULE MCMediaProcessing --------------------------
(* Instances of MediaProcessing for TLC. *)
EXTENDS MediaProcessing, TLC

\* Identities are interchangeable: sound for the invariants and step properties.
Symmetry ==
  Permutations(Media) \cup Permutations(Workers) \cup
  Permutations(Copies) \cup Permutations(Kinds)
=============================================================================
