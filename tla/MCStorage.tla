----------------------------- MODULE MCStorage -----------------------------
(* Storage for TLC. *)
EXTENDS Storage, TLC

Symmetry == Permutations(Job) \cup Permutations(Names)
Within ==
  /\ Cardinality(faults) <= 1
=============================================================================
