-------------------------- MODULE MCOrderLifecycle --------------------------
(* Instances of OrderLifecycle for TLC. *)
EXTENDS OrderLifecycle, TLC

Symmetry == Permutations(Orders) \cup Permutations(Requests) \cup Permutations(Servers)
=============================================================================
