-------------------------- MODULE MCDefenseLifecycle --------------------------
(* Finite instances of DefenseLifecycle.                                   *)
EXTENDS DefenseLifecycle, TLC

Symmetry == Permutations(Requests) \cup Permutations(Defenses) \cup Permutations(Students)
=============================================================================
