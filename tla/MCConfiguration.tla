-------------------------- MODULE MCConfiguration --------------------------
(* Processes, names and keys are interchangeable. *)
EXTENDS Configuration, TLC

Symmetry == Permutations(Procs) \cup Permutations(Profiles) \cup Permutations(Keys)
=============================================================================
