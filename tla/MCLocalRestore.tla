--------------------------- MODULE MCLocalRestore ---------------------------
(* Every dump fits every target; processes and dumps are interchangeable. *)
EXTENDS LocalRestore, TLC

MCCompatible == Dumps \X Targets

Symmetry == Permutations(Procs) \cup Permutations(Dumps)
=============================================================================
