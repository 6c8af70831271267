------------------------------- MODULE MCPush -------------------------------
(* Names, places and processes are interchangeable. *)
EXTENDS Push, TLC

Symmetry ==
  Permutations(Procs) \cup Permutations(Profiles) \cup Permutations(Endpoints)
    \cup Permutations(Servers) \cup Permutations(Databases)
=============================================================================
