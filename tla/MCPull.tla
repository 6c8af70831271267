------------------------------- MODULE MCPull -------------------------------
(* Pull for TLC.  Settings are only compared, and containers and their     *)
(* names are alike.                                                        *)
EXTENDS Pull, TLC

Symmetry == Permutations(Settings) \cup Permutations(Containers)
              \cup Permutations(Names)
=============================================================================
