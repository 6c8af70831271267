\* Two processes around one dump; the documented recovery of a deletion.
CONSTANTS
  Dumps = {d1}
  Procs = {p1, p2}
  Inodes = {1, 2, 3}
  NoDump = NoDump
SPECIFICATION Spec
INVARIANTS DeletionLeftoverIsSweepable
