\* Two processes around one dump, with fairness; no symmetry for liveness.
CONSTANTS
  Dumps = {d1}
  Procs = {p1, p2}
  Inodes = {1, 2, 3}
  NoDump = NoDump
SPECIFICATION FairSpec
INVARIANTS LeasedArtifactIntact StagingKeptWhileWritten PublishedIsWhole
PROPERTIES ImplementsRegistry OnlyPruneTakesComplete AbandonedStagingLeaves InterruptedDeletionResumed
