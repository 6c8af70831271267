\* Three processes, two dumps, one database, with fairness; no symmetry for
\* liveness.
CONSTANTS
  Procs = {p1, p2, p3}
  Targets = {t1}
  Dumps = {d1, d2}
  Compatible <- MCCompatible
  Parts = 3
  Pipe = 2
  MaxOrphans = 1
  NoProc = NoProc
  NoTarget = NoTarget
  NoDump = NoDump
SPECIFICATION FairSpec
INVARIANT ReadyIsExactUnlessStrayed
PROPERTIES ChangedOnlyWhenIncomplete KeepsPromise TargetComesFree
