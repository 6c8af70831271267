\* Two processes; the comment of restore_engine.rs about a stale ready state.
CONSTANTS
  Procs = {p1, p2}
  Targets = {t1}
  Dumps = {d1, d2}
  Compatible <- MCCompatible
  Parts = 2
  Pipe = 1
  MaxOrphans = 1
  NoProc = NoProc
  NoTarget = NoTarget
  NoDump = NoDump
SPECIFICATION Spec
SYMMETRY Symmetry
INVARIANTS ReadyIsExact
