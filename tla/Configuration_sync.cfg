\* One process; the documented transaction of credential and profile.
CONSTANTS
  Procs = {p1}
  Profiles = {a, b}
  Containers = {c1}
  Keys = {k1, k2, k3}
  NoName = NoName
  NoKey = NoKey
  NoProc = NoProc
SPECIFICATION Spec
SYMMETRY Symmetry
INVARIANTS EveryReferenceResolves
