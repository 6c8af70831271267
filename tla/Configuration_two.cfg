\* Two processes change one profile and one target.
CONSTANTS
  Procs = {p1, p2}
  Profiles = {a}
  Containers = {c1}
  Keys = {k1, k2, k3}
  NoName = NoName
  NoKey = NoKey
  NoProc = NoProc
SPECIFICATION Spec
SYMMETRY Symmetry
INVARIANTS ReferencesResolve NoOrphanCredential
PROPERTIES PushGrantedByAllow KeepsBook
