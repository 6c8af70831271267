\* Two processes; the documented effect of deny-push.
CONSTANTS
  Procs = {p1, p2}
  Profiles = {a}
  Containers = {c1}
  Keys = {k1, k2}
  NoName = NoName
  NoKey = NoKey
  NoProc = NoProc
SPECIFICATION Spec
SYMMETRY Symmetry
PROPERTIES OnlyAllowGrantsPush
