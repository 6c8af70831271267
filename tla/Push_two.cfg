\* Two pushes, and one change by others.
CONSTANTS
  Procs = {p1, p2}
  Profiles = {a, b}
  Endpoints = {e1, e2}
  Servers = {s1, s2}
  Databases = {d1, d2}
  MaxCached = 2
  MaxEdits = 1
  NoProfile = NoProfile
  NoEndpoint = NoEndpoint
  NoServer = NoServer
  NoDatabase = NoDatabase
  NoDump = NoDump
\* With MaxEdits spent and no eligible destination nothing happens any more.
CHECK_DEADLOCK FALSE
SPECIFICATION Spec
SYMMETRY Symmetry
INVARIANTS SourceNeverOverwritten DestinationUnprotected OneWriterPerProfile
