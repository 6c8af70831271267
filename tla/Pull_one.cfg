\* Two profiles, one database, two dumps and their copies; two names of
\* targets and two containers; two events besides the steps of the commands.
CONSTANTS
  Profiles = {a, b}
  Databases = {d1}
  Ids = {1, 2}
  Settings = {s1, s2}
  Servers = {k1, k2}
  Policies = {1, 2}
  Ttl = 1
  Retention = 2
  MaxTime = 2
  MaxEvents = 2
  Names = {n1, n2}
  Containers = {k1, k2}
  NoProfile = NoProfile
  NoSettings = NoSettings
  NoContainer = NoContainer
  NoName = NoName
  NoServer = NoServer
  NoDump = NoDump
\* With MaxEvents spent and no active profile nothing happens any more.
CHECK_DEADLOCK FALSE
SYMMETRY Symmetry
SPECIFICATION Spec
INVARIANTS ReadyIsReused SoundIsRestorable DefaultPruneMatchesList KeepLastKeeps HitOutlivesPrunes
PROPERTIES RestoresItsDump ReplacesConfirmed
