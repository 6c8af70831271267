--------------------------- MODULE DumpSelection ---------------------------
(***************************************************************************)
(* Which dumps of the cache `pull` reuses, `cache list` calls ready, stale *)
(* or prunable, `cache prune` removes and `restore` offers and accepts     *)
(* (cache.rs, prune.rs, cache_cleanup.rs, restore_service.rs,              *)
(* restore_artifact.rs), while the clock, the configuration, the program   *)
(* and the files change.  Module Pull adds the commands that restore a     *)
(* dump; locks and leases are the subject of ArtifactCache.                *)
(***************************************************************************)
EXTENDS Naturals, FiniteSets, FiniteSetsExt

CONSTANTS
  Profiles,    \* names of source profiles
  Databases,   \* names of databases
  Ids,         \* dump identifiers, ordered as numbers
  Settings,    \* connection settings a profile can have: the fingerprint
  Servers,     \* MySQL servers, each with a @@server_uuid of its own
  Policies,    \* versions of the dump policy, one per release of reprodb
  Ttl,         \* PULL_FRESHNESS_TTL_SECONDS
  Retention,   \* DEFAULT_RETENTION_SECONDS
  MaxTime,     \* bound on the clock
  MaxEvents,   \* bound on what happens besides the steps of a command
  NoProfile, NoSettings

ASSUME NumbersAssumption ==
  /\ Ids \subseteq Nat /\ Policies \subseteq Nat
  /\ {Ttl, Retention, MaxTime, MaxEvents} \subseteq Nat
  /\ Ttl <= Retention

ASSUME SettingsAssumption == NoSettings \notin Settings

VARIABLES
  now,       \* the local clock
  settings,  \* settings[n]: of profile n in the configuration, if it is there
  active,    \* active_profile
  reaches,   \* reaches[s]: the server that answers at the address of s
  policy,    \* the dump policy of the installed release
  cache,     \* the artifact directories
  plan,      \* the prune plan the user is asked about
  events     \* number of events so far

configuration == <<settings, active>>
selectionVars == <<now, settings, active, reaches, policy, cache, plan, events>>

Time == 0..MaxTime

Place == [profile: Profiles, database: Databases, id: Ids]

Metadata == [place: Place, settings: Settings, policy: Policies,
             completed: Time, server: Servers]

(* A directory: where it is, what is in it, and from which server the rows *)
(* came.  A part of it may be gone or damaged: the dump has another size,  *)
(* or other bytes of the same size; the metadata cannot be parsed, or it   *)
(* can and has another size or SHA-256 of the SQL than the dump.           *)
Artifact == [place: Place, metadata: Metadata, origin: Servers,
             file: {"readable", "missing", "corrupt", "miscounted"},
             dump: {"intact", "missing", "resized", "altered"}]

SelectionTypeOK ==
  /\ now \in Time
  /\ settings \in [Profiles -> Settings \cup {NoSettings}]
  /\ active \in {n \in Profiles : settings[n] # NoSettings} \cup {NoProfile}
  /\ reaches \in [Settings -> Servers]
  /\ policy \in Policies
  /\ cache \subseteq Artifact
  /\ \A x, y \in cache : x.place = y.place => x = y
  /\ plan \subseteq Place
  /\ events \in 0..MaxEvents

(* Every address has the same server and the release is the first one;     *)
(* Repoint and Upgrade change that.                                        *)
SelectionInit ==
  /\ now \in Time
  /\ settings \in [Profiles -> Settings]
  /\ active \in Profiles
  /\ \E v \in Servers : reaches = [s \in Settings |-> v]
  /\ policy \in Policies /\ \A v \in Policies : policy <= v
  /\ cache = {}
  /\ plan = {}
  /\ events = 0

-----------------------------------------------------------------------------
(* Reading the cache.                                                      *)

(* metadata.json can be read; what it says of the SQL is not looked at. *)
HasMetadata(a) == a.file \in {"readable", "miscounted"}

(* Both files are there. *)
Complete(a) == a.file # "missing" /\ a.dump # "missing"

(* The metadata is that of a dump in this very place. *)
Identified(a) == HasMetadata(a) /\ a.metadata.place = a.place

(* Mutant: the policy of the dump does not matter. *)
Reusable_AnyPolicy(a, s) ==
  /\ Identified(a)
  /\ a.metadata.settings = s
  /\ a.metadata.completed <= now
  /\ now < a.metadata.completed + Ttl
  /\ a.dump = "intact"

(* validate_candidate, with the settings the profile was loaded with. *)
Reusable(a, s) ==
  /\ Identified(a)
  /\ a.metadata.settings = s
  /\ a.metadata.policy = policy
  /\ a.metadata.completed <= now
  /\ now < a.metadata.completed + Ttl
  /\ a.dump = "intact"

Newer(a, b) == a.metadata.completed > b.metadata.completed

(* lookup_by_database: the first reusable one, the newest first and then   *)
(* in the order of the identifiers; the empty set is a miss.               *)
Lookup(n, d, s) ==
  LET candidates == {a \in cache : /\ a.place.profile = n
                                   /\ a.place.database = d
                                   /\ Complete(a)
                                   /\ Reusable(a, s)}
  IN {a \in candidates : \A b \in candidates \ {a} :
        \/ Newer(a, b)
        \/ ~Newer(b, a) /\ a.place.id < b.place.id}

(* inspect_all: what `cache list` says of a directory. *)
Status(a) ==
  IF a.file = "missing" THEN "missing file"
  ELSE IF a.file = "corrupt" THEN "corrupt metadata"
  ELSE IF ~Identified(a) THEN "identity changed"
  ELSE IF a.dump = "missing" THEN "missing file"
  ELSE IF a.dump = "resized" THEN "size mismatch"
  ELSE IF a.dump = "altered" THEN "checksum mismatch"
  ELSE IF a.metadata.policy # policy THEN "policy changed"
  ELSE IF settings[a.place.profile] = NoSettings THEN "profile missing"
  ELSE IF a.metadata.settings # settings[a.place.profile] THEN "source changed"
  ELSE IF a.metadata.completed > now THEN "clock in future"
  ELSE IF now >= a.metadata.completed + Retention THEN "prunable"
  ELSE IF now >= a.metadata.completed + Ttl THEN "stale"
  ELSE "ready"

(* Mutant: the checksum is not compared. *)
Validated_BySize(i, d) ==
  LET found == {a \in cache : a.place.id = i /\ Complete(a)}
  IN IF Cardinality(found) # 1 THEN {}
     ELSE {a \in found : /\ Identified(a) /\ a.file # "miscounted"
                         /\ a.dump \in {"intact", "altered"}
                         /\ a.place.database = d}

(* validate_by_id: exactly one complete directory has the identifier, and  *)
(* it holds what its metadata says, the figures of the decompressed SQL    *)
(* included, of the database that was asked for.                           *)
Validated(i, d) ==
  LET found == {a \in cache : a.place.id = i /\ Complete(a)}
  IN IF Cardinality(found) # 1 THEN {}
     ELSE {a \in found : /\ Identified(a) /\ a.file # "miscounted"
                         /\ a.dump = "intact"
                         /\ a.place.database = d}

(* dump_choices: what `restore` without --dump-id offers, by the metadata  *)
(* alone; the rest is looked at when the dump has been chosen.             *)
DumpChoices(d) ==
  {a \in cache : /\ a.place.database = d
                 /\ Complete(a) /\ HasMetadata(a)
                 /\ a.metadata.place.id = a.place.id
                 /\ a.metadata.place.database = d}

-----------------------------------------------------------------------------
(* select_for_prune.                                                       *)

Candidates == {a \in cache : HasMetadata(a)}

(* Mutant: the age is computed as if the clock never went back. *)
OlderThan_AnyClock(seconds) ==
  {a \in Candidates : now >= a.metadata.completed + seconds \/ now < a.metadata.completed}

OlderThan(seconds) ==
  {a \in Candidates : /\ a.metadata.completed <= now
                      /\ now >= a.metadata.completed + seconds}

(* Mutant: dumps of the same second have no order. *)
Precedes_ByTime(b, a) ==
  /\ b.place.profile = a.place.profile /\ b.place.database = a.place.database
  /\ Newer(b, a)

(* Before a in the order of its group: newer, or as new with a larger id.  *)
Precedes(b, a) ==
  /\ b.place.profile = a.place.profile /\ b.place.database = a.place.database
  /\ \/ Newer(b, a)
     \/ ~Newer(a, b) /\ b.place.id > a.place.id

KeepLast(count) ==
  {a \in Candidates :
     Cardinality({b \in Candidates : Precedes(b, a)}) >= count}

-----------------------------------------------------------------------------
(* Other commands, and what happens to the clock and to the files.         *)

Event == events < MaxEvents /\ events' = events + 1

(* Time passes, or the clock is set, also back. *)
SetClock(t) ==
  /\ Event
  /\ t # now
  /\ now' = t
  /\ UNCHANGED <<configuration, reaches, policy, cache, plan>>

(* `profile remove`, and `profile add` with the same name. *)
RemoveProfile(n) ==
  /\ Event
  /\ settings[n] # NoSettings
  /\ settings' = [settings EXCEPT ![n] = NoSettings]
  /\ active' = IF active = n THEN NoProfile ELSE active
  /\ UNCHANGED <<now, reaches, policy, cache, plan>>

AddProfile(n, s) ==
  /\ Event
  /\ settings[n] = NoSettings
  /\ settings' = [settings EXCEPT ![n] = s]
  /\ active' = n
  /\ UNCHANGED <<now, reaches, policy, cache, plan>>

UseProfile(n) ==
  /\ Event
  /\ settings[n] # NoSettings /\ n # active
  /\ active' = n
  /\ UNCHANGED <<now, settings, reaches, policy, cache, plan>>

(* Another server answers at the address: a failover, another container    *)
(* that publishes the same port.                                           *)
Repoint(s, v) ==
  /\ Event
  /\ v # reaches[s]
  /\ reaches' = [reaches EXCEPT ![s] = v]
  /\ UNCHANGED <<now, configuration, policy, cache, plan>>

(* A release with a new dump policy is installed. *)
Upgrade(v) ==
  /\ Event
  /\ v > policy
  /\ policy' = v
  /\ UNCHANGED <<now, configuration, reaches, cache, plan>>

(* The artifact of a dump that completes now: `server` is the one the      *)
(* preflight met, which is recorded, `origin` the one mysqldump met.       *)
NewArtifact(n, s, d, i, server, origin) ==
  LET place == [profile |-> n, database |-> d, id |-> i]
  IN [place |-> place, file |-> "readable", dump |-> "intact",
      origin |-> origin,
      metadata |-> [place |-> place, settings |-> s, policy |-> policy,
                    completed |-> now, server |-> server]]

(* Dump identifiers are random: none is drawn again while it is remembered. *)
FreshId(i, remembered) ==
  \A p \in {a.place : a \in cache} \cup plan \cup remembered : p.id # i

(* The whole of a `dump`, its lock and its staging as in ArtifactCache. *)
Dump(d, i) ==
  LET s == settings[active]
  IN /\ Event
     /\ active # NoProfile
     /\ cache' = cache \cup {NewArtifact(active, s, d, i, reaches[s], reaches[s])}
     /\ UNCHANGED <<now, configuration, reaches, policy, plan>>

(* A file is lost or damaged. *)
Damage(a) ==
  /\ Event
  /\ a \in cache
  /\ \E b \in {[a EXCEPT !.file = "missing"], [a EXCEPT !.file = "corrupt"],
              [a EXCEPT !.file = "miscounted"], [a EXCEPT !.dump = "missing"],
              [a EXCEPT !.dump = "resized"], [a EXCEPT !.dump = "altered"]} :
        b # a /\ cache' = (cache \ {a}) \cup {b}
  /\ UNCHANGED <<now, configuration, reaches, policy, plan>>

(* Somebody copies a directory below another profile or database. *)
Copy(a, n, d) ==
  LET place == [profile |-> n, database |-> d, id |-> a.place.id]
  IN /\ Event
     /\ a \in cache
     /\ \A b \in cache : b.place # place
     /\ cache' = cache \cup {[a EXCEPT !.place = place]}
     /\ UNCHANGED <<now, configuration, reaches, policy, plan>>

(* `cache prune`, of one database or of all of them: the plan is made and  *)
(* shown.  A group never spans two databases, so the filter may come last. *)
PlanPrune(selected, wanted) ==
  /\ Event
  /\ plan = {}
  /\ plan' = {a.place : a \in {b \in selected : b.place.database \in wanted}}
  /\ UNCHANGED <<now, configuration, reaches, policy, cache>>

(* The dumps that a command has leased are kept. *)
ExecutePrune(leased) ==
  /\ plan # {}
  /\ cache' = {a \in cache : a.place \notin plan \/ a.place \in leased}
  /\ plan' = {}
  /\ UNCHANGED <<now, configuration, reaches, policy, events>>

DeclinePrune ==
  /\ plan # {}
  /\ plan' = {}
  /\ UNCHANGED <<now, configuration, reaches, policy, cache, events>>

ConfigurationStep ==
  \E n \in Profiles :
    \/ RemoveProfile(n) \/ UseProfile(n)
    \/ \E s \in Settings : AddProfile(n, s)

(* What other commands and users do to the cache while a command holds the *)
(* leases of some dumps and remembers the identifiers of some.             *)
CacheStep(leased, remembered) ==
  \/ \E d \in Databases, i \in Ids : FreshId(i, remembered) /\ Dump(d, i)
  \/ \E a \in cache :
       \/ Damage(a)
       \/ \E n \in Profiles, d \in Databases : Copy(a, n, d)
  \/ \E wanted \in {Databases} \cup {{d} : d \in Databases} :
       \/ PlanPrune(OlderThan(Retention), wanted)
       \/ \E count \in 1..2 : PlanPrune(KeepLast(count), wanted)
       \/ PlanPrune(Candidates, wanted)
  \/ ExecutePrune(leased) \/ DeclinePrune

SelectionStep(leased, remembered) ==
  \/ ConfigurationStep \/ CacheStep(leased, remembered)
  \/ \E t \in Time : SetClock(t)
  \/ \E s \in Settings, v \in Servers : Repoint(s, v)

-----------------------------------------------------------------------------
(* Properties.                                                             *)

(* `cache list` and `pull` agree, although each has its own checks in its  *)
(* own order: a pull of a configured profile has a hit exactly when the    *)
(* list shows a ready dump of that profile and database, and it is the     *)
(* newest of these (inspect_all, lookup_by_database).                      *)
ReadyIsReused ==
  \A n \in Profiles, d \in Databases :
    LET ready == {a \in cache : /\ Status(a) = "ready"
                                /\ a.place.profile = n /\ a.place.database = d}
        hit == Lookup(n, d, settings[n])
    IN settings[n] # NoSettings =>
         /\ Cardinality(hit) = (IF ready = {} THEN 0 ELSE 1)
         /\ \A a \in hit : a \in ready /\ \A b \in ready : ~Newer(b, a)

Sound == {"ready", "stale", "prunable", "policy changed", "profile missing",
          "source changed", "clock in future"}

(* No other complete or broken directory has the identifier of a.          *)
Single(a) == \A b \in cache \ {a} : b.place.id # a.place.id

(* What a restore accepts the list shows without a defect, however old it  *)
(* is and whatever became of its profile; and what the list shows without  *)
(* a defect a restore accepts, unless the metadata contradicts the SQL in  *)
(* the dump, which only a restore decompresses (inspect_all,               *)
(* validate_by_id).  Both as long as the identifier was not copied.        *)
SoundIsRestorable ==
  \A a \in cache : Single(a) =>
    LET accepted == Validated(a.place.id, a.place.database) = {a}
    IN /\ accepted => Status(a) \in Sound
       /\ Status(a) \in Sound /\ ~accepted => a.file = "miscounted"

(* docs/pull-command.md: an invalid cache becomes a miss.  What pull takes *)
(* for a hit, a restore accepts.                                           *)
InvalidIsMissed ==
  \A n \in Profiles, d \in Databases :
    \A a \in Lookup(n, d, settings[n]) :
      Single(a) => Validated(a.place.id, d) = {a}

(* A prune without flags takes every dump the list shows as prunable and   *)
(* none it shows as ready, stale or from the future (select_for_prune,     *)
(* inspect_all).  Of a dump the list shows as damaged or changed, which    *)
(* hides its age, it says nothing.                                         *)
DefaultPruneMatchesList ==
  \A a \in cache :
    /\ Status(a) = "prunable" => a \in OlderThan(Retention)
    /\ Status(a) \in {"ready", "stale", "clock in future"} =>
         a \notin OlderThan(Retention)

(* --keep-last N leaves the N newest of every profile and database, also   *)
(* when several were completed in the same second.                         *)
KeepLastKeeps ==
  \A count \in 1..2, a \in Candidates :
    LET group == {b \in Candidates : b.place.profile = a.place.profile
                                     /\ b.place.database = a.place.database}
        kept == group \ KeepLast(count)
    IN /\ Cardinality(kept) = Min({count, Cardinality(group)})
       /\ \A b \in kept, c \in group \ kept : ~Newer(c, b)
=============================================================================
