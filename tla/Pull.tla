-------------------------------- MODULE Pull --------------------------------
(***************************************************************************)
(* `pull` and `restore`, from the profile that is shown to the database    *)
(* that is replaced (pull_service.rs, dump_service.rs, restore_service.rs, *)
(* local_target_gate.rs, local_target_attestor.rs, setup_service.rs):      *)
(* which dump, into which container.  The configuration is loaded up to    *)
(* three times on the way; meanwhile other commands change it, prune and   *)
(* dump (DumpSelection), and containers are stopped, renamed and created   *)
(* again.  The replacing itself is the subject of LocalRestore.            *)
(***************************************************************************)
EXTENDS DumpSelection

CONSTANTS
  Names,       \* names of containers
  Containers,  \* container IDs; a container has the server of its ID
  NoContainer, NoName, NoServer, NoDump

ASSUME ContainersAssumption == Containers \subseteq Servers

ASSUME DumpAssumption == Databases # {} /\ NoDump \notin Place

VARIABLES
  target,     \* target[n]: the container the configuration has for name n
  default,    \* the name of local_target
  docker,     \* docker[n]: the container that runs with name n
  confirmed,  \* history: the names and containers that setup has verified
  pull        \* the pull or restore that is under way

targetVars == <<target, default, docker, confirmed>>
vars == <<selectionVars, targetVars, pull>>

NoPull == [pc |-> "idle", profile |-> NoProfile, settings |-> NoSettings,
           name |-> NoName, server |-> NoServer,
           place |-> NoDump, leased |-> FALSE, artifact |-> NoDump,
           container |-> NoContainer]

Command ==
  [pc: {"idle", "selected", "missed", "dumping", "ready", "validated",
        "loaded", "attested", "replaced"},
   profile: Profiles \cup {NoProfile},     \* whose dump it wants
   settings: Settings \cup {NoSettings},   \* as that profile was loaded
   name: Names \cup {NoName},              \* of the target that was chosen
   server: Servers \cup {NoServer},        \* met by the preflight
   place: Place \cup {NoDump},             \* the dump it goes on with
   leased: BOOLEAN,                        \* whether it holds its lease
   artifact: Artifact \cup {NoDump},       \* as it was validated
   container: Containers \cup {NoContainer}]  \* as the target was loaded

(* At most one container has a name, and a container has at most one. *)
Worlds ==
  {f \in [Names -> Containers \cup {NoContainer}] :
     \A m, n \in Names : f[m] = f[n] /\ f[m] # NoContainer => m = n}

TypeOK ==
  /\ SelectionTypeOK
  /\ target \in [Names -> Containers \cup {NoContainer}]
  /\ default \in {n \in Names : target[n] # NoContainer} \cup {NoName}
  /\ docker \in Worlds
  /\ confirmed \subseteq Names \X Containers
  /\ pull \in Command

(* Each name has a container that runs; before the first setup, or after   *)
(* one of each.                                                            *)
Init ==
  /\ SelectionInit
  /\ docker \in {f \in Worlds : \A n \in Names : f[n] # NoContainer}
  /\ \/ /\ target = [n \in Names |-> NoContainer]
        /\ default = NoName
        /\ confirmed = {}
     \/ /\ target = docker
        /\ default \in Names
        /\ confirmed = {<<n, docker[n]>> : n \in Names}
  /\ pull = NoPull

-----------------------------------------------------------------------------
(* The dump.                                                               *)

At(label) == pull.pc = label

Database == CHOOSE d \in Databases : TRUE

(* configured_local_targets, local_target_named. *)
Configured == {n \in Names : target[n] # NoContainer}

(* The source is shown, and the user chooses one of the configured targets. *)
StartPull(n) ==
  /\ At("idle")
  /\ active # NoProfile
  /\ n \in Configured
  /\ pull' = [NoPull EXCEPT !.pc = "selected", !.profile = active,
                            !.settings = settings[active],
                            !.name = n]
  /\ UNCHANGED <<selectionVars, targetVars>>

(* A hit, or a miss: --fresh makes one whatever the cache holds. *)
LookUp ==
  /\ At("selected")
  /\ \/ \E a \in Lookup(pull.profile, Database, pull.settings) :
          pull' = [pull EXCEPT !.pc = "ready", !.place = a.place,
                               !.leased = TRUE]
     \/ pull' = [pull EXCEPT !.pc = "missed"]
  /\ UNCHANGED <<selectionVars, targetVars>>

(* The preflight meets a server, whose identity will be recorded. *)
Preflight(s) == reaches[s]

(* DumpService::create, which loads the configuration again. *)
StartDump ==
  /\ At("missed")
  /\ active # NoProfile
  /\ pull' = [pull EXCEPT !.pc = "dumping", !.profile = active,
                          !.settings = settings[active],
                          !.server = Preflight(settings[active])]
  /\ UNCHANGED <<selectionVars, targetVars>>

Remembered == {pull.place} \ {NoDump}

(* mysqldump connects again, and meets the server that answers then. *)
FinishDump(i) ==
  LET a == NewArtifact(pull.profile, pull.settings, Database, i,
                       pull.server, reaches[pull.settings])
  IN /\ At("dumping")
     /\ FreshId(i, Remembered)
     /\ cache' = cache \cup {a}
     /\ pull' = [pull EXCEPT !.pc = "ready", !.place = a.place]
     /\ UNCHANGED <<now, configuration, reaches, policy, plan, events,
                    targetVars>>

(* `restore`: a dump from the list, or its identifier on the command line  *)
(* (validate_by_id refuses what the list leaves out), and a target, or the *)
(* default one.                                                            *)
StartRestore(a, n) ==
  /\ At("idle")
  /\ a \in DumpChoices(Database)
  /\ pull' = [NoPull EXCEPT !.pc = "ready", !.name = n, !.place = a.place,
                            !.settings = a.metadata.settings]
  /\ UNCHANGED <<selectionVars, targetVars>>

-----------------------------------------------------------------------------
(* RestoreService::restore_to.                                             *)

(* validate_by_id, which takes a lease of its own. *)
ValidateArtifact ==
  /\ At("ready")
  /\ \E a \in Validated(pull.place.id, Database) :
       pull' = [pull EXCEPT !.pc = "validated", !.artifact = a,
                            !.place = a.place, !.leased = TRUE]
  /\ UNCHANGED <<selectionVars, targetVars>>

(* The configured target of that name, or the default one. *)
Named(n) == IF n = NoName THEN default ELSE n

(* verify_named: the configuration is loaded once more. *)
LoadTarget ==
  LET n == Named(pull.name)
  IN /\ At("validated")
     /\ n \in Configured
     /\ pull' = [pull EXCEPT !.pc = "loaded", !.name = n,
                             !.container = target[n]]
     /\ UNCHANGED <<selectionVars, targetVars>>

(* discover: the containers of the local Docker context, by name and ID. *)
Discovered == {<<n, docker[n]>> : n \in {m \in Names : docker[m] # NoContainer}}

(* A client in the network of the container of that ID meets its server. *)
Answers(k) == \E n \in Names : docker[n] = k

(* What the gate demands: the very container, by its exact name and ID. *)
Attested == <<pull.name, pull.container>> \in Discovered /\ Answers(pull.container)

(* Mutant: the container is looked up by its name, as it is now. *)
AttestTarget_ByName ==
  /\ At("loaded")
  /\ docker[pull.name] # NoContainer
  /\ pull' = [pull EXCEPT !.pc = "attested", !.container = docker[pull.name]]
  /\ UNCHANGED <<selectionVars, targetVars>>

(* attest, verify: the container runs and its server answers. *)
AttestTarget ==
  /\ At("loaded")
  /\ Attested
  /\ pull' = [pull EXCEPT !.pc = "attested"]
  /\ UNCHANGED <<selectionVars, targetVars>>

(* RestoreEngine::restore: the server of k is not the one the dump is from. *)
MayReplace(a, k) == a.metadata.server # k

(* DROP and import, by a client in the network of that very container. *)
Replace ==
  /\ At("attested")
  /\ MayReplace(pull.artifact, pull.container)
  /\ Answers(pull.container)
  /\ pull' = [pull EXCEPT !.pc = "replaced"]
  /\ UNCHANGED <<selectionVars, targetVars>>

(* The end, an error, or a cancelled question. *)
EndPull ==
  /\ ~At("idle")
  /\ pull' = NoPull
  /\ UNCHANGED <<selectionVars, targetVars>>

-----------------------------------------------------------------------------
(* Setup, and what happens to the containers.                              *)

(* The container that runs with name n is verified and configured. *)
Setup(n) ==
  /\ Event
  /\ <<n, docker[n]>> \in Discovered
  /\ target[n] # docker[n] \/ default # n
  /\ target' = [target EXCEPT ![n] = docker[n]]
  /\ default' = n
  /\ confirmed' = confirmed \cup {<<n, docker[n]>>}
  /\ UNCHANGED <<now, configuration, reaches, policy, cache, plan, docker, pull>>

(* Stopped, started, renamed, or created again with the same name. *)
ChangeContainers(f) ==
  /\ Event
  /\ f # docker
  /\ docker' = f
  /\ UNCHANGED <<now, configuration, reaches, policy, cache, plan, target,
                 default, confirmed, pull>>

PullStep ==
  \/ \E n \in Names : StartPull(n)
  \/ LookUp \/ StartDump \/ (\E i \in Ids : FinishDump(i))
  \/ \E a \in cache, n \in Names \cup {NoName} : StartRestore(a, n)
  \/ ValidateArtifact \/ LoadTarget \/ AttestTarget \/ Replace
  \/ EndPull

TargetStep ==
  \/ \E n \in Names : Setup(n)
  \/ \E f \in Worlds : ChangeContainers(f)

(* Mutant: the hit is dropped, and its lease with it, after the lookup. *)
Leased_WhileRestoring ==
  IF pull.leased /\ ~At("ready") THEN Remembered ELSE {}

(* The lease of a hit is kept until the end of the pull. *)
Leased == IF pull.leased THEN Remembered ELSE {}

(* A command ends with the release it began with. *)
OtherStep ==
  /\ \/ SelectionStep(Leased, Remembered)
     \/ At("idle") /\ \E v \in Policies : Upgrade(v)
  /\ UNCHANGED <<targetVars, pull>>

Next == PullStep \/ TargetStep \/ OtherStep

Spec == Init /\ [][Next]_vars

-----------------------------------------------------------------------------
(* Properties.                                                             *)

Replaced == pull.pc = "attested" /\ pull'.pc = "replaced"

(* However the cache and the configuration change after a pull has chosen  *)
(* a dump, by a hit or by dumping, it restores that one, whole when it was *)
(* validated, and taken with the settings the pull dumped or looked up     *)
(* with; the restore itself knows only the identifier and the database     *)
(* (pull, validate_by_id).                                                 *)
RestoresItsDump ==
  [][pull.pc = "ready" /\ pull'.pc = "validated" =>
       /\ pull'.place.id = pull.place.id
       /\ pull.profile # NoProfile => pull'.place = pull.place
       /\ pull'.artifact \in cache
       /\ pull'.artifact.dump = "intact" /\ pull'.artifact.file = "readable"
       /\ Identified(pull'.artifact)
       /\ pull'.artifact.metadata.settings = pull.settings]_vars

(* A prune that runs during a pull takes neither the dump the pull has a   *)
(* hit on nor the one it is restoring, between the two leases either.      *)
HitOutlivesPrunes ==
  pull.leased => \E a \in cache : a.place = pull.place

(* local-target-safety.md: only a container that a setup has verified      *)
(* under the name that was chosen is ever replaced, and it ran under that  *)
(* name when it was attested: one that was created again with the same     *)
(* name, or renamed to it, is not, not even between attestation and DROP.  *)
ReplacesConfirmed ==
  [][Replaced => /\ <<pull.name, pull.container>> \in confirmed
                 /\ \E n \in Names : docker[n] = pull.container]_vars

(* docs/local-target-safety.md: the server that is replaced is not the one *)
(* the rows came from.  A dump is taken in two connections, and what is    *)
(* compared is the server of the first (RestoreEngine::restore).           *)
ReplacesNoSource ==
  [][Replaced => pull.artifact.origin # pull.container]_vars

(* docs/ui-ux-test-guide.md: the source is shown before it is accessed.    *)
(* What a pull shows it shows before the lookup.                           *)
DumpsShownSource ==
  [][At("missed") /\ At("dumping")' =>
       /\ pull'.profile = pull.profile
       /\ pull'.settings = pull.settings]_vars
=============================================================================
