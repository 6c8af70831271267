--------------------------- MODULE Configuration ---------------------------
(***************************************************************************)
(* The configuration document, the write lock around each save, the        *)
(* credential files its entries refer to, and the commands that change     *)
(* them (config.rs, profile_service.rs, setup_service.rs,                  *)
(* credential_transaction.rs, credentials/store.rs).  A command loads the  *)
(* document, changes its copy and saves it; the lock covers the save only. *)
(***************************************************************************)
EXTENDS Naturals

CONSTANTS
  Procs,       \* reprodb processes
  Profiles,    \* names of source profiles
  Containers,  \* names of local target containers
  Keys,        \* credential keys (random UUIDs)
  NoName, NoKey, NoProc

ASSUME NamesAssumption ==
  /\ Profiles \cap Containers = {}
  /\ NoName \notin Profiles \cup Containers
  /\ NoKey \notin Keys
  /\ NoProc \notin Procs

VARIABLES
  disk,    \* the document in the configuration file
  lock,    \* the process that holds the write lock
  creds,   \* keys that have a credential file
  proc,    \* the command each process is executing
  mishaps  \* history: what has gone wrong so far

vars == <<disk, lock, creds, proc, mishaps>>

Name == Profiles \cup Containers

Config == [version: {1, 2},
           profiles: [Profiles -> Keys \cup {NoKey}],   \* credential_key of each
           push: SUBSET Profiles,                       \* push_destination
           active: Profiles \cup {NoName},
           targets: [Containers -> Keys \cup {NoKey}],
           default: Containers \cup {NoName}]

(* AppConfig::default, which is also what a missing file is loaded as. *)
DefaultConfig == [version |-> 2, profiles |-> [n \in Profiles |-> NoKey],
                  push |-> {}, active |-> NoName,
                  targets |-> [n \in Containers |-> NoKey], default |-> NoName]

Command == {"none", "list", "add", "use", "allow", "deny", "remove",
            "setup", "reset"}

Process == [pc: {"idle", "migrating", "loaded", "verified", "to save",
                 "saving", "renamed", "saved", "rollback"},
            command: Command,
            name: Name \cup {NoName},
            key: Keys \cup {NoKey},    \* the credential the command adds
            loaded: Config]

IdleProcess == [pc |-> "idle", command |-> "none", name |-> NoName,
                key |-> NoKey, loaded |-> DefaultConfig]

(* A save over an unseen document; a save that failed after its rename; a  *)
(* crash, a failed deletion or a reset, which may leave a credential over. *)
Mishap == {"overwrite", "unsynced", "leak"}

(* AppConfig::validate, as far as names refer to entries. *)
Valid(c) ==
  /\ c.active # NoName => c.profiles[c.active] # NoKey
  /\ c.default # NoName => c.targets[c.default] # NoKey
  /\ \A n \in c.push : c.profiles[n] # NoKey

(* No command makes a document that validation would refuse to load. *)
TypeOK ==
  /\ disk \in Config /\ Valid(disk)
  /\ lock \in Procs \cup {NoProc}
  /\ creds \subseteq Keys
  /\ proc \in [Procs -> Process]
  /\ mishaps \subseteq Mishap

(* No file yet, or one that an earlier schema wrote. *)
Init ==
  /\ \E v \in {1, 2} : disk = [DefaultConfig EXCEPT !.version = v]
  /\ lock = NoProc
  /\ creds = {}
  /\ proc = [p \in Procs |-> IdleProcess]
  /\ mishaps = {}

-----------------------------------------------------------------------------
At(p, label) == proc[p].pc = label

Goto(p, label) == proc' = [proc EXCEPT ![p].pc = label]

Return(p) == proc' = [proc EXCEPT ![p] = IdleProcess]

Migrated(c) == [c EXCEPT !.version = 2]

References(c) ==
  ({c.profiles[n] : n \in Profiles} \cup {c.targets[n] : n \in Containers})
    \ {NoKey}

(* A save replaces whatever is there; it is an overwrite when that is not  *)
(* the document the command had loaded.                                    *)
Replace(p, c) ==
  /\ disk' = c
  /\ mishaps' = mishaps \cup
       (IF Migrated(disk) # proc[p].loaded THEN {"overwrite"} ELSE {})

-----------------------------------------------------------------------------
(* Loading, and the save a load may bring with it.                         *)

Arguments(command) ==
  CASE command = "list"  -> {NoName}
    [] command = "setup" -> Containers
    [] OTHER             -> Profiles

Load(p, command, n) ==
  /\ At(p, "idle")
  /\ proc' = [proc EXCEPT ![p] =
       [pc |-> IF disk.version = 1 THEN "migrating" ELSE "loaded",
        command |-> command, name |-> n, key |-> NoKey,
        loaded |-> Migrated(disk)]]
  /\ UNCHANGED <<disk, lock, creds, mishaps>>

(* The migrated document is saved under the lock, its failure ignored. *)
SaveMigrated(p) ==
  /\ At(p, "migrating")
  /\ \/ lock = NoProc /\ Replace(p, proc[p].loaded)
     \/ UNCHANGED <<disk, mishaps>>
  /\ Goto(p, "loaded")
  /\ UNCHANGED <<lock, creds>>

(* Mutant: a profile need not exist to be used, allowed or denied. *)
Applicable_AnyName(p) ==
  LET n == proc[p].name
      c == proc[p].loaded
  IN CASE proc[p].command = "list"   -> FALSE
       [] proc[p].command = "add"    -> c.profiles[n] = NoKey
       [] proc[p].command = "remove" -> c.profiles[n] # NoKey
       [] OTHER                      -> TRUE

(* The checks a command makes on the document it loaded. *)
Applicable(p) ==
  LET n == proc[p].name
      c == proc[p].loaded
  IN CASE proc[p].command = "list"  -> FALSE
       [] proc[p].command = "setup" -> TRUE
       [] proc[p].command = "add"   -> c.profiles[n] = NoKey
       [] OTHER                     -> c.profiles[n] # NoKey

AddsCredential(p) == proc[p].command \in {"add", "setup"}

(* A connection is verified before a credential is added. *)
Proceed(p) ==
  /\ At(p, "loaded")
  /\ \/ /\ Applicable(p)
        /\ Goto(p, IF AddsCredential(p) THEN "verified" ELSE "to save")
     \/ /\ ~Applicable(p) \/ AddsCredential(p)
        /\ Return(p)
  /\ UNCHANGED <<disk, lock, creds, mishaps>>

Fresh(k) ==
  /\ k \notin creds \cup References(disk)
  /\ \A q \in Procs : k # proc[q].key /\ k \notin References(proc[q].loaded)

SetCredential(p) ==
  /\ At(p, "verified")
  /\ \/ \E k \in Keys :
          /\ Fresh(k)
          /\ creds' = creds \cup {k}
          /\ proc' = [proc EXCEPT ![p].pc = "to save", ![p].key = k]
     \/ Return(p) /\ UNCHANGED creds
  /\ UNCHANGED <<disk, lock, mishaps>>

(* The original is renamed to a backup without the lock. *)
BeginReset(p) ==
  /\ At(p, "idle")
  /\ disk' = DefaultConfig
  /\ proc' = [proc EXCEPT ![p] =
       [IdleProcess EXCEPT !.pc = "to save", !.command = "reset"]]
  /\ mishaps' = mishaps \cup {"leak"}
  /\ UNCHANGED <<lock, creds>>

-----------------------------------------------------------------------------
(* Saving.                                                                 *)

(* Mutant: a new profile may be pushed to. *)
Document_PushByDefault(p) ==
  LET n == proc[p].name
      c == proc[p].loaded
  IN CASE proc[p].command = "add" ->
            [c EXCEPT !.profiles[n] = proc[p].key, !.active = n,
                      !.push = @ \cup {n}]
       [] OTHER -> c

(* What the command makes of the document it loaded. *)
Document(p) ==
  LET n == proc[p].name
      c == proc[p].loaded
  IN CASE proc[p].command = "add" ->
            [c EXCEPT !.profiles[n] = proc[p].key, !.active = n]
       [] proc[p].command = "use"   -> [c EXCEPT !.active = n]
       [] proc[p].command = "allow" -> [c EXCEPT !.push = @ \cup {n}]
       [] proc[p].command = "deny"  -> [c EXCEPT !.push = @ \ {n}]
       [] proc[p].command = "remove" ->
            [c EXCEPT !.profiles[n] = NoKey, !.push = @ \ {n},
                      !.active = IF @ = n THEN NoName ELSE @]
       [] proc[p].command = "setup" ->
            [c EXCEPT !.targets[n] = proc[p].key, !.default = n]
       [] OTHER -> c

(* Mutant: the credential stays when its document could not be saved. *)
SaveFails_NoRollback(p) == Return(p)

SaveFails(p) == IF AddsCredential(p) THEN Goto(p, "rollback") ELSE Return(p)

(* The lock is tried once; busy, and any failure before it, is an error. *)
LockConfig(p) ==
  /\ At(p, "to save")
  /\ \/ /\ lock = NoProc
        /\ lock' = p
        /\ Goto(p, "saving")
     \/ SaveFails(p) /\ UNCHANGED lock
  /\ UNCHANGED <<disk, creds, mishaps>>

RenameConfig(p) ==
  /\ At(p, "saving")
  /\ \/ /\ Replace(p, Document(p))
        /\ Goto(p, "renamed")
        /\ UNCHANGED lock
     \/ /\ lock' = NoProc
        /\ SaveFails(p)
        /\ UNCHANGED <<disk, mishaps>>
  /\ UNCHANGED creds

(* The file and its directory are synced after the rename; when that fails *)
(* the save fails, with the new document in place.                         *)
SyncConfig(p) ==
  /\ At(p, "renamed")
  /\ lock' = NoProc
  /\ \/ Goto(p, "saved") /\ UNCHANGED mishaps
     \/ SaveFails(p) /\ mishaps' = mishaps \cup {"unsynced"}
  /\ UNCHANGED <<disk, creds>>

DeleteCredential(p, k) ==
  /\ \/ creds' = creds \ {k} /\ UNCHANGED mishaps
     \/ UNCHANGED creds /\ mishaps' = mishaps \cup {"leak"}
  /\ Return(p)
  /\ UNCHANGED <<disk, lock>>

Rollback(p) ==
  /\ At(p, "rollback")
  /\ DeleteCredential(p, proc[p].key)

(* Mutant: setup removes the credential it has just saved. *)
Superseded_New(p) ==
  CASE proc[p].command = "remove" -> proc[p].loaded.profiles[proc[p].name]
    [] proc[p].command = "setup"  -> proc[p].key
    [] OTHER                      -> NoKey

(* The credential that the saved document no longer refers to. *)
Superseded(p) ==
  CASE proc[p].command = "remove" -> proc[p].loaded.profiles[proc[p].name]
    [] proc[p].command = "setup"  -> proc[p].loaded.targets[proc[p].name]
    [] OTHER                      -> NoKey

Cleanup(p) ==
  /\ At(p, "saved")
  /\ IF Superseded(p) = NoKey
     THEN Return(p) /\ UNCHANGED <<disk, lock, creds, mishaps>>
     ELSE DeleteCredential(p, Superseded(p))

Crash(p) ==
  /\ ~At(p, "idle")
  /\ lock' = IF lock = p THEN NoProc ELSE lock
  /\ Return(p)
  /\ mishaps' = mishaps \cup {"leak"}
  /\ UNCHANGED <<disk, creds>>

Next ==
  \E p \in Procs :
    \/ \E command \in Command \ {"none", "reset"} :
         \E n \in Arguments(command) : Load(p, command, n)
    \/ SaveMigrated(p) \/ Proceed(p) \/ SetCredential(p)
    \/ BeginReset(p)
    \/ LockConfig(p) \/ RenameConfig(p) \/ SyncConfig(p)
    \/ Rollback(p) \/ Cleanup(p)
    \/ Crash(p)

Spec == Init /\ [][Next]_vars

-----------------------------------------------------------------------------
(* Properties.                                                             *)

(* An entry of the document has its credential, through crashes, failed    *)
(* saves and failed deletions, unless a save overwrote a document its      *)
(* command had not seen or failed after its rename (the order credential,  *)
(* document, old credential of persist_config_with_credential, remove and  *)
(* configure).                                                             *)
ReferencesResolve ==
  mishaps \cap {"overwrite", "unsynced"} = {} => References(disk) \subseteq creds

(* A credential nobody refers to belongs to a command that is under way:   *)
(* rollback and cleanup forget none when nothing goes wrong twice.         *)
NoOrphanCredential ==
  mishaps = {} =>
    \A k \in creds \ References(disk) :
      \E p \in Procs : k = proc[p].key \/ k \in References(proc[p].loaded)

(* Each process has what the label it is at relies on: a valid document,   *)
(* the name its command is about, and the credential it has added.         *)
Pending(p) == proc[p].pc \in {"to save", "saving", "rollback"} /\ AddsCredential(p)

Replaced(p) == proc[p].pc \in {"renamed", "saved"} /\ Superseded(p) # NoKey

ProcessShape(p) ==
  LET s == proc[p]
  IN /\ Valid(s.loaded) /\ s.loaded.version = 2
     /\ s.pc # "idle" => s.command # "none"
     /\ s.command \notin {"none", "reset"} => s.name \in Arguments(s.command)
     /\ s.pc \in {"migrating", "loaded"} => s.command # "reset"
     /\ s.pc \notin {"idle", "migrating", "loaded"} =>
          IF s.command = "reset" THEN s.loaded = DefaultConfig ELSE Applicable(p)
     /\ s.pc = "verified" => AddsCredential(p)
     /\ s.pc = "rollback" => AddsCredential(p)
     /\ AddsCredential(p) =>
          s.pc \in {"migrating", "loaded", "verified"} \/ s.key \in Keys

(* No two entries of a document share a credential.                        *)
Distinct(c) ==
  /\ \A n, m \in Profiles : n # m => c.profiles[n] = NoKey \/ c.profiles[n] # c.profiles[m]
  /\ \A n, m \in Containers : n # m => c.targets[n] = NoKey \/ c.targets[n] # c.targets[m]
  /\ \A n \in Profiles, m \in Containers :
       c.profiles[n] = NoKey \/ c.profiles[n] # c.targets[m]

(* While no document was lost or half saved: the credential a command adds *)
(* is there and its alone until it has saved the document, and the one its *)
(* document no longer refers to is nobody's.                               *)
CredentialsOwned ==
  /\ Distinct(disk)
  /\ \A p \in Procs : Pending(p) =>
       /\ proc[p].pc # "rollback" => proc[p].key \in creds
       /\ proc[p].key \notin References(disk)
       /\ \A q \in Procs : q # p /\ Pending(q) => proc[q].key # proc[p].key
  /\ \A p \in Procs : Replaced(p) =>
       /\ Superseded(p) \notin References(disk)
       /\ \A q \in Procs : Pending(q) => proc[q].key # Superseded(p)

(* ... and a command will delete each credential that is of no use.        *)
OrphansOwned ==
  \A k \in creds \ References(disk) :
    \E p \in Procs : \/ Pending(p) /\ k = proc[p].key
                     \/ Replaced(p) /\ k = Superseded(p)

(* The invariant the theorems of ConfigurationProofs rest on.              *)
InductiveInvariant ==
  /\ TypeOK
  /\ \A p \in Procs : ProcessShape(p)
  /\ ReferencesResolve
  /\ mishaps \cap {"overwrite", "unsynced"} = {} => CredentialsOwned
  /\ mishaps = {} => OrphansOwned

(* Only `profile allow-push` makes a profile a push destination, unless a  *)
(* save overwrites a document that its command had not seen.               *)
PushGrantedByAllow ==
  [][\A n \in Profiles : n \in disk'.push \ disk.push =>
       \/ "overwrite" \in mishaps'
       \/ \E p \in Procs : proc[p].command = "allow" /\ proc[p].name = n]_vars

(* The configuration keeps the promise of ProfileBook: however the loads,  *)
(* saves, rollbacks and cleanups of several commands interleave, fail or   *)
(* end in a crash, each save is one command on the document as it is, and  *)
(* an entry comes and goes with its credential, until a save overwrites    *)
(* what its command had not seen or fails after its rename.                *)
ProfilesOf(c) == {n \in Profiles : c.profiles[n] # NoKey}

TargetsOf(c) == {n \in Containers : c.targets[n] # NoKey}

Usable ==
  {n \in ProfilesOf(disk) : disk.profiles[n] \in creds}
    \cup {n \in TargetsOf(disk) : disk.targets[n] \in creds}

Sound == mishaps \cap {"overwrite", "unsynced"} = {}

Book == INSTANCE ProfileBook WITH
          profiles <- ProfilesOf(disk),
          push     <- disk.push,
          active   <- disk.active,
          targets  <- TargetsOf(disk),
          default  <- disk.default,
          usable   <- Usable,
          sound    <- Sound

KeepsBook == Book!Spec

(* profiles.md: `profile deny-push NAME` revokes; configuration.md:        *)
(* concurrent writers are coordinated by an advisory lock.  So a profile   *)
(* becomes a push destination only through a command that allows it.       *)
OnlyAllowGrantsPush ==
  [][\A n \in Profiles : n \in disk'.push \ disk.push =>
       \E p \in Procs : proc[p].command = "allow" /\ proc[p].name = n]_vars

(* profiles.md: the credential is saved and the profile persisted as one   *)
(* transaction; a failure of the configuration leaves no saved profile.    *)
EveryReferenceResolves == References(disk) \subseteq creds
=============================================================================
