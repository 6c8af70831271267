--------------------------- MODULE ArtifactCache ---------------------------
(***************************************************************************)
(* The artifact directories of one (profile, database) of the local cache, *)
(* the advisory `.artifact.lock` in each, and the reprodb processes that   *)
(* create, read, sweep and prune them (artifact_store.rs,                  *)
(* cache_cleanup.rs, cache.rs, restore_artifact.rs).  Every system call    *)
(* that another process can observe is a step of its own: opening a lock   *)
(* file and locking it are two, a rename resolves the path again, and      *)
(* remove_dir_all unlinks the entries one by one.  A lock belongs to an    *)
(* open file, so it dies with its process.                                 *)
(***************************************************************************)
EXTENDS Naturals

CONSTANTS
  Dumps,    \* dump identifiers (fresh UUIDs: each names one directory)
  Procs,    \* reprodb processes sharing the cache root
  Inodes,   \* identities a lock file can have
  NoDump    \* a process that works on no dump

ASSUME InodesAssumption == Inodes \subseteq Nat \ {0}
ASSUME NoDumpAssumption == NoDump \notin Dumps

VARIABLES
  name,      \* name[d]: the name d's directory has now
  files,     \* files[d]: the data files in it
  lockFile,  \* lockFile[d]: inode of its `.artifact.lock`, 0 when it has none
  stale,     \* stale[d]: its mtime is older than the partial TTL
  proc       \* proc[p]: where process p is and what it holds

dirVars == <<name, files, lockFile, stale>>
vars == <<name, files, lockFile, stale, proc>>

(***************************************************************************)
(* <id>.part, <id>, <id>.deleting-A (or <id>.part.deleting-A), and what a  *)
(* second isolation makes of it, <...>.deleting-A.deleting-B.  A directory *)
(* only moves down this list, so a name never comes back.                  *)
(***************************************************************************)
Name == {"unused", "part", "complete", "deleting", "redeleting", "removed"}
File == {"partial dump", "dump", "metadata"}
Label == {"idle",
          "created", "begin opened", "staged", "writing", "written",
          "described", "published",
          "visiting", "isolating", "isolate opened", "isolate locked",
          "isolated", "removing", "unlinking", "emptied",
          "found", "lease opened", "lease held", "leased"}

Process == [pc: Label,
            job: {"none", "dump", "read", "sweep", "prune"},
            dump: Dumps \cup {NoDump},
            path: Name,                       \* the name it computed
            fd: Inodes \cup {0},              \* lock file it has open
            held: {"none", "shared", "exclusive"},
            plan: SUBSET (Dumps \X Name)]     \* entries a cleaner has listed

(* The state of a process between two operations. *)
IdleProcess == [pc |-> "idle", job |-> "none", dump |-> NoDump,
                path |-> "unused", fd |-> 0, held |-> "none", plan |-> {}]

TypeOK ==
  /\ name \in [Dumps -> Name]
  /\ files \in [Dumps -> SUBSET File]
  /\ lockFile \in [Dumps -> Inodes \cup {0}]
  /\ stale \in [Dumps -> BOOLEAN]
  /\ proc \in [Procs -> Process]

Init ==
  /\ name = [d \in Dumps |-> "unused"]
  /\ files = [d \in Dumps |-> {}]
  /\ lockFile = [d \in Dumps |-> 0]
  /\ stale = [d \in Dumps |-> FALSE]
  /\ proc = [p \in Procs |-> IdleProcess]

-----------------------------------------------------------------------------
(* Files and advisory locks.                                               *)

At(p, label) == proc[p].pc = label

Become(p, s) == proc' = [proc EXCEPT ![p] = s]

Goto(p, label) == Become(p, [proc[p] EXCEPT !.pc = label])

Stop(p) == Become(p, IdleProcess)

(* The state of a process that starts an operation on dump d. *)
Starting(label, job, d, path) ==
  [IdleProcess EXCEPT !.pc = label, !.job = job, !.dump = d, !.path = path]

(* The path p computed still names its directory. *)
PathResolves(p) == name[proc[p].dump] = proc[p].path

SameLockFile(p, q) ==
  proc[p].dump = proc[q].dump /\ proc[p].fd = proc[q].fd

(* Mutant: a cleaner looks for exclusive holders only. *)
ExclusiveAvailable_IgnoresLeases(p) ==
  \A q \in Procs \ {p} : SameLockFile(p, q) => proc[q].held # "exclusive"

ExclusiveAvailable(p) ==
  \A q \in Procs \ {p} : SameLockFile(p, q) => proc[q].held = "none"

SharedAvailable(p) ==
  \A q \in Procs \ {p} : SameLockFile(p, q) => proc[q].held # "exclusive"

UnusedInode(d, i) ==
  /\ i # lockFile[d]
  /\ \A q \in Procs : proc[q].dump = d => proc[q].fd # i

(* open(create) of the lock file below p's path; a new entry renews mtime. *)
OpenLockFile(p, next) ==
  LET d == proc[p].dump
  IN /\ PathResolves(p)
     /\ \/ /\ lockFile[d] # 0
           /\ Become(p, [proc[p] EXCEPT !.pc = next, !.fd = lockFile[d]])
           /\ UNCHANGED <<lockFile, stale>>
        \/ /\ lockFile[d] = 0
           /\ \E i \in Inodes :
                /\ UnusedInode(d, i)
                /\ \A j \in Inodes : j < i => ~UnusedInode(d, j)
                /\ lockFile' = [lockFile EXCEPT ![d] = i]
                /\ Become(p, [proc[p] EXCEPT !.pc = next, !.fd = i])
           /\ stale' = [stale EXCEPT ![d] = FALSE]
     /\ UNCHANGED <<name, files>>

-----------------------------------------------------------------------------
(* Creating and publishing a dump.                                         *)

BeginCreateDir(p, d) ==
  /\ At(p, "idle")
  /\ name[d] = "unused"
  /\ name' = [name EXCEPT ![d] = "part"]
  /\ Become(p, Starting("created", "dump", d, "part"))
  /\ UNCHANGED <<files, lockFile, stale>>

(* Dropping a staging: the lock goes first, then the directory. *)
Discard(p) ==
  /\ Become(p, [proc[p] EXCEPT !.pc = "removing", !.fd = 0, !.held = "none"])
  /\ UNCHANGED dirVars

BeginOpenLock(p) ==
  /\ At(p, "created")
  /\ \/ OpenLockFile(p, "begin opened")
     \/ ~PathResolves(p) /\ Discard(p)

(* Mutant: the activity lock is let go before the dump is written. *)
BeginTryLock_NotKept(p) ==
  /\ At(p, "begin opened")
  /\ Become(p, [proc[p] EXCEPT !.pc = "staged", !.fd = 0])
  /\ UNCHANGED dirVars

BeginTryLock(p) ==
  /\ At(p, "begin opened")
  /\ \/ /\ ExclusiveAvailable(p)
        /\ Become(p, [proc[p] EXCEPT !.pc = "staged", !.held = "exclusive"])
        /\ UNCHANGED dirVars
     \/ ~ExclusiveAvailable(p) /\ Discard(p)

CreateDumpWriter(p) ==
  LET d == proc[p].dump
  IN /\ At(p, "staged")
     /\ \/ /\ PathResolves(p)
           /\ files' = [files EXCEPT ![d] = @ \cup {"partial dump"}]
           /\ stale' = [stale EXCEPT ![d] = FALSE]
           /\ Goto(p, "writing")
           /\ UNCHANGED <<name, lockFile>>
        \/ ~PathResolves(p) /\ Discard(p)

(* The compressed stream is complete and synced to the open file. *)
FinishDump(p) ==
  LET d == proc[p].dump
  IN /\ At(p, "writing")
     /\ files' = [files EXCEPT
                    ![d] = {IF f = "partial dump" THEN "dump" ELSE f : f \in @}]
     /\ Goto(p, "written")
     /\ UNCHANGED <<name, lockFile, stale>>

(* mysqldump, compression, a check of publish, or an I/O call fails. *)
DumpFails(p) ==
  /\ proc[p].pc \in {"staged", "writing", "written", "described"}
  /\ Discard(p)

(* publish opens the dump by path and checks it, then adds the metadata. *)
WriteMetadata(p) ==
  LET d == proc[p].dump
  IN /\ At(p, "written")
     /\ PathResolves(p)
     /\ "dump" \in files[d]
     /\ files' = [files EXCEPT ![d] = @ \cup {"metadata"}]
     /\ stale' = [stale EXCEPT ![d] = FALSE]
     /\ Goto(p, "described")
     /\ UNCHANGED <<name, lockFile>>

PublishRename(p) ==
  LET d == proc[p].dump
  IN /\ At(p, "described")
     /\ PathResolves(p)
     /\ name' = [name EXCEPT ![d] = "complete"]
     /\ Goto(p, "published")
     /\ UNCHANGED <<files, lockFile, stale>>

(* The activity lock is dropped; a failed fsync of the parent changes only *)
(* what is reported.                                                       *)
PublishUnlock(p) ==
  /\ At(p, "published")
  /\ Stop(p)
  /\ UNCHANGED dirVars

-----------------------------------------------------------------------------
(* Reading a dump under a lease: cache lookup and restore validation.      *)

FindComplete(p, d) ==
  /\ At(p, "idle")
  /\ name[d] = "complete"
  /\ {"dump", "metadata"} \subseteq files[d]
  /\ Become(p, Starting("found", "read", d, "complete"))
  /\ UNCHANGED dirVars

LeaseOpen(p) ==
  /\ At(p, "found")
  /\ \/ OpenLockFile(p, "lease opened")
     \/ ~PathResolves(p) /\ Stop(p) /\ UNCHANGED dirVars

LeaseTryLock(p) ==
  /\ At(p, "lease opened")
  /\ \/ /\ SharedAvailable(p)
        /\ Become(p, [proc[p] EXCEPT !.pc = "lease held", !.held = "shared"])
     \/ ~SharedAvailable(p) /\ Stop(p)
  /\ UNCHANGED dirVars

(* Mutant: what was listed is trusted once the lease is held. *)
Readable_NotReadAgain(p) == TRUE

(* Metadata and checksums are read by path, under the lease. *)
Readable(p) ==
  PathResolves(p) /\ {"dump", "metadata"} \subseteq files[proc[p].dump]

ValidateArtifact(p) ==
  /\ At(p, "lease held")
  /\ \/ Readable(p) /\ Goto(p, "leased")
     \/ ~Readable(p) /\ Stop(p)
  /\ UNCHANGED dirVars

ReleaseLease(p) ==
  /\ At(p, "leased")
  /\ Stop(p)
  /\ UNCHANGED dirVars

-----------------------------------------------------------------------------
(* Sweep and prune.                                                        *)

(* Mutants: a sweep that takes complete dumps, or leaves deletions behind. *)
IsSweepable_Complete(n) == n \in {"part", "complete", "deleting"}
IsSweepable_PartOnly(n) == n = "part"

(* What a sweep does not skip by name. *)
IsSweepable(n) == n \in {"part", "deleting"}

SweepList(p) ==
  /\ At(p, "idle")
  /\ Become(p, [IdleProcess EXCEPT
                  !.pc = "visiting", !.job = "sweep",
                  !.plan = {e \in Dumps \X Name :
                              name[e[1]] = e[2] /\ IsSweepable(e[2])}])
  /\ UNCHANGED dirVars

(* The selection, computed without any lock, that the user then confirms.  *)
(* Which complete artifacts a policy selects is left open here.            *)
PlanPrune(p, S) ==
  /\ At(p, "idle")
  /\ S \subseteq {d \in Dumps : name[d] = "complete" /\ "metadata" \in files[d]}
  /\ Become(p, [IdleProcess EXCEPT
                  !.pc = "visiting", !.job = "prune",
                  !.plan = S \X {"complete"}])
  /\ UNCHANGED dirVars

(* Mutant: the TTL comparison is the wrong way round. *)
WorthRemoving_BeforeTtl(d, n) == n = "part" => name[d] = "part" /\ ~stale[d]

(* A partial is taken only after its TTL, re-read at the time of the visit. *)
WorthRemoving(d, n) == n = "part" => name[d] = "part" /\ stale[d]

Visit(p, d, n) ==
  /\ At(p, "visiting")
  /\ <<d, n>> \in proc[p].plan
  /\ \/ /\ WorthRemoving(d, n)
        /\ Become(p, [proc[p] EXCEPT !.plan = @ \ {<<d, n>>}, !.pc = "isolating",
                                      !.dump = d, !.path = n])
     \/ /\ ~WorthRemoving(d, n)
        /\ Become(p, [proc[p] EXCEPT !.plan = @ \ {<<d, n>>}])
  /\ UNCHANGED dirVars

FinishVisits(p) ==
  /\ At(p, "visiting")
  /\ proc[p].plan = {}
  /\ Stop(p)
  /\ UNCHANGED dirVars

(* Removed, Locked or Gone: the next entry of the plan is visited. *)
NextEntry(p) ==
  Become(p, [proc[p] EXCEPT !.pc = "visiting", !.fd = 0, !.held = "none",
                            !.dump = NoDump, !.path = "unused"])

IsolateOpen(p) ==
  /\ At(p, "isolating")
  /\ \/ OpenLockFile(p, "isolate opened")
     \/ ~PathResolves(p) /\ NextEntry(p) /\ UNCHANGED dirVars

IsolateTryLock(p) ==
  /\ At(p, "isolate opened")
  /\ \/ /\ ExclusiveAvailable(p)
        /\ Become(p, [proc[p] EXCEPT !.pc = "isolate locked",
                                      !.held = "exclusive"])
     \/ ~ExclusiveAvailable(p) /\ NextEntry(p)
  /\ UNCHANGED dirVars

(* Mutant: removal in place. *)
DeletionName_InPlace(n) == n

(* deletion_path appends a fresh `.deleting-<uuid>` to whatever the name is. *)
DeletionName(n) == IF n = "deleting" THEN "redeleting" ELSE "deleting"

IsolateRename(p) ==
  LET d == proc[p].dump
      n == DeletionName(proc[p].path)
  IN /\ At(p, "isolate locked")
     /\ \/ /\ PathResolves(p)
           /\ name' = [name EXCEPT ![d] = n]
           /\ Become(p, [proc[p] EXCEPT !.pc = "isolated", !.path = n])
        \/ ~PathResolves(p) /\ NextEntry(p) /\ UNCHANGED name
     /\ UNCHANGED <<files, lockFile, stale>>

IsolateUnlock(p) ==
  /\ At(p, "isolated")
  /\ Discard(p)

-----------------------------------------------------------------------------
(* remove_dir_all of the standard library on p's path: the directory is    *)
(* opened by path, its entries are unlinked through the open directory,    *)
(* and the directory is removed by path.  An entry that is already gone is *)
(* ignored, except at the first open.                                      *)

IsEmpty(d) == files[d] = {} /\ lockFile[d] = 0

(* A failure ends a sweep or a prune at once; a staging's Drop ignores it. *)
RemoveDirOpen(p) ==
  /\ At(p, "removing")
  /\ \/ PathResolves(p) /\ Goto(p, "unlinking")
     \/ ~PathResolves(p) /\ Stop(p)
  /\ UNCHANGED dirVars

UnlinkEntry(p) ==
  LET d == proc[p].dump
  IN /\ At(p, "unlinking")
     /\ \/ /\ \E f \in files[d] : files' = [files EXCEPT ![d] = @ \ {f}]
           /\ UNCHANGED lockFile
        \/ /\ lockFile[d] # 0
           /\ lockFile' = [lockFile EXCEPT ![d] = 0]
           /\ UNCHANGED files
     /\ UNCHANGED <<name, stale, proc>>

LastEntryUnlinked(p) ==
  /\ At(p, "unlinking")
  /\ IsEmpty(proc[p].dump)
  /\ Goto(p, "emptied")
  /\ UNCHANGED dirVars

RemoveDir(p) ==
  LET d == proc[p].dump
  IN /\ At(p, "emptied")
     /\ \/ /\ PathResolves(p)
           /\ IsEmpty(d)
           /\ name' = [name EXCEPT ![d] = "removed"]
           /\ IF proc[p].job = "dump" THEN Stop(p) ELSE NextEntry(p)
        \/ /\ ~PathResolves(p)
           /\ IF proc[p].job = "dump" THEN Stop(p) ELSE NextEntry(p)
           /\ UNCHANGED name
        \/ /\ PathResolves(p)
           /\ ~IsEmpty(d)
           /\ Stop(p)
           /\ UNCHANGED name
     /\ UNCHANGED <<files, lockFile, stale>>

-----------------------------------------------------------------------------
(* The process exits or is killed at any point; its lock goes with it. *)
Crash(p) ==
  /\ ~At(p, "idle")
  /\ Stop(p)
  /\ UNCHANGED dirVars

(* An hour passes since the last entry was created in a staging. *)
Age(d) ==
  /\ name[d] = "part"
  /\ ~stale[d]
  /\ stale' = [stale EXCEPT ![d] = TRUE]
  /\ UNCHANGED <<name, files, lockFile, proc>>

DumpStep(p) ==
  \/ BeginOpenLock(p) \/ BeginTryLock(p) \/ CreateDumpWriter(p)
  \/ FinishDump(p) \/ DumpFails(p) \/ WriteMetadata(p)
  \/ PublishRename(p) \/ PublishUnlock(p)

ReadStep(p) ==
  \/ LeaseOpen(p) \/ LeaseTryLock(p) \/ ValidateArtifact(p) \/ ReleaseLease(p)

CleanStep(p) ==
  \/ \E d \in Dumps, n \in Name : Visit(p, d, n)
  \/ FinishVisits(p)
  \/ IsolateOpen(p) \/ IsolateTryLock(p) \/ IsolateRename(p) \/ IsolateUnlock(p)

RemoveStep(p) ==
  \/ RemoveDirOpen(p) \/ UnlinkEntry(p) \/ LastEntryUnlinked(p) \/ RemoveDir(p)

Next ==
  \/ \E p \in Procs :
       \/ \E d \in Dumps : BeginCreateDir(p, d)
       \/ \E d \in Dumps : FindComplete(p, d)
       \/ SweepList(p)
       \/ \E S \in SUBSET Dumps : PlanPrune(p, S)
       \/ DumpStep(p)
       \/ ReadStep(p)
       \/ CleanStep(p)
       \/ RemoveStep(p)
       \/ Crash(p)
  \/ \E d \in Dumps : Age(d)

Spec == Init /\ [][Next]_vars

(* A running process takes its next step, and an hour passes.  Sweeps are  *)
(* started again and again, since every new dump begins with one, and a    *)
(* step of a cleaner that is reached again and again is taken some time:   *)
(* processes may die for ever, but not always at the same point.           *)
Fairness ==
  /\ \A p \in Procs :
       /\ WF_vars(DumpStep(p) \/ ReadStep(p) \/ CleanStep(p))
       /\ WF_vars(RemoveStep(p))
  /\ SF_vars(\E p \in Procs : SweepList(p))
  /\ \A d \in Dumps :
       /\ WF_vars(Age(d))
       /\ SF_vars(\E p \in Procs, n \in Name : Visit(p, d, n))
       /\ SF_vars(\E p \in Procs : proc[p].dump = d /\ IsolateOpen(p))
       /\ SF_vars(\E p \in Procs : proc[p].dump = d /\ IsolateTryLock(p))
       /\ SF_vars(\E p \in Procs : proc[p].dump = d /\ IsolateRename(p))

FairSpec == Spec /\ Fairness

-----------------------------------------------------------------------------
(* Properties.                                                             *)

(* A process that validated a dump under its lease keeps the whole dump    *)
(* until it lets go, whatever sweeps, prunes and crashes happen meanwhile: *)
(* the lease of try_acquire_lease against isolate_and_remove, which open   *)
(* the lock file first and lock it later.                                  *)
LeasedArtifactIntact ==
  \A p \in Procs :
    At(p, "leased") =>
      /\ name[proc[p].dump] = "complete"
      /\ {"dump", "metadata"} \subseteq files[proc[p].dump]

(* Once its dump file exists, a staging stays where it is and as it was    *)
(* written until its own process publishes or drops it, even when it is    *)
(* older than the TTL at which sweep_partial takes abandoned stagings.     *)
StagingKeptWhileWritten ==
  \A p \in Procs :
    LET d == proc[p].dump
    IN /\ At(p, "writing") => name[d] = "part" /\ files[d] = {"partial dump"}
       /\ At(p, "written") => name[d] = "part" /\ files[d] = {"dump"}
       /\ At(p, "described") =>
            name[d] = "part" /\ files[d] = {"dump", "metadata"}

(* Under its final name a dump is whole: nobody lists a half-written one,  *)
(* and no removal, interrupted or not, ever eats a directory that still    *)
(* has that name (publish, and the rename before remove_dir_all).          *)
PublishedIsWhole ==
  \A d \in Dumps : name[d] = "complete" => files[d] = {"dump", "metadata"}

(***************************************************************************)
(* The inductive invariant behind the three properties above.              *)
(***************************************************************************)
Staging == {"created", "begin opened", "staged", "writing", "written",
            "described"}
Leasing == {"found", "lease opened", "lease held", "leased"}
Cleaning == {"isolating", "isolate opened", "isolate locked"}
Removing == {"removing", "unlinking", "emptied"}

Owner(p, d) == proc[p].job = "dump" /\ proc[p].dump = d

(* What a process is about at each label: its operation, the path it works *)
(* on, the lock file it has open and the lock it holds.                    *)
Shape(s) ==
  /\ s.dump = NoDump <=> s.pc \in {"idle", "visiting"}
  /\ s.job = "dump" <=>
       (s.pc \in Staging \cup {"published"}
        \/ (s.pc \in Removing /\ s.path = "part"))
  /\ s.held = "exclusive" <=>
       s.pc \in {"staged", "writing", "written", "described", "published",
                "isolate locked", "isolated"}
  /\ s.held = "shared" <=> s.pc \in {"lease held", "leased"}
  /\ s.fd # 0 <=>
       (s.held # "none"
        \/ s.pc \in {"begin opened", "lease opened", "isolate opened"})
  /\ s.pc \in Staging => s.path = "part"
  /\ s.pc \in Leasing => s.path = "complete"
  /\ s.pc \in Cleaning => s.path \in {"part", "complete", "deleting"}
  /\ s.pc \in Removing => s.path \in {"part", "deleting", "redeleting"}
  /\ s.pc = "isolated" => s.path \in {"deleting", "redeleting"}
  /\ \A e \in s.plan : e[2] \in {"part", "complete", "deleting"}
  /\ s.job \in {"none", "read"} => s.pc \in Leasing \cup {"idle"}
  /\ s.job = "sweep" =>
       s.path # "complete" /\ \A e \in s.plan : e[2] # "complete"

ProcessShape == \A p \in Procs : Shape(proc[p])

(* A lock file locked exclusively is locked by nobody else. *)
LockExclusion ==
  \A p, q \in Procs :
    p # q /\ SameLockFile(p, q) /\ proc[p].held = "exclusive" =>
      proc[q].held = "none"

(* A dump has one owner, and one that some process works on or has listed  *)
(* had a directory once, so BeginCreateDir never takes it again.           *)
OneOwner ==
  /\ \A p, q \in Procs, d \in Dumps : Owner(p, d) /\ Owner(q, d) => p = q
  /\ \A p \in Procs, d \in Dumps : proc[p].dump = d => name[d] # "unused"
  /\ \A p \in Procs : \A e \in proc[p].plan : name[e[1]] # "unused"

(* Nobody unlinks below a complete directory, nor, except for its owner,   *)
(* below a staging.                                                        *)
RemovalIsolated ==
  \A p \in Procs :
    proc[p].pc \in Removing \cup {"isolated"} =>
      name[proc[p].dump] \in
        {"deleting", "redeleting", "removed"} \cup
        (IF proc[p].job = "dump" THEN {"part"} ELSE {})

(* While a directory has a living staging owner or its final name, its     *)
(* lock file is never replaced: everyone who opened one has the same.      *)
LockFileFixed(d) ==
  \/ name[d] = "complete"
  \/ /\ name[d] = "part"
     /\ \E p \in Procs : Owner(p, d) /\ proc[p].pc \in Staging

OneLockFile ==
  \A d \in Dumps : LockFileFixed(d) =>
    \A q \in Procs : proc[q].dump = d => proc[q].fd \in {0, lockFile[d]}

(* A staging is not published yet, and before its dump is opened it is     *)
(* empty unless it is already isolated.                                    *)
StagingFresh ==
  \A p \in Procs :
    LET d == proc[p].dump
    IN /\ proc[p].pc \in Staging => name[d] # "complete"
       /\ proc[p].pc \in {"created", "begin opened", "staged"} =>
            (name[d] = "part" => files[d] = {})

(* A name that was never used has nothing below it. *)
UnusedEmpty == \A d \in Dumps : name[d] = "unused" => files[d] = {}

InductiveInvariant ==
  /\ TypeOK
  /\ ProcessShape
  /\ LockExclusion
  /\ OneOwner
  /\ RemovalIsolated
  /\ OneLockFile
  /\ StagingFresh
  /\ UnusedEmpty
  /\ StagingKeptWhileWritten
  /\ PublishedIsWhole
  /\ LeasedArtifactIntact

(* A complete dump leaves its name only by a prune: a sweep that listed it *)
(* as a staging and reaches it after the publication leaves it alone.      *)
OnlyPruneTakesComplete ==
  [][\A d \in Dumps :
       name[d] = "complete" /\ name'[d] # "complete" =>
         \E p \in Procs : proc[p].job = "prune" /\ proc[p].dump = d]_vars

(* The cache implements the registry of ArtifactRegistry: stagings with a  *)
(* writer and dumps with a reader are never retired, and a dump becomes    *)
(* available in one step.                                                  *)
StatusOf(d) == CASE name[d] = "unused"   -> "absent"
                 [] name[d] = "part"     -> "staging"
                 [] name[d] = "complete" -> "available"
                 [] OTHER                -> "retired"

WriterOf(d) ==
  {p \in Procs : proc[p].dump = d /\
                 proc[p].pc \in {"writing", "written", "described"}}

ReaderOf(d) == {p \in Procs : proc[p].dump = d /\ At(p, "leased")}

Registry == INSTANCE ArtifactRegistry WITH
              status  <- [d \in Dumps |-> StatusOf(d)],
              writer  <- [d \in Dumps |-> WriterOf(d)],
              readers <- [d \in Dumps |-> ReaderOf(d)]

ImplementsRegistry == Registry!Spec

(* A staging whose process died or failed does not stay: some sweep        *)
(* isolates or removes it, although sweeps race with each other, find the  *)
(* lock taken, or die half-way.                                            *)
AbandonedStagingLeaves ==
  \A d \in Dumps :
    (name[d] = "part" /\ \A p \in Procs : proc[p].job = "dump" => proc[p].dump # d)
      ~> name[d] # "part"

(* A deletion interrupted after its rename is taken up by a later sweep.   *)
InterruptedDeletionResumed ==
  \A d \in Dumps :
    name[d] = "deleting" ~> name[d] \in {"redeleting", "removed"}

(* cache-locks-cleanup.md: if a process dies after the rename, the next    *)
(* cleanup recognises the `.deleting-<uuid>` name.  So no directory that   *)
(* was isolated and that nobody works on has a name a sweep skips.         *)
DeletionLeftoverIsSweepable ==
  \A d \in Dumps :
    /\ name[d] \in {"deleting", "redeleting"}
    /\ \A p \in Procs : proc[p].dump # d
    => IsSweepable(name[d])
=============================================================================
