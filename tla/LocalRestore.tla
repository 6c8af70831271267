---------------------------- MODULE LocalRestore ----------------------------
(***************************************************************************)
(* Restoring managed dumps into local databases (restore_engine.rs,        *)
(* restore_executor.rs, restore_state.rs, operation_lock.rs): the lock of  *)
(* the target, the persisted restore state, the two client containers that *)
(* recreate and fill the database, and what is left of a client when       *)
(* reprodb is interrupted or dies.  A dump is Parts groups of statements,  *)
(* streamed to `mysql` through a pipe.                                     *)
(***************************************************************************)
EXTENDS Naturals, FiniteSets

CONSTANTS
  Procs,       \* reprodb processes
  Targets,     \* (Docker context, container, database) triples
  Dumps,       \* validated artifacts of the cache
  Compatible,  \* dump-target pairs that differ in server and fit in version
  Parts,       \* statement groups of a dump
  Pipe,        \* groups that fit into the pipe to mysql
  MaxOrphans,  \* bound on clients that outlive their process at a time
  NoProc, NoTarget, NoDump

ASSUME CompatibleAssumption == Compatible \subseteq Dumps \X Targets
ASSUME PartsAssumption == Parts \in Nat /\ Parts >= 2
ASSUME PipeAssumption == Pipe \in Nat \ {0}
ASSUME MaxOrphansAssumption == MaxOrphans \in Nat
ASSUME NonesAssumption ==
  /\ NoProc \notin Procs
  /\ NoTarget \notin Targets
  /\ {NoDump, "absent", "other"} \cap Dumps = {}
  /\ NoDump \notin {"absent", "other"}

VARIABLES
  lock,     \* lock[t]: the process that holds t's operation lock
  marker,   \* marker[t]: the restore state saved for t
  db,       \* db[t]: whether t exists, and whose tables each part has
  proc,     \* proc[p]: how far p's restore is, and of what into what
  client,   \* client[p]: the docker run child p waits for
  orphans,  \* clients still running although reprodb stopped watching them
  strayed   \* strayed[t]: an orphan ran a statement since the last DROP

vars == <<lock, marker, db, proc, client, orphans, strayed>>

Content == Dumps \cup {"absent", "other"}

Database == [exists: BOOLEAN, tables: [1..Parts -> Content]]

EmptyTables == [i \in 1..Parts |-> "absent"]

Marker == [status: {"none", "incomplete", "ready"}, dump: Dumps \cup {NoDump}]

Process == [pc: {"idle", "locked", "marked", "recreating", "recreated",
                 "importing", "draining", "imported"},
            target: Targets \cup {NoTarget},
            dump: Dumps \cup {NoDump}]

IdleProcess == [pc |-> "idle", target |-> NoTarget, dump |-> NoDump]

Client == [kind: {"none", "recreate", "import"},
           target: Targets \cup {NoTarget},
           content: Dumps \cup {"other", NoDump},  \* what its tables are
           input: 0..Parts,                        \* statements given to it
           done: 0..Parts,                         \* statements executed
           eof: BOOLEAN,
           exit: {"running", "ok", "failed"}]

NoClient == [kind |-> "none", target |-> NoTarget, content |-> NoDump,
             input |-> 0, done |-> 0, eof |-> TRUE, exit |-> "ok"]

TypeOK ==
  /\ lock \in [Targets -> Procs \cup {NoProc}]
  /\ marker \in [Targets -> Marker]
  /\ db \in [Targets -> Database]
  /\ proc \in [Procs -> Process]
  /\ client \in [Procs -> Client]
  /\ orphans \subseteq Client
  /\ strayed \in [Targets -> BOOLEAN]

(* A target may be a database of the developer's own. *)
Init ==
  /\ lock = [t \in Targets |-> NoProc]
  /\ marker = [t \in Targets |-> [status |-> "none", dump |-> NoDump]]
  /\ db \in [Targets -> {[exists |-> FALSE, tables |-> EmptyTables],
                         [exists |-> TRUE,
                          tables |-> [i \in 1..Parts |-> "other"]]}]
  /\ proc = [p \in Procs |-> IdleProcess]
  /\ client = [p \in Procs |-> NoClient]
  /\ orphans = {}
  /\ strayed = [t \in Targets |-> FALSE]

-----------------------------------------------------------------------------
At(p, label) == proc[p].pc = label

Goto(p, label) == proc' = [proc EXCEPT ![p].pc = label]

(* The restore returns, with or without an error, and the lock is dropped. *)
Return(p) ==
  /\ lock' = [lock EXCEPT ![proc[p].target] = NoProc]
  /\ proc' = [proc EXCEPT ![p] = IdleProcess]

Fail(p) ==
  /\ Return(p)
  /\ client' = [client EXCEPT ![p] = NoClient]
  /\ UNCHANGED <<marker, db, orphans, strayed>>

(* The operation lock is taken or found busy, never waited for. *)
Unlocked(t) == lock[t] = NoProc

Restore(p, d, t) ==
  /\ At(p, "idle")
  /\ <<d, t>> \in Compatible
  /\ Unlocked(t)
  /\ lock' = [lock EXCEPT ![t] = p]
  /\ proc' = [proc EXCEPT ![p] = [pc |-> "locked", target |-> t, dump |-> d]]
  /\ UNCHANGED <<marker, db, client, orphans, strayed>>

(* The new state replaces the old one by a rename. *)
Save(p, status) ==
  marker' = [marker EXCEPT ![proc[p].target] =
               [status |-> status, dump |-> proc[p].dump]]

(* Mutant: the restore goes on although its state could not be saved. *)
SaveIncomplete_Unchecked(p) ==
  /\ At(p, "locked")
  /\ Save(p, "incomplete") \/ UNCHANGED marker
  /\ Goto(p, "marked")
  /\ UNCHANGED <<lock, db, client, orphans, strayed>>

(* A save fails before its rename, or in the fsync after it. *)
SaveIncomplete(p) ==
  /\ At(p, "locked")
  /\ \/ /\ Save(p, "incomplete")
        /\ Goto(p, "marked")
        /\ UNCHANGED lock
     \/ /\ Save(p, "incomplete") \/ UNCHANGED marker
        /\ Return(p)
  /\ UNCHANGED <<db, client, orphans, strayed>>

SaveReady(p) ==
  /\ At(p, "imported")
  /\ Save(p, "ready") \/ UNCHANGED marker
  /\ Return(p)
  /\ UNCHANGED <<db, client, orphans, strayed>>

(* Cancelled before the client starts, no option file, docker not started. *)
StartFails(p) == proc[p].pc \in {"marked", "recreated"} /\ Fail(p)

-----------------------------------------------------------------------------
(* The client containers.                                                  *)

(* DROP and CREATE are the two statements of one --execute. *)
StartRecreate(p) ==
  /\ At(p, "marked")
  /\ client' = [client EXCEPT ![p] =
                  [kind |-> "recreate", target |-> proc[p].target,
                   content |-> NoDump, input |-> 2, done |-> 0,
                   eof |-> TRUE, exit |-> "running"]]
  /\ Goto(p, "recreating")
  /\ UNCHANGED <<lock, marker, db, orphans, strayed>>

AwaitRecreate(p) ==
  /\ At(p, "recreating")
  /\ \/ /\ client[p].exit = "ok"
        /\ client' = [client EXCEPT ![p] = NoClient]
        /\ Goto(p, "recreated")
        /\ UNCHANGED <<lock, marker, db, orphans, strayed>>
     \/ client[p].exit = "failed" /\ Fail(p)

(* The file that is decoded may not be the one that was validated. *)
StartImport(p) ==
  /\ At(p, "recreated")
  /\ \E c \in {proc[p].dump, "other"} :
       client' = [client EXCEPT ![p] =
                    [kind |-> "import", target |-> proc[p].target,
                     content |-> c, input |-> 0, done |-> 0,
                     eof |-> FALSE, exit |-> "running"]]
  /\ Goto(p, "importing")
  /\ UNCHANGED <<lock, marker, db, orphans, strayed>>

SendChunk(p) ==
  /\ At(p, "importing")
  /\ client[p].exit = "running"
  /\ client[p].input < Parts
  /\ client[p].input - client[p].done < Pipe
  /\ client' = [client EXCEPT ![p].input = @ + 1]
  /\ UNCHANGED <<lock, marker, db, proc, orphans, strayed>>

(* mysql stopped early: writing to its stdin fails. *)
WriteFails(p) ==
  /\ At(p, "importing")
  /\ client[p].exit # "running"
  /\ Fail(p)

(* Mutant: stdin stays open while the exit of mysql is awaited. *)
EndInput_StdinKept(p) ==
  /\ At(p, "importing")
  /\ Goto(p, "draining")
  /\ UNCHANGED <<lock, marker, db, client, orphans, strayed>>

(* The decoder reached the end, or failed, which also ends the channel:    *)
(* stdin is closed in both cases, and the error is looked at afterwards.   *)
EndInput(p) ==
  /\ At(p, "importing")
  /\ client' = [client EXCEPT ![p].eof = TRUE]
  /\ Goto(p, "draining")
  /\ UNCHANGED <<lock, marker, db, orphans, strayed>>

(* Mutant: the number of bytes is enough. *)
Verified_SizeOnly(p) == client[p].input = Parts

(* Mutant: a file that decodes to less than was recorded is accepted. *)
Verified_Truncated(p) == client[p].content = proc[p].dump

(* Decoding ended well, and size and digest are those of the metadata. *)
Verified(p) == client[p].input = Parts /\ client[p].content = proc[p].dump

AwaitImport(p) ==
  /\ At(p, "draining")
  /\ \/ /\ client[p].exit = "ok"
        /\ Verified(p)
        /\ client' = [client EXCEPT ![p] = NoClient]
        /\ Goto(p, "imported")
        /\ UNCHANGED <<lock, marker, db, orphans, strayed>>
     \/ /\ \/ client[p].exit = "failed"
           \/ client[p].exit = "ok" /\ ~Verified(p)
        /\ Fail(p)

-----------------------------------------------------------------------------
(* The mysql client and the server.                                        *)

HasStatement(c) == c.exit = "running" /\ c.done < c.input

Drops(c) == c.kind = "recreate" /\ c.done = 0

(* CREATE wants no database of that name, the tables of a dump want one. *)
Succeeds(c) ==
  \/ Drops(c)
  \/ c.kind = "recreate" /\ c.done = 1 /\ ~db[c.target].exists
  \/ c.kind = "import" /\ db[c.target].exists

(* What c's next statement makes of its database; a part of a dump drops   *)
(* and creates its own tables.                                             *)
After(c) ==
  IF c.kind = "import"
  THEN [db[c.target] EXCEPT !.tables[c.done + 1] = c.content]
  ELSE [exists |-> ~Drops(c), tables |-> EmptyTables]

ClientExecutes(p) ==
  LET c == client[p]
  IN /\ HasStatement(c)
     /\ Succeeds(c)
     /\ db' = [db EXCEPT ![c.target] = After(c)]
     /\ client' = [client EXCEPT ![p].done = @ + 1]
     /\ strayed' = [strayed EXCEPT ![c.target] = @ /\ ~Drops(c)]
     /\ UNCHANGED <<lock, marker, proc, orphans>>

(* mysql reaches the end of its input. *)
ClientFinishes(p) ==
  LET c == client[p]
  IN /\ c.exit = "running" /\ c.eof /\ c.done = c.input
     /\ client' = [client EXCEPT ![p].exit = "ok"]
     /\ UNCHANGED <<lock, marker, db, proc, orphans, strayed>>

(* What becomes of p's client when its docker run ends or is killed: it is *)
(* gone, or it goes on with the input it has.  A statement that the server *)
(* still runs for a client that is gone counts as going on.                *)
Outlives(p) ==
  \/ UNCHANGED orphans
  \/ /\ HasStatement(client[p])
     /\ Cardinality(orphans) < MaxOrphans
     /\ orphans' = orphans \cup {[client[p] EXCEPT !.eof = TRUE]}

(* An error of a statement, the server or docker. *)
ClientFails(p) ==
  /\ client[p].exit = "running"
  /\ client' = [client EXCEPT ![p].exit = "failed"]
  /\ Outlives(p)
  /\ UNCHANGED <<lock, marker, db, proc, strayed>>

OrphanExecutes(c) ==
  /\ HasStatement(c)
  /\ Succeeds(c)
  /\ db' = [db EXCEPT ![c.target] = After(c)]
  /\ orphans' = (orphans \ {c}) \cup {[c EXCEPT !.done = @ + 1]}
  /\ strayed' = [strayed EXCEPT ![c.target] = TRUE]
  /\ UNCHANGED <<lock, marker, proc, client>>

OrphanExits(c) ==
  /\ orphans' = orphans \ {c}
  /\ UNCHANGED <<lock, marker, db, proc, client, strayed>>

LoseClient(p) ==
  /\ client' = [client EXCEPT ![p] = NoClient]
  /\ Outlives(p)
  /\ UNCHANGED <<marker, db, strayed>>

(* Cancellation: docker run is killed and its container removed; that the  *)
(* removal failed or timed out is only logged.                             *)
Interrupt(p) ==
  /\ proc[p].pc \in {"recreating", "importing", "draining"}
  /\ LoseClient(p)
  /\ Return(p)

(* reprodb is killed; the operating system drops its lock. *)
Crash(p) ==
  /\ ~At(p, "idle")
  /\ LoseClient(p)
  /\ Return(p)

RestoreStep(p) ==
  \/ SaveIncomplete(p) \/ StartFails(p)
  \/ StartRecreate(p) \/ AwaitRecreate(p)
  \/ StartImport(p) \/ SendChunk(p) \/ WriteFails(p) \/ EndInput(p)
  \/ AwaitImport(p) \/ SaveReady(p)

(* What a client does that no fault makes it do. *)
ClientStep(p) ==
  \/ ClientExecutes(p)
  \/ ClientFinishes(p)
  \/ HasStatement(client[p]) /\ ~Succeeds(client[p]) /\ ClientFails(p)

OrphanStep == \E c \in orphans : OrphanExecutes(c) \/ OrphanExits(c)

Next ==
  \/ \E p \in Procs :
       \/ \E d \in Dumps, t \in Targets : Restore(p, d, t)
       \/ RestoreStep(p)
       \/ ClientStep(p)
       \/ ClientFails(p)
       \/ Interrupt(p)
       \/ Crash(p)
  \/ OrphanStep

Spec == Init /\ [][Next]_vars

(* reprodb and the mysql clients are scheduled, and the server answers:    *)
(* no timeout of reprodb would end a statement that never returns.         *)
Fairness == \A p \in Procs : WF_vars(RestoreStep(p)) /\ WF_vars(ClientStep(p))

FairSpec == Spec /\ Fairness

-----------------------------------------------------------------------------
(* Properties.                                                             *)

Exact(t, d) == db[t].exists /\ \A i \in 1..Parts : db[t].tables[i] = d

(* A state saved as ready tells the truth, through failed, interrupted and *)
(* killed restores and whatever was there before, as long as no orphaned   *)
(* client ran a statement since the database was last dropped              *)
(* (RestoreEngine::restore, verified_metrics).                             *)
ReadyIsExactUnlessStrayed ==
  \A t \in Targets :
    marker[t].status = "ready" /\ ~strayed[t] => Exact(t, marker[t].dump)

(* The clients that reprodb watches change a database only while its saved *)
(* state is incomplete and names the dump of the process that holds the    *)
(* lock: the order save, DROP, import, save of RestoreEngine::restore.     *)
ChangedOnlyWhenIncomplete ==
  [][\A t \in Targets : db'[t] # db[t] /\ orphans' = orphans =>
       /\ marker[t].status = "incomplete"
       /\ \E p \in Procs : lock[t] = p /\ proc[p].dump = marker[t].dump]_vars

(* Two restores never have clients on the same database at the same time. *)
OneClientPerTarget ==
  \A p, q \in Procs :
    p # q /\ client[p].kind # "none" => client[q].target # client[p].target

(* The client a process has at each label, and what any client may look    *)
(* like: it has executed no more than it was given, and ends well only     *)
(* when it has executed everything.                                        *)
ClientOf(pc) ==
  IF pc = "recreating" THEN "recreate"
  ELSE IF pc \in {"importing", "draining"} THEN "import" ELSE "none"

Sane(c) ==
  /\ c.done <= c.input
  /\ c.kind = "none" => c.exit # "running" /\ c.target = NoTarget
  /\ c.kind = "recreate" => c.input = 2
  /\ c.kind = "import" => c.content # NoDump
  /\ c.exit = "ok" => c.done = c.input

(* What p has made of its database by now, if no orphan strayed into it.   *)
Filled(p) ==
  LET s == proc[p]
      c == client[p]
      made == db[s.target]
  IN /\ \/ s.pc = "recreating" /\ c.done = 2
        \/ s.pc \in {"recreated", "importing", "draining", "imported"}
        => made.exists
     /\ c.kind = "import" => \A i \in 1..c.done : made.tables[i] = c.content
     /\ s.pc = "imported" => \A i \in 1..Parts : made.tables[i] = s.dump

(* A process that restores has the lock of its target and the client its   *)
(* label calls for; once it said so, the saved state is incomplete.        *)
ProcessShape(p) ==
  LET s == proc[p]
      c == client[p]
  IN /\ c.kind = ClientOf(s.pc)
     /\ c.kind # "none" => c.target = s.target
     /\ c.kind = "import" => c.content \in {s.dump, "other"}
     /\ Sane(c)
     /\ s.pc # "idle" => /\ s.target \in Targets /\ s.dump \in Dumps
                        /\ lock[s.target] = p
     /\ s.pc \notin {"idle", "locked"} =>
          marker[s.target] = [status |-> "incomplete", dump |-> s.dump]
     /\ s.pc # "idle" => strayed[s.target] \/ Filled(p)

OrphanShape(c) ==
  /\ Sane(c)
  /\ c.kind # "none"
  /\ c.target \in Targets

(* The invariant the theorems of LocalRestoreProofs rest on.               *)
InductiveInvariant ==
  /\ TypeOK
  /\ \A p \in Procs : ProcessShape(p)
  /\ \A c \in orphans : OrphanShape(c)
  /\ ReadyIsExactUnlessStrayed

(* Restoring keeps the promise of RestorePromise: a process works on a     *)
(* database from the moment its announcement is saved until its lock goes, *)
(* and neither a failed save, nor an interrupted or killed restore, nor a  *)
(* client that outlives it makes reprodb say what is not so.               *)
HolderOf(t) == {p \in Procs : lock[t] = p}

WorkingOn(t) ==
  {p \in HolderOf(t) : proc[p].target = t /\ proc[p].pc \notin {"idle", "locked"}}

HoldsOf(t) == {d \in Dumps : Exact(t, d)}

Promise == INSTANCE RestorePromise WITH
             holder  <- [t \in Targets |-> HolderOf(t)],
             working <- [t \in Targets |-> WorkingOn(t)],
             said    <- marker,
             holds   <- [t \in Targets |-> HoldsOf(t)],
             astray  <- strayed

KeepsPromise == Promise!Spec

(* A restore ends, well or not: stdin is closed before the exit of mysql   *)
(* is awaited, and a target does not stay busy for ever (stream_import).   *)
TargetComesFree ==
  \A t \in Targets : lock[t] # NoProc ~> lock[t] = NoProc

(* restore_engine.rs: "A crash, failed CREATE or failed import therefore   *)
(* cannot leave stale "ready" state."                                      *)
ReadyIsExact ==
  \A t \in Targets :
    marker[t].status = "ready" => Exact(t, marker[t].dump)
=============================================================================
