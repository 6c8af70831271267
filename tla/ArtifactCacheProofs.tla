------------------------ MODULE ArtifactCacheProofs ------------------------
(***************************************************************************)
(* Theorems about ArtifactCache for any dumps, processes and inodes: the   *)
(* inductive invariant, what it implies for leases, stagings and published *)
(* dumps, and that the cache implements ArtifactRegistry.  First come the  *)
(* types, then the steps that leave the directories alone, then those that *)
(* change them, one lemma each, and last the refinement.                   *)
(***************************************************************************)
EXTENDS ArtifactCache, TLAPS

(* A process that becomes a well-typed state stays well typed. *)
LEMMA BecomeType ==
  ASSUME TypeOK, NEW p \in Procs, NEW s \in Process, Become(p, s)
  PROVE  proc' \in [Procs -> Process]
  BY DEF Become, TypeOK

(* What TypeOK says of one process. *)
LEMMA StateType ==
  ASSUME TypeOK, NEW p \in Procs
  PROVE  proc[p] \in Process
  BY DEF TypeOK

(* The idle state is well typed. *)
LEMMA IdleProcessType == IdleProcess \in Process
  BY DEF IdleProcess, Process, Label, Name

(* Moving to another label keeps the type of proc. *)
LEMMA GotoType ==
  ASSUME TypeOK, NEW p \in Procs, NEW label \in Label, Goto(p, label)
  PROVE  proc' \in [Procs -> Process]
<1>1. [proc[p] EXCEPT !.pc = label] \in Process
  BY StateType DEF Process
<1> QED
  BY <1>1, BecomeType DEF Goto

(* Stopping keeps the type of proc. *)
LEMMA StopType ==
  ASSUME TypeOK, NEW p \in Procs, Stop(p)
  PROVE  proc' \in [Procs -> Process]
  BY BecomeType, IdleProcessType DEF Stop

(* Dropping a staging or an isolated directory keeps the types. *)
LEMMA DiscardType ==
  ASSUME TypeOK, NEW p \in Procs, Discard(p)
  PROVE  TypeOK'
<1>1. [proc[p] EXCEPT !.pc = "removing", !.fd = 0, !.held = "none"] \in Process
  BY StateType, ZenonT(60) DEF Process, Label
<1>2. proc' \in [Procs -> Process]
  BY <1>1, BecomeType DEF Discard
<1> QED
  BY <1>2 DEF Discard, dirVars, TypeOK

(* Going on to the next entry keeps the type of proc. *)
LEMMA NextEntryType ==
  ASSUME TypeOK, NEW p \in Procs, NextEntry(p)
  PROVE  proc' \in [Procs -> Process]
<1>1. [proc[p] EXCEPT !.pc = "visiting", !.fd = 0, !.held = "none",
                      !.dump = NoDump, !.path = "unused"] \in Process
  BY StateType, ZenonT(60) DEF Process, Label, Name
<1> QED
  BY <1>1, BecomeType DEF NextEntry

(* The first state of an operation on a dump is well typed. *)
LEMMA StartingType ==
  ASSUME NEW label \in Label, NEW job \in {"dump", "read"}, NEW d \in Dumps,
         NEW path \in Name
  PROVE  Starting(label, job, d, path) \in Process
  BY DEF Starting, IdleProcess, Process, Name

(* Opening a lock file, existing or new, keeps the types. *)
LEMMA OpenLockFileType ==
  ASSUME TypeOK, NEW p \in Procs, proc[p].dump \in Dumps,
         NEW next \in Label, OpenLockFile(p, next)
  PROVE  TypeOK'
<1> DEFINE d == proc[p].dump
<1>1. ASSUME NEW i \in Inodes \cup {0}
      PROVE  [proc[p] EXCEPT !.pc = next, !.fd = i] \in Process
  BY StateType DEF Process
<1>2. CASE Become(p, [proc[p] EXCEPT !.pc = next, !.fd = lockFile[d]])
           /\ UNCHANGED <<lockFile, stale>>
  <2>1. lockFile[d] \in Inodes \cup {0}
    BY DEF TypeOK
  <2>2. proc' \in [Procs -> Process]
    BY <1>1, <1>2, <2>1, BecomeType
  <2> QED
    BY <1>2, <2>2 DEF TypeOK, OpenLockFile
<1>3. ASSUME NEW i \in Inodes,
             lockFile' = [lockFile EXCEPT ![d] = i],
             Become(p, [proc[p] EXCEPT !.pc = next, !.fd = i]),
             stale' = [stale EXCEPT ![d] = FALSE]
      PROVE  TypeOK'
  <2>1. proc' \in [Procs -> Process]
    BY <1>1, <1>3, BecomeType
  <2> QED
    BY <1>3, <2>1 DEF TypeOK, OpenLockFile
<1> QED
  BY <1>2, <1>3 DEF OpenLockFile

(* A process in the middle of an operation is on some dump. *)
LEMMA BusyDump ==
  ASSUME TypeOK, ProcessShape, NEW p \in Procs,
         ~At(p, "idle"), ~At(p, "visiting")
  PROVE  proc[p].dump \in Dumps
  BY StateType DEF ProcessShape, Shape, At, Process

-----------------------------------------------------------------------------
(* Only process p moves. *)
OthersKept(p) == \A q \in Procs : q # p => proc'[q] = proc[q]

(* p stays on its dump and keeps the lock file it has open. *)
SamePlace(p) == proc'[p].dump = proc[p].dump /\ proc'[p].fd = proc[p].fd

(* The staging has no dump file yet. *)
Fresh == {"created", "begin opened", "staged"}

(***************************************************************************)
(* A step that moves process p only and leaves the directories alone, with *)
(* what the invariant asks of it: it keeps or drops its lock or takes one  *)
(* that is available, does not go back in its operation, and starts        *)
(* removing only what is isolated.                                         *)
(***************************************************************************)
Quiet(p) ==
  /\ UNCHANGED dirVars
  /\ OthersKept(p)
  /\ proc'[p].held # "none" =>
       /\ SamePlace(p)
       /\ \/ proc'[p].held = proc[p].held
          \/ proc'[p].held = "exclusive" /\ ExclusiveAvailable(p)
          \/ proc'[p].held = "shared" /\ SharedAvailable(p)
  /\ proc'[p].fd # 0 => SamePlace(p)
  /\ proc'[p].dump # proc[p].dump /\ proc'[p].dump # NoDump =>
       name[proc'[p].dump] # "unused"
  /\ \A e \in proc'[p].plan : e \in proc[p].plan \/ name[e[1]] # "unused"
  /\ proc'[p].job = "dump" => Owner(p, proc'[p].dump)
  /\ proc'[p].pc \in Staging => proc[p].pc \in Staging
  /\ proc'[p].pc \in Fresh => proc[p].pc \in Fresh
  /\ proc'[p].pc \in {"writing", "written", "described"} =>
       proc'[p].pc = proc[p].pc
  /\ proc'[p].pc = "leased" =>
       /\ name[proc'[p].dump] = "complete"
       /\ {"dump", "metadata"} \subseteq files[proc'[p].dump]
  /\ proc'[p].pc \in Removing \cup {"isolated"} =>
       name[proc'[p].dump] \in
         {"deleting", "redeleting", "removed"} \cup
         (IF proc'[p].job = "dump" THEN {"part"} ELSE {})

(* A quiet step keeps the invariant. *)
LEMMA QuietStep ==
  ASSUME InductiveInvariant, NEW p \in Procs, Quiet(p), TypeOK', ProcessShape'
  PROVE  InductiveInvariant'
<1> USE DEF InductiveInvariant
<1>1. name' = name /\ files' = files /\ lockFile' = lockFile
  BY DEF Quiet, dirVars
<1>2. \A q \in Procs : q # p => proc'[q] = proc[q]
  BY DEF Quiet, OthersKept
<1>3. proc'[p].pc \in Staging =>
        /\ proc'[p].dump = proc[p].dump
        /\ proc'[p].job = "dump" /\ proc[p].job = "dump"
        /\ proc[p].pc \in Staging
  BY DEF Quiet, Owner, ProcessShape, Shape
<1>4. LockExclusion'
  BY <1>2 DEF Quiet, LockExclusion, SameLockFile, SamePlace, ExclusiveAvailable, SharedAvailable
<1>5. OneOwner'
  BY <1>1, <1>2, NoDumpAssumption DEF Quiet, OneOwner, Owner
<1>6. RemovalIsolated'
  BY <1>1, <1>2 DEF Quiet, RemovalIsolated
<1>7. OneLockFile'
  BY <1>1, <1>2, <1>3 DEF Quiet, OneLockFile, LockFileFixed, SamePlace, Owner
<1>8. StagingFresh'
  BY <1>1, <1>2, <1>3, ZenonT(60) DEF Quiet, StagingFresh, Fresh, Staging
<1>9. StagingKeptWhileWritten'
  BY <1>1, <1>2, <1>3, ZenonT(60) DEF Quiet, StagingKeptWhileWritten, At, Staging
<1>10. PublishedIsWhole' /\ UnusedEmpty'
  BY <1>1 DEF PublishedIsWhole, UnusedEmpty
<1>11. LeasedArtifactIntact'
  BY <1>1, <1>2 DEF Quiet, LeasedArtifactIntact, At
<1> QED
  BY <1>4, <1>5, <1>6, <1>7, <1>8, <1>9, <1>10, <1>11

(* What the step Become(p, s) does to proc. *)
LEMMA BecomeStep ==
  ASSUME TypeOK, NEW p \in Procs, NEW s \in Process, Become(p, s)
  PROVE  proc'[p] = s /\ OthersKept(p)
  BY DEF TypeOK, Become, OthersKept

(* Only the moving process has its shape to show again. *)
LEMMA ShapeStep ==
  ASSUME ProcessShape, NEW p \in Procs, OthersKept(p), Shape(proc'[p])
  PROVE  ProcessShape'
  BY DEF ProcessShape, OthersKept

(* Any process may stop at any time: a crash, a failure, an end. *)
LEMMA StopStep ==
  ASSUME InductiveInvariant, NEW p \in Procs, Stop(p), UNCHANGED dirVars
  PROVE  InductiveInvariant'
<1>1. TypeOK /\ ProcessShape
  BY DEF InductiveInvariant
<1>2. proc'[p] = IdleProcess /\ OthersKept(p)
  BY <1>1, BecomeStep, IdleProcessType DEF Stop
<1>3. TypeOK'
  BY <1>1, StopType DEF TypeOK, dirVars
<1>4. Shape(IdleProcess)
  BY NoDumpAssumption DEF Shape, IdleProcess, Staging, Leasing, Cleaning, Removing
<1>5. ProcessShape'
  BY <1>1, <1>2, <1>4, ShapeStep
<1>6. Quiet(p)
  BY <1>2 DEF Quiet, IdleProcess, Staging, Fresh, Removing
<1> QED
  BY <1>3, <1>5, <1>6, QuietStep

(* A cleaner may leave an entry and visit the next one. *)
LEMMA NextEntryStep ==
  ASSUME InductiveInvariant, NEW p \in Procs, NextEntry(p), UNCHANGED dirVars,
         proc[p].job # "dump", proc[p].pc \notin Leasing \cup {"idle"}
  PROVE  InductiveInvariant'
<1> DEFINE s == [proc[p] EXCEPT !.pc = "visiting", !.fd = 0, !.held = "none",
                                !.dump = NoDump, !.path = "unused"]
<1>1. TypeOK /\ ProcessShape /\ proc[p] \in Process /\ Shape(proc[p])
  BY StateType DEF InductiveInvariant, ProcessShape
<1>2. s \in Process
  BY <1>1, ZenonT(60) DEF Process, Label, Name
<1>3. /\ s.pc = "visiting" /\ s.fd = 0 /\ s.held = "none" /\ s.dump = NoDump
      /\ s.path = "unused" /\ s.job = proc[p].job /\ s.plan = proc[p].plan
  BY <1>1 DEF Process
<1>4. proc'[p] = s /\ OthersKept(p)
  BY <1>1, <1>2, BecomeStep DEF NextEntry
<1> HIDE DEF s
<1>5. TypeOK'
  BY <1>1, NextEntryType DEF TypeOK, dirVars
<1>6. Shape(s)
  BY <1>1, <1>3 DEF Shape, Staging, Leasing, Cleaning, Removing
<1>7. ProcessShape'
  BY <1>1, <1>4, <1>6, ShapeStep
<1>8. Quiet(p)
  BY <1>3, <1>4 DEF Quiet, Staging, Fresh, Removing
<1> QED
  BY <1>5, <1>7, <1>8, QuietStep

(* A staging's Drop and an isolated removal start removing. *)
LEMMA DiscardStep ==
  ASSUME InductiveInvariant, NEW p \in Procs, Discard(p),
         proc[p].pc \in Staging \cup {"isolated"}
  PROVE  InductiveInvariant'
<1> DEFINE s == [proc[p] EXCEPT !.pc = "removing", !.fd = 0, !.held = "none"]
<1>1. TypeOK /\ ProcessShape /\ proc[p] \in Process /\ Shape(proc[p])
  BY StateType DEF InductiveInvariant, ProcessShape
<1>2. s \in Process
  BY <1>1, ZenonT(60) DEF Process, Label
<1>3. /\ s.pc = "removing" /\ s.fd = 0 /\ s.held = "none"
      /\ s.dump = proc[p].dump /\ s.path = proc[p].path
      /\ s.job = proc[p].job /\ s.plan = proc[p].plan
  BY <1>1 DEF Process
<1>4. proc'[p] = s /\ OthersKept(p) /\ UNCHANGED dirVars
  BY <1>1, <1>2, BecomeStep DEF Discard
<1> HIDE DEF s
<1>5. TypeOK'
  BY <1>1, DiscardType
<1>6. Shape(s)
  BY <1>1, <1>3, ZenonT(60) DEF Shape, Staging, Leasing, Cleaning, Removing
<1>7. ProcessShape'
  BY <1>1, <1>4, <1>6, ShapeStep
<1>8. name[proc[p].dump] \in
        {"deleting", "redeleting", "removed"} \cup
        (IF proc[p].job = "dump" THEN {"part"} ELSE {})
  <2>1. CASE proc[p].pc = "isolated"
    BY <2>1 DEF InductiveInvariant, RemovalIsolated
  <2>2. CASE proc[p].pc \in Staging
    <3>1. proc[p].job = "dump" /\ proc[p].dump \in Dumps
      BY <1>1, <2>2 DEF Shape, Process, Staging
    <3>2. name[proc[p].dump] # "unused" /\ name[proc[p].dump] # "complete"
      BY <2>2, <3>1 DEF InductiveInvariant, OneOwner, StagingFresh
    <3> QED
      BY <1>1, <3>1, <3>2 DEF TypeOK, Name
  <2> QED
    BY <2>1, <2>2
<1>9. Quiet(p)
  BY <1>3, <1>4, <1>8 DEF Quiet, Staging, Fresh, Removing, Owner, dirVars
<1> QED
  BY <1>5, <1>7, <1>9, QuietStep

(* The fields of a process after Goto. *)
LEMMA GotoEffect ==
  ASSUME TypeOK, NEW p \in Procs, NEW label \in Label, Goto(p, label)
  PROVE  /\ OthersKept(p)
         /\ proc'[p].pc = label /\ proc'[p].job = proc[p].job
         /\ proc'[p].dump = proc[p].dump /\ proc'[p].path = proc[p].path
         /\ proc'[p].fd = proc[p].fd /\ proc'[p].held = proc[p].held
         /\ proc'[p].plan = proc[p].plan
<1> DEFINE s == [proc[p] EXCEPT !.pc = label]
<1>1. proc[p] \in Process
  BY StateType
<1>2. s \in Process
  BY <1>1 DEF Process
<1>3. proc'[p] = s /\ OthersKept(p)
  BY <1>2, BecomeStep DEF Goto
<1> QED
  BY <1>1, <1>3 DEF Process

(* The fields of a process after it locks a file. *)
LEMMA LockEffect ==
  ASSUME TypeOK, NEW p \in Procs, NEW label \in Label,
         NEW held \in {"shared", "exclusive"},
         Become(p, [proc[p] EXCEPT !.pc = label, !.held = held])
  PROVE  /\ proc' \in [Procs -> Process]
         /\ OthersKept(p)
         /\ proc'[p].pc = label /\ proc'[p].job = proc[p].job
         /\ proc'[p].dump = proc[p].dump /\ proc'[p].path = proc[p].path
         /\ proc'[p].fd = proc[p].fd /\ proc'[p].held = held
         /\ proc'[p].plan = proc[p].plan
<1> DEFINE s == [proc[p] EXCEPT !.pc = label, !.held = held]
<1>1. proc[p] \in Process
  BY StateType
<1>2. s \in Process
  BY <1>1 DEF Process
<1>3. proc'[p] = s /\ OthersKept(p)
  BY <1>2, BecomeStep
<1>4. proc' \in [Procs -> Process]
  BY <1>2, BecomeType
<1> QED
  BY <1>1, <1>3, <1>4 DEF Process

(* Taking an available lock keeps the invariant. *)
LEMMA TryLockStep ==
  ASSUME InductiveInvariant, NEW p \in Procs, NEW label, NEW held,
         \/ /\ proc[p].pc = "begin opened" /\ label = "staged"
            /\ held = "exclusive" /\ ExclusiveAvailable(p)
         \/ /\ proc[p].pc = "isolate opened" /\ label = "isolate locked"
            /\ held = "exclusive" /\ ExclusiveAvailable(p)
         \/ /\ proc[p].pc = "lease opened" /\ label = "lease held"
            /\ held = "shared" /\ SharedAvailable(p),
         Become(p, [proc[p] EXCEPT !.pc = label, !.held = held]),
         UNCHANGED dirVars
  PROVE  InductiveInvariant'
<1>1. TypeOK /\ ProcessShape /\ Shape(proc[p]) /\ label \in Label
  BY DEF InductiveInvariant, ProcessShape, Label
<1>2. /\ proc' \in [Procs -> Process]
      /\ OthersKept(p)
      /\ proc'[p].pc = label /\ proc'[p].job = proc[p].job
      /\ proc'[p].dump = proc[p].dump /\ proc'[p].path = proc[p].path
      /\ proc'[p].fd = proc[p].fd /\ proc'[p].held = held
      /\ proc'[p].plan = proc[p].plan
  BY <1>1, LockEffect
<1>3. TypeOK'
  BY <1>1, <1>2 DEF TypeOK, dirVars
<1>4. Shape(proc'[p])
  BY <1>1, <1>2 DEF Shape, Staging, Leasing, Cleaning, Removing
<1>5. ProcessShape'
  BY <1>1, <1>2, <1>4, ShapeStep
<1>6. proc[p].job = "dump" => Owner(p, proc[p].dump)
  BY DEF Owner
<1>7. Quiet(p)
  BY <1>2, <1>6 DEF Quiet, SamePlace, Fresh, Staging, Removing
<1> QED
  BY <1>3, <1>5, <1>7, QuietStep

(* Starting to read or to clean keeps the invariant. *)
LEMMA StartStep ==
  ASSUME InductiveInvariant, NEW p \in Procs, At(p, "idle"),
         NEW s \in Process, Become(p, s), UNCHANGED dirVars,
         s.fd = 0, s.held = "none",
         \/ /\ s.pc = "visiting" /\ s.job \in {"sweep", "prune"}
            /\ s.dump = NoDump
         \/ /\ s.pc = "found" /\ s.job = "read" /\ s.path = "complete"
            /\ s.dump \in Dumps /\ name[s.dump] = "complete",
         \A e \in s.plan : /\ e[2] \in {"part", "complete", "deleting"}
                            /\ name[e[1]] # "unused",
         s.job = "sweep" =>
           s.path # "complete" /\ \A e \in s.plan : e[2] # "complete"
  PROVE  InductiveInvariant'
<1>1. TypeOK /\ ProcessShape
  BY DEF InductiveInvariant
<1>2. proc'[p] = s /\ OthersKept(p)
  BY <1>1, BecomeStep
<1>3. TypeOK'
  BY <1>1, BecomeType DEF TypeOK, dirVars
<1>4. Shape(s)
  BY NoDumpAssumption DEF Shape, Staging, Leasing, Cleaning, Removing
<1>5. ProcessShape'
  BY <1>1, <1>2, <1>4, ShapeStep
<1>6. Quiet(p)
  BY <1>2 DEF Quiet, Staging, Fresh, Removing
<1> QED
  BY <1>3, <1>5, <1>6, QuietStep

(* Listing a complete dump keeps the invariant. *)
LEMMA FindCompleteStep ==
  ASSUME InductiveInvariant, NEW p \in Procs, NEW d \in Dumps, FindComplete(p, d)
  PROVE  InductiveInvariant'
<1> DEFINE s == Starting("found", "read", d, "complete")
<1>1. s \in Process
  BY StartingType DEF Label, Name
<1>2. /\ s.pc = "found" /\ s.job = "read" /\ s.dump = d /\ s.path = "complete"
      /\ s.fd = 0 /\ s.held = "none" /\ s.plan = {}
  BY DEF Starting, IdleProcess
<1> HIDE DEF s
<1>3. At(p, "idle") /\ name[d] = "complete" /\ UNCHANGED dirVars /\ Become(p, s)
  BY DEF FindComplete, s
<1> QED
  BY <1>1, <1>2, <1>3, StartStep

(* Listing what a sweep may take keeps the invariant. *)
LEMMA SweepListStep ==
  ASSUME InductiveInvariant, NEW p \in Procs, SweepList(p)
  PROVE  InductiveInvariant'
<1> DEFINE L == {e \in Dumps \X Name : name[e[1]] = e[2] /\ IsSweepable(e[2])}
           s == [IdleProcess EXCEPT !.pc = "visiting", !.job = "sweep", !.plan = L]
<1>1. /\ L \in SUBSET (Dumps \X Name)
      /\ \A e \in L : /\ e[2] \in {"part", "deleting"}
                       /\ name[e[1]] # "unused"
  BY DEF IsSweepable
<1> HIDE DEF L
<1>2. s \in Process
  BY <1>1, IdleProcessType, ZenonT(60) DEF Process, Label
<1>3. /\ s.pc = "visiting" /\ s.job = "sweep" /\ s.dump = NoDump
      /\ s.path = "unused" /\ s.fd = 0 /\ s.held = "none" /\ s.plan = L
  BY DEF IdleProcess
<1>4. At(p, "idle") /\ UNCHANGED dirVars /\ Become(p, s)
  BY DEF SweepList, L
<1> HIDE DEF s
<1> QED
  BY <1>1, <1>2, <1>3, <1>4, StartStep

(* Selecting dumps to prune keeps the invariant. *)
LEMMA PlanPruneStep ==
  ASSUME InductiveInvariant, NEW p \in Procs, NEW S \in SUBSET Dumps, PlanPrune(p, S)
  PROVE  InductiveInvariant'
<1> DEFINE L == S \X {"complete"}
           s == [IdleProcess EXCEPT !.pc = "visiting", !.job = "prune", !.plan = L]
<1>1. /\ L \in SUBSET (Dumps \X Name)
      /\ \A e \in L : /\ e[2] \in {"part", "complete", "deleting"}
                       /\ name[e[1]] # "unused"
  BY DEF Name, PlanPrune
<1> HIDE DEF L
<1>2. s \in Process
  BY <1>1, IdleProcessType, ZenonT(60) DEF Process, Label
<1>3. /\ s.pc = "visiting" /\ s.job = "prune" /\ s.dump = NoDump
      /\ s.fd = 0 /\ s.held = "none" /\ s.plan = L
  BY DEF IdleProcess
<1>4. At(p, "idle") /\ UNCHANGED dirVars /\ Become(p, s)
  BY DEF PlanPrune, L
<1> HIDE DEF s
<1> QED
  BY <1>1, <1>2, <1>3, <1>4, StartStep

(* Visiting an entry of the plan keeps the invariant. *)
LEMMA VisitStep ==
  ASSUME InductiveInvariant, NEW p \in Procs, NEW d \in Dumps, NEW n \in Name,
         Visit(p, d, n)
  PROVE  InductiveInvariant'
<1> DEFINE L == proc[p].plan \ {<<d, n>>}
           a == [proc[p] EXCEPT !.plan = L, !.pc = "isolating",
                                !.dump = d, !.path = n]
           b == [proc[p] EXCEPT !.plan = L]
<1>1. /\ TypeOK /\ ProcessShape /\ proc[p] \in Process /\ Shape(proc[p])
      /\ proc[p].pc = "visiting" /\ <<d, n>> \in proc[p].plan
      /\ UNCHANGED dirVars
  BY StateType DEF InductiveInvariant, ProcessShape, Visit, At
<1>2. L \in SUBSET (Dumps \X Name)
  BY <1>1 DEF Process
<1>3. a \in Process /\ b \in Process
  BY <1>1, <1>2 DEF Process, Label
<1>4. /\ a.pc = "isolating" /\ a.job = proc[p].job /\ a.dump = d /\ a.path = n
      /\ a.fd = proc[p].fd /\ a.held = proc[p].held /\ a.plan = L
      /\ b.pc = proc[p].pc /\ b.job = proc[p].job /\ b.dump = proc[p].dump
      /\ b.fd = proc[p].fd /\ b.held = proc[p].held /\ b.plan = L
      /\ b.path = proc[p].path
  BY <1>1 DEF Process
<1>5. \/ Become(p, a) /\ WorthRemoving(d, n)
      \/ Become(p, b)
  BY DEF Visit
<1>6. /\ n \in {"part", "complete", "deleting"}
      /\ \A e \in L : e[2] \in {"part", "complete", "deleting"}
      /\ proc[p].job # "dump" /\ proc[p].fd = 0 /\ proc[p].held = "none"
      /\ proc[p].dump = NoDump /\ L \subseteq proc[p].plan
      /\ proc[p].job = "sweep" => n # "complete" /\ \A e \in L : e[2] # "complete"
      /\ proc[p].job \notin {"none", "read"}
  BY <1>1 DEF Shape, Staging, Leasing, Removing, Process
<1>9. name[d] # "unused"
  BY <1>1 DEF InductiveInvariant, OneOwner
<1> HIDE DEF L, a, b
<1>7. CASE Become(p, a)
  <2>1. proc'[p] = a /\ OthersKept(p) /\ TypeOK'
    BY <1>1, <1>3, <1>7, BecomeStep, BecomeType DEF TypeOK, dirVars
  <2>2. Shape(a)
    BY <1>4, <1>6, NoDumpAssumption DEF Shape, Staging, Leasing, Cleaning, Removing
  <2>3. ProcessShape'
    BY <1>1, <2>1, <2>2, ShapeStep
  <2>4. Quiet(p)
    BY <1>1, <1>4, <1>6, <1>7, <1>9, <2>1 DEF Quiet, Staging, Fresh, Removing
  <2> QED
    BY <2>1, <2>3, <2>4, QuietStep
<1>8. CASE Become(p, b)
  <2>1. proc'[p] = b /\ OthersKept(p) /\ TypeOK'
    BY <1>1, <1>3, <1>8, BecomeStep, BecomeType DEF TypeOK, dirVars
  <2>2. Shape(b)
    BY <1>1, <1>4, <1>6 DEF Shape, Staging, Leasing, Cleaning, Removing
  <2>3. ProcessShape'
    BY <1>1, <2>1, <2>2, ShapeStep
  <2>4. Quiet(p)
    BY <1>1, <1>4, <1>6, <2>1 DEF Quiet, Staging, Fresh, Removing
  <2> QED
    BY <2>1, <2>3, <2>4, QuietStep
<1> QED
  BY <1>5, <1>7, <1>8

-----------------------------------------------------------------------------
(* Locks stay exclusive when nobody's lock changes. *)
LEMMA SameLocks ==
  ASSUME LockExclusion,
         \A q \in Procs : /\ proc'[q].dump = proc[q].dump
                          /\ proc'[q].fd = proc[q].fd
                          /\ proc'[q].held = proc[q].held
  PROVE  LockExclusion'
  BY DEF LockExclusion, SameLockFile

(* Owners stay unique when no operation changes its dump. *)
LEMMA SameOwners ==
  ASSUME TypeOK, OneOwner,
         \A q \in Procs : /\ proc'[q].dump = proc[q].dump
                          /\ proc'[q].job = proc[q].job
                          /\ proc'[q].plan = proc[q].plan,
         \A d \in Dumps : name[d] # "unused" => name'[d] # "unused"
  PROVE  OneOwner'
<1>1. \A q \in Procs : \A e \in proc[q].plan : e[1] \in Dumps
  BY StateType DEF Process
<1> QED
  BY <1>1 DEF OneOwner, Owner

(* Lock files stay shared when none is opened or replaced. *)
LEMMA SameLockFiles ==
  ASSUME OneLockFile, lockFile' = lockFile,
         \A q \in Procs : /\ proc'[q].dump = proc[q].dump
                          /\ proc'[q].fd = proc[q].fd,
         \A d \in Dumps : LockFileFixed(d)' => LockFileFixed(d)
  PROVE  OneLockFile'
  BY DEF OneLockFile

(* Writers keep their stagings when nothing they use changes. *)
LEMMA SameWriters ==
  ASSUME StagingKeptWhileWritten,
         \A q \in Procs :
           proc'[q].pc \in {"writing", "written", "described"} =>
             /\ proc'[q].pc = proc[q].pc
             /\ proc'[q].dump = proc[q].dump
             /\ name'[proc[q].dump] = name[proc[q].dump]
             /\ files'[proc[q].dump] = files[proc[q].dump]
  PROVE  StagingKeptWhileWritten'
<1>1. ASSUME NEW q \in Procs
      PROVE  LET d == proc'[q].dump
             IN /\ proc'[q].pc = "writing" =>
                     name'[d] = "part" /\ files'[d] = {"partial dump"}
                /\ proc'[q].pc = "written" =>
                     name'[d] = "part" /\ files'[d] = {"dump"}
                /\ proc'[q].pc = "described" =>
                     name'[d] = "part" /\ files'[d] = {"dump", "metadata"}
  BY <1>1, ZenonT(60) DEF StagingKeptWhileWritten, At
<1> QED
  BY <1>1 DEF StagingKeptWhileWritten, At

(* Readers keep their dumps when nothing they use changes. *)
LEMMA SameReaders ==
  ASSUME LeasedArtifactIntact,
         \A q \in Procs :
           proc'[q].pc = "leased" =>
             /\ proc'[q].pc = proc[q].pc
             /\ proc'[q].dump = proc[q].dump
             /\ name'[proc[q].dump] = name[proc[q].dump]
             /\ files'[proc[q].dump] = files[proc[q].dump]
  PROVE  LeasedArtifactIntact'
  BY DEF LeasedArtifactIntact, At

(* Opening a lock file keeps the invariant. *)
LEMMA OpenLockFileStep ==
  ASSUME InductiveInvariant, NEW p \in Procs, NEW next,
         \/ proc[p].pc = "created" /\ next = "begin opened"
         \/ proc[p].pc = "found" /\ next = "lease opened"
         \/ proc[p].pc = "isolating" /\ next = "isolate opened",
         OpenLockFile(p, next)
  PROVE  InductiveInvariant'
<1> DEFINE d == proc[p].dump
<1>1. /\ TypeOK /\ ProcessShape /\ proc[p] \in Process /\ Shape(proc[p])
      /\ d \in Dumps /\ next \in Label
  BY StateType DEF InductiveInvariant, ProcessShape, Shape, Process, Label
<1>2. TypeOK'
  BY <1>1, OpenLockFileType, ZenonT(60)
<1>3. PICK i \in Inodes : /\ lockFile' = [lockFile EXCEPT ![d] = i]
                          /\ lockFile[d] \in {0, i}
                          /\ Become(p, [proc[p] EXCEPT !.pc = next, !.fd = i])
  <2>1. CASE lockFile[d] # 0
    BY <1>1, <2>1 DEF OpenLockFile, TypeOK
  <2>2. CASE lockFile[d] = 0
    BY <1>1, <2>2 DEF OpenLockFile, TypeOK
  <2> QED
    BY <2>1, <2>2
<1>4. name' = name /\ files' = files
  BY DEF OpenLockFile
<1> DEFINE s == [proc[p] EXCEPT !.pc = next, !.fd = i]
<1>5. s \in Process
  BY <1>1 DEF Process
<1>6. /\ s.pc = next /\ s.fd = i /\ s.held = proc[p].held
      /\ s.dump = d /\ s.path = proc[p].path
      /\ s.job = proc[p].job /\ s.plan = proc[p].plan
  BY <1>1 DEF Process
<1>7. proc'[p] = s /\ \A q \in Procs : q # p => proc'[q] = proc[q]
  BY <1>1, <1>3, <1>5, BecomeStep DEF OthersKept
<1> HIDE DEF s
<1>8. i # 0
  BY InodesAssumption
<1>9. Shape(s)
  BY <1>1, <1>6, <1>8 DEF Shape, Staging, Leasing, Cleaning, Removing
<1>10. ProcessShape'
  BY <1>1, <1>7, <1>9, ShapeStep DEF OthersKept
<1>11. s.held = "none" /\ next \notin Removing \cup {"isolated"}
  BY <1>1, <1>6 DEF Shape, Process, Removing
<1>12. \A q \in Procs : /\ proc'[q].dump = proc[q].dump
                        /\ proc'[q].job = proc[q].job
                        /\ proc'[q].plan = proc[q].plan
  BY <1>6, <1>7
<1>13. \A q \in Procs : proc'[q].pc \in Staging => proc[q].pc \in Staging
  BY <1>6, <1>7 DEF Staging
<1>14. \A q \in Procs : proc'[q].pc \in {"created", "begin opened", "staged"}
                        => proc[q].pc \in {"created", "begin opened", "staged"}
  BY <1>6, <1>7
<1>15. LockExclusion'
  BY <1>6, <1>7, <1>11, ZenonT(60) DEF InductiveInvariant, LockExclusion, SameLockFile
<1>16. OneOwner'
  BY <1>4, <1>12, ZenonT(60) DEF InductiveInvariant, OneOwner, Owner
<1>17. RemovalIsolated'
  BY <1>4, <1>6, <1>7, <1>11 DEF InductiveInvariant, RemovalIsolated
<1>18. OneLockFile'
  <2>1. ASSUME NEW e \in Dumps, LockFileFixed(e)', NEW q \in Procs,
               (proc[q].dump = e)'
        PROVE  proc'[q].fd \in {0, lockFile'[e]}
    <3>1. LockFileFixed(e)
      BY <1>4, <1>6, <1>7, <2>1, ZenonT(60) DEF LockFileFixed, Owner, Staging
    <3>2. \A r \in Procs : proc[r].dump = e => proc[r].fd \in {0, lockFile[e]}
      BY <3>1 DEF InductiveInvariant, OneLockFile
    <3> QED
      BY <1>1, <1>3, <1>6, <1>7, <2>1, <3>2, ZenonT(60) DEF TypeOK
  <2> QED
    BY <2>1 DEF OneLockFile
<1>19. StagingFresh'
  BY <1>4, <1>12, <1>13, <1>14 DEF InductiveInvariant, StagingFresh
<1>20. StagingKeptWhileWritten' /\ LeasedArtifactIntact'
  BY <1>4, <1>6, <1>7, ZenonT(60) DEF InductiveInvariant, StagingKeptWhileWritten,
                          LeasedArtifactIntact, At
<1>21. PublishedIsWhole' /\ UnusedEmpty'
  BY <1>4 DEF InductiveInvariant, PublishedIsWhole, UnusedEmpty
<1> QED
  BY <1>2, <1>10, <1>15, <1>16, <1>17, <1>18, <1>19, <1>20, <1>21
     DEF InductiveInvariant

(* Creating a staging directory keeps the invariant. *)
LEMMA BeginCreateDirStep ==
  ASSUME InductiveInvariant, NEW p \in Procs, NEW d \in Dumps, BeginCreateDir(p, d)
  PROVE  InductiveInvariant'
<1> DEFINE s == Starting("created", "dump", d, "part")
<1>1. /\ TypeOK /\ ProcessShape /\ name[d] = "unused"
      /\ files' = files /\ lockFile' = lockFile /\ stale' = stale
      /\ name' = [name EXCEPT ![d] = "part"] /\ Become(p, s)
  BY DEF InductiveInvariant, BeginCreateDir
<1>2. s \in Process
  BY StartingType DEF Label, Name
<1>3. /\ s.pc = "created" /\ s.job = "dump" /\ s.dump = d /\ s.path = "part"
      /\ s.fd = 0 /\ s.held = "none" /\ s.plan = {}
  BY DEF Starting, IdleProcess
<1> HIDE DEF s
<1>4. proc'[p] = s /\ \A q \in Procs : q # p => proc'[q] = proc[q]
  BY <1>1, <1>2, BecomeStep DEF OthersKept
<1>5. TypeOK'
  BY <1>1, <1>2, BecomeType DEF TypeOK, Name
<1>6. Shape(s)
  BY <1>3, NoDumpAssumption DEF Shape, Staging, Leasing, Cleaning, Removing
<1>7. ProcessShape'
  BY <1>1, <1>4, <1>6, ShapeStep DEF OthersKept
<1>8. /\ name'[d] = "part"
      /\ \A e \in Dumps : e # d => name'[e] = name[e]
  BY <1>1 DEF TypeOK
<1>9. \A q \in Procs : proc[q].dump # d
  BY <1>1 DEF InductiveInvariant, OneOwner
<1>10. \A q \in Procs : proc[q].dump \in Dumps \cup {NoDump}
  BY <1>1, StateType DEF Process
<1>11. LockExclusion'
  BY <1>3, <1>4 DEF InductiveInvariant, LockExclusion, SameLockFile
<1>12. OneOwner'
  <2>1. \A q, r \in Procs, e \in Dumps : Owner(q, e)' /\ Owner(r, e)' => q = r
    BY <1>3, <1>4, <1>9 DEF InductiveInvariant, OneOwner, Owner
  <2>2. \A q \in Procs, e \in Dumps : proc'[q].dump = e => name'[e] # "unused"
    BY <1>3, <1>4, <1>8 DEF InductiveInvariant, OneOwner
  <2>3. \A q \in Procs : \A e \in proc'[q].plan : name'[e[1]] # "unused"
    <3>1. ASSUME NEW q \in Procs, NEW e \in proc[q].plan
          PROVE  e[1] \in Dumps /\ name[e[1]] # "unused"
      <4>1. proc[q].plan \in SUBSET (Dumps \X Name)
        BY <1>1, StateType DEF Process
      <4> QED
        BY <4>1 DEF InductiveInvariant, OneOwner
    <3> QED
      BY <1>3, <1>4, <1>8, <3>1
  <2> QED
    BY <2>1, <2>2, <2>3 DEF OneOwner
<1>13. RemovalIsolated'
  <2>1. ASSUME NEW q \in Procs, q # p, proc[q].pc \in Removing \cup {"isolated"}
        PROVE  name'[proc[q].dump] = name[proc[q].dump]
    BY <1>1, <1>8, <1>9, <1>10, <2>1 DEF ProcessShape, Shape, Removing
  <2> QED
    BY <1>3, <1>4, <2>1 DEF InductiveInvariant, RemovalIsolated, Removing
<1>14. OneLockFile'
  BY <1>1, <1>3, <1>4, <1>8, <1>9
     DEF InductiveInvariant, OneLockFile, LockFileFixed, Owner
<1>15. files[d] = {}
  BY <1>1 DEF InductiveInvariant, UnusedEmpty
<1>16. ASSUME NEW q \in Procs, q # p, proc[q].pc \notin {"idle", "visiting"}
       PROVE  name'[proc[q].dump] = name[proc[q].dump]
  BY <1>1, <1>8, <1>9, <1>10, <1>16 DEF ProcessShape, Shape
<1>17. StagingFresh'
  <2>1. proc'[p].dump = d /\ name'[d] = "part" /\ files'[d] = {}
    BY <1>1, <1>3, <1>4, <1>8, <1>15
  <2>2. ASSUME NEW q \in Procs, q # p
        PROVE  /\ proc'[q].pc \in Staging => name'[proc'[q].dump] # "complete"
               /\ proc'[q].pc \in {"created", "begin opened", "staged"} =>
                    (name'[proc'[q].dump] = "part" => files'[proc'[q].dump] = {})
    BY <1>1, <1>4, <1>16, <2>2, ZenonT(60) DEF InductiveInvariant, StagingFresh, Staging
  <2> QED
    BY <2>1, <2>2 DEF StagingFresh
<1>18. StagingKeptWhileWritten'
  BY <1>1, <1>3, <1>4, <1>16, ZenonT(60)
     DEF InductiveInvariant, StagingKeptWhileWritten, At
<1>19. PublishedIsWhole' /\ UnusedEmpty'
  BY <1>1, <1>8 DEF InductiveInvariant, PublishedIsWhole, UnusedEmpty
<1>20. LeasedArtifactIntact'
  BY <1>1, <1>3, <1>4, <1>16 DEF InductiveInvariant, LeasedArtifactIntact, At
<1> QED
  BY <1>5, <1>7, <1>11, <1>12, <1>13, <1>14, <1>17, <1>18, <1>19, <1>20
     DEF InductiveInvariant

(* The owner of a staging may write its files. *)
LEMMA WriteStep ==
  ASSUME InductiveInvariant, NEW p \in Procs, NEW label, NEW F \in SUBSET File,
         Goto(p, label), proc[p].dump \in Dumps,
         proc[p].pc \in {"staged", "writing", "written"},
         name[proc[p].dump] = "part",
         files' \in [Dumps -> SUBSET File], files'[proc[p].dump] = F,
         \A e \in Dumps : e # proc[p].dump => files'[e] = files[e],
         name' = name, lockFile' = lockFile, stale' \in [Dumps -> BOOLEAN],
         \/ label = "writing" /\ F = {"partial dump"}
         \/ label = "written" /\ F = {"dump"}
         \/ label = "described" /\ F = {"dump", "metadata"}
  PROVE  InductiveInvariant'
<1> DEFINE d == proc[p].dump
<1>1. /\ TypeOK /\ ProcessShape /\ Shape(proc[p]) /\ label \in Label
      /\ proc[p].job = "dump" /\ proc[p].held = "exclusive" /\ proc[p].path = "part"
  BY DEF InductiveInvariant, ProcessShape, Shape, Staging, Label
<1>2. /\ \A q \in Procs : q # p => proc'[q] = proc[q]
      /\ proc'[p].pc = label /\ proc'[p].job = proc[p].job
      /\ proc'[p].dump = proc[p].dump /\ proc'[p].path = proc[p].path
      /\ proc'[p].fd = proc[p].fd /\ proc'[p].held = proc[p].held
      /\ proc'[p].plan = proc[p].plan
  BY <1>1, GotoEffect DEF OthersKept
<1>3. /\ files'[d] = F
      /\ \A e \in Dumps : e # d => files'[e] = files[e]
  OBVIOUS
<1>4. TypeOK'
  <2>1. proc' \in [Procs -> Process]
    BY <1>1, GotoType
  <2> QED
    BY <1>1, <2>1 DEF TypeOK
<1>5. Shape(proc'[p])
  BY <1>1, <1>2 DEF Shape, Staging, Leasing, Cleaning, Removing
<1>6. ProcessShape'
  BY <1>1, <1>2, <1>5, ShapeStep DEF OthersKept
<1>7. \A q \in Procs : /\ proc'[q].dump = proc[q].dump
                       /\ proc'[q].job = proc[q].job
                       /\ proc'[q].fd = proc[q].fd
                       /\ proc'[q].held = proc[q].held
                       /\ proc'[q].plan = proc[q].plan
  BY <1>2
<1>8. \A q \in Procs : q # p /\ proc[q].dump = d => proc[q].pc \notin Staging
  BY <1>1 DEF InductiveInvariant, OneOwner, Owner, ProcessShape, Shape
<1>9. \A q \in Procs : q # p /\ proc[q].dump = d => proc[q].pc # "leased"
  BY DEF InductiveInvariant, LeasedArtifactIntact, At
<1>10. \A q \in Procs :
         q # p /\ proc[q].pc \notin {"idle", "visiting"} => proc[q].dump \in Dumps
  BY <1>1, StateType DEF ProcessShape, Shape, Process
<1>11. LockExclusion'
  BY <1>7, SameLocks DEF InductiveInvariant
<1>12. OneOwner'
  BY <1>1, <1>7, SameOwners DEF InductiveInvariant
<1>13. RemovalIsolated'
  BY <1>2, ZenonT(60) DEF InductiveInvariant, RemovalIsolated, Removing
<1>14. OneLockFile'
  <2>1. \A q \in Procs : proc'[q].pc \in Staging => proc[q].pc \in Staging
    BY <1>2 DEF Staging
  <2>2. \A e \in Dumps : LockFileFixed(e)' => LockFileFixed(e)
    BY <1>7, <2>1 DEF LockFileFixed, Owner
  <2> QED
    BY <1>7, <2>2, SameLockFiles DEF InductiveInvariant
<1>15. StagingFresh'
  <2>1. ASSUME NEW q \in Procs, q # p
        PROVE  /\ proc'[q].pc \in Staging => name'[proc'[q].dump] # "complete"
               /\ proc'[q].pc \in {"created", "begin opened", "staged"} =>
                    (name'[proc'[q].dump] = "part" => files'[proc'[q].dump] = {})
    BY <1>2, <1>3, <1>8, <1>10, <2>1, ZenonT(60) DEF InductiveInvariant, StagingFresh, Staging
  <2>2. /\ name'[proc'[p].dump] # "complete"
        /\ proc'[p].pc \notin {"created", "begin opened", "staged"}
    BY <1>2
  <2> QED
    BY <2>1, <2>2 DEF StagingFresh
<1>16. StagingKeptWhileWritten'
  <2>1. ASSUME NEW q \in Procs, q # p,
               proc[q].pc \in {"writing", "written", "described"}
        PROVE  files'[proc[q].dump] = files[proc[q].dump]
    BY <1>3, <1>8, <1>10, <2>1 DEF Staging
  <2>2. ASSUME NEW q \in Procs, q # p
        PROVE  /\ proc'[q].pc = "writing" =>
                    name'[proc'[q].dump] = "part" /\ files'[proc'[q].dump] = {"partial dump"}
               /\ proc'[q].pc = "written" =>
                    name'[proc'[q].dump] = "part" /\ files'[proc'[q].dump] = {"dump"}
               /\ proc'[q].pc = "described" =>
                    /\ name'[proc'[q].dump] = "part"
                    /\ files'[proc'[q].dump] = {"dump", "metadata"}
    BY <1>2, <2>1, <2>2, ZenonT(60) DEF InductiveInvariant, StagingKeptWhileWritten, At
  <2> QED
    BY <1>2, <1>3, <2>2, ZenonT(60) DEF StagingKeptWhileWritten, At
<1>17. PublishedIsWhole' /\ UnusedEmpty'
  BY <1>3 DEF InductiveInvariant, PublishedIsWhole, UnusedEmpty
<1>18. LeasedArtifactIntact'
  BY <1>2, <1>3, <1>9, <1>10, ZenonT(60) DEF InductiveInvariant, LeasedArtifactIntact, At
<1> QED
  BY <1>4, <1>6, <1>11, <1>12, <1>13, <1>14, <1>15, <1>16, <1>17, <1>18
     DEF InductiveInvariant

(* The rename of publish keeps the invariant. *)
LEMMA PublishRenameStep ==
  ASSUME InductiveInvariant, NEW p \in Procs, PublishRename(p)
  PROVE  InductiveInvariant'
<1> DEFINE d == proc[p].dump
<1>1. /\ TypeOK /\ ProcessShape /\ Shape(proc[p]) /\ proc[p].pc = "described"
      /\ proc[p].job = "dump" /\ d \in Dumps /\ proc[p].path = "part"
      /\ name[d] = "part" /\ files[d] = {"dump", "metadata"}
      /\ name' = [name EXCEPT ![d] = "complete"]
      /\ files' = files /\ lockFile' = lockFile /\ stale' = stale
      /\ Goto(p, "published")
  BY StateType DEF InductiveInvariant, ProcessShape, Shape, Staging, Process,
                   PublishRename, PathResolves, At, StagingKeptWhileWritten
<1>2. /\ \A q \in Procs : q # p => proc'[q] = proc[q]
      /\ proc'[p].pc = "published" /\ proc'[p].job = proc[p].job
      /\ proc'[p].dump = proc[p].dump /\ proc'[p].path = proc[p].path
      /\ proc'[p].fd = proc[p].fd /\ proc'[p].held = proc[p].held
      /\ proc'[p].plan = proc[p].plan
  BY <1>1, GotoEffect DEF OthersKept, Label
<1>3. /\ name'[d] = "complete"
      /\ \A e \in Dumps : e # d => name'[e] = name[e]
  BY <1>1 DEF TypeOK
<1>4. TypeOK'
  BY <1>1, GotoType DEF TypeOK, Label, Name
<1>5. Shape(proc'[p])
  BY <1>1, <1>2 DEF Shape, Staging, Leasing, Cleaning, Removing
<1>6. ProcessShape'
  BY <1>1, <1>2, <1>5, ShapeStep DEF OthersKept
<1>7. \A q \in Procs : /\ proc'[q].dump = proc[q].dump
                       /\ proc'[q].job = proc[q].job
                       /\ proc'[q].fd = proc[q].fd
                       /\ proc'[q].held = proc[q].held
                       /\ proc'[q].plan = proc[q].plan
  BY <1>2
<1>8. \A q \in Procs : q # p /\ proc[q].dump = d => proc[q].job # "dump"
  BY <1>1 DEF InductiveInvariant, OneOwner, Owner
<1>9. \A q \in Procs :
        q # p /\ proc[q].dump = d =>
          proc[q].pc \notin Staging \cup Removing \cup {"isolated"}
  BY <1>1, <1>8 DEF InductiveInvariant, ProcessShape, Shape, RemovalIsolated
<1>10. \A q \in Procs :
         q # p /\ proc[q].pc \notin {"idle", "visiting"} => proc[q].dump \in Dumps
  BY <1>1, StateType DEF ProcessShape, Shape, Process
<1>11. LockExclusion'
  BY <1>7, SameLocks DEF InductiveInvariant
<1>12. OneOwner'
  <2>1. \A e \in Dumps : name[e] # "unused" => name'[e] # "unused"
    BY <1>3
  <2> QED
    BY <1>1, <1>7, <2>1, SameOwners DEF InductiveInvariant
<1>13. RemovalIsolated'
  BY <1>2, <1>3, <1>9, <1>10 DEF InductiveInvariant, RemovalIsolated, Removing
<1>14. OneLockFile'
  <2>1. LockFileFixed(d)
    BY <1>1 DEF LockFileFixed, Owner, Staging
  <2>2. \A e \in Dumps : LockFileFixed(e)' => LockFileFixed(e)
    BY <1>2, <1>3, <1>7, <2>1, ZenonT(60) DEF LockFileFixed, Owner, Staging
  <2> QED
    BY <1>1, <1>7, <2>2 DEF InductiveInvariant, OneLockFile
<1>15. StagingFresh'
  <2>1. ASSUME NEW q \in Procs, q # p, proc[q].pc \in Staging
        PROVE  name'[proc[q].dump] = name[proc[q].dump]
    BY <1>3, <1>9, <1>10, <2>1 DEF Staging
  <2>2. ASSUME NEW q \in Procs, q # p
        PROVE  /\ proc'[q].pc \in Staging => name'[proc'[q].dump] # "complete"
               /\ proc'[q].pc \in {"created", "begin opened", "staged"} =>
                    (name'[proc'[q].dump] = "part" => files'[proc'[q].dump] = {})
    <3>1. proc'[q] = proc[q] /\ files' = files
      BY <1>1, <1>2, <2>2
    <3>2. proc[q].pc \in Staging => name'[proc[q].dump] = name[proc[q].dump]
      BY <2>1, <2>2
    <3> QED
      BY <3>1, <3>2 DEF InductiveInvariant, StagingFresh, Staging
  <2> QED
    BY <1>2, <2>2 DEF StagingFresh, Staging
<1>16. StagingKeptWhileWritten'
  <2>1. ASSUME NEW q \in Procs, q # p,
               proc[q].pc \in {"writing", "written", "described"}
        PROVE  name'[proc[q].dump] = name[proc[q].dump]
    BY <1>3, <1>9, <1>10, <2>1 DEF Staging
  <2> QED
    BY <1>1, <1>2, <2>1, SameWriters DEF InductiveInvariant
<1>17. PublishedIsWhole' /\ UnusedEmpty'
  BY <1>1, <1>3 DEF InductiveInvariant, PublishedIsWhole, UnusedEmpty
<1>18. LeasedArtifactIntact'
  BY <1>1, <1>2, <1>3, <1>10 DEF InductiveInvariant, LeasedArtifactIntact, At
<1> QED
  BY <1>4, <1>6, <1>11, <1>12, <1>13, <1>14, <1>15, <1>16, <1>17, <1>18
     DEF InductiveInvariant

(* The rename of a cleaner takes a dump from nobody. *)
LEMMA IsolateRenameStep ==
  ASSUME InductiveInvariant, NEW p \in Procs, IsolateRename(p)
  PROVE  InductiveInvariant'
<1> DEFINE d == proc[p].dump
           n == DeletionName(proc[p].path)
           s == [proc[p] EXCEPT !.pc = "isolated", !.path = n]
<1>1. /\ TypeOK /\ ProcessShape /\ Shape(proc[p]) /\ proc[p] \in Process
      /\ proc[p].pc = "isolate locked" /\ proc[p].job # "dump" /\ d \in Dumps
      /\ proc[p].path \in {"part", "complete", "deleting"}
      /\ proc[p].held = "exclusive" /\ proc[p].fd # 0
      /\ files' = files /\ lockFile' = lockFile /\ stale' = stale
  BY StateType DEF InductiveInvariant, ProcessShape, Shape, Process, Staging,
                   Cleaning, Removing, IsolateRename, At
<1>2. CASE NextEntry(p) /\ UNCHANGED name
  BY <1>1, <1>2, NextEntryStep DEF dirVars, Leasing
<1>3. CASE /\ name[d] = proc[p].path /\ name' = [name EXCEPT ![d] = n]
           /\ Become(p, s)
  <2>1. n \in {"deleting", "redeleting"}
    BY DEF DeletionName
  <2>2. s \in Process
    BY <1>1, <2>1 DEF Process, Label, Name
  <2>3. /\ s.pc = "isolated" /\ s.path = n /\ s.job = proc[p].job
        /\ s.dump = proc[p].dump /\ s.fd = proc[p].fd /\ s.held = proc[p].held
        /\ s.plan = proc[p].plan
    BY <1>1 DEF Process
  <2>4. /\ name'[d] \in {"deleting", "redeleting"}
        /\ \A e \in Dumps : e # d => name'[e] = name[e]
        /\ name' \in [Dumps -> Name]
    BY <1>1, <1>3, <2>1 DEF TypeOK, Name
  <2>5. /\ proc'[p] = s /\ \A q \in Procs : q # p => proc'[q] = proc[q]
        /\ proc' \in [Procs -> Process]
    BY <1>1, <1>3, <2>2, BecomeStep, BecomeType DEF OthersKept
  <2> HIDE DEF s, n
  <2>6. TypeOK'
    BY <1>1, <2>4, <2>5 DEF TypeOK
  <2>7. Shape(s)
    BY <1>1, <2>1, <2>3 DEF Shape, Staging, Leasing, Cleaning, Removing
  <2>8. ProcessShape'
    BY <1>1, <2>5, <2>7, ShapeStep DEF OthersKept
  <2>9. \A q \in Procs : /\ proc'[q].dump = proc[q].dump
                         /\ proc'[q].job = proc[q].job
                         /\ proc'[q].fd = proc[q].fd
                         /\ proc'[q].held = proc[q].held
                         /\ proc'[q].plan = proc[q].plan
    BY <2>3, <2>5
  <2>10. \A q \in Procs :
           q # p /\ proc[q].pc \notin {"idle", "visiting"} => proc[q].dump \in Dumps
    BY <1>1, StateType DEF ProcessShape, Shape, Process
  (* The lock of p keeps every user of the directory away. *)
  <2>11. ASSUME NEW q \in Procs, q # p, proc[q].dump = d, LockFileFixed(d)
         PROVE  proc[q].held = "none"
    <3>1. proc[q].held # "none" => proc[q].fd # 0
      BY <1>1 DEF ProcessShape, Shape
    <3>2. proc[q].fd \in {0, lockFile[d]} /\ proc[p].fd = lockFile[d]
      BY <1>1, <2>11 DEF InductiveInvariant, OneLockFile
    <3> QED
      BY <1>1, <2>11, <3>1, <3>2 DEF InductiveInvariant, LockExclusion, SameLockFile
  <2>12. ASSUME NEW q \in Procs, q # p, proc[q].dump = d
         PROVE  proc[q].pc \notin {"writing", "written", "described", "leased"}
    <3>1. CASE proc[q].pc \in {"writing", "written", "described"}
      <4>1. name[d] = "part" /\ proc[q].job = "dump" /\ proc[q].held = "exclusive"
        BY <1>1, <2>12, <3>1, ZenonT(60) DEF InductiveInvariant, StagingKeptWhileWritten, At,
                                 ProcessShape, Shape, Staging
      <4>2. LockFileFixed(d)
        BY <2>12, <3>1, <4>1 DEF LockFileFixed, Owner, Staging
      <4> QED
        BY <2>11, <2>12, <4>1, <4>2
    <3>2. CASE proc[q].pc = "leased"
      <4>1. name[d] = "complete" /\ proc[q].held = "shared"
        BY <1>1, <2>12, <3>2, ZenonT(60) DEF InductiveInvariant, LeasedArtifactIntact, At,
                                 ProcessShape, Shape
      <4>2. LockFileFixed(d)
        BY <4>1 DEF LockFileFixed
      <4> QED
        BY <2>11, <2>12, <4>1, <4>2
    <3> QED
      BY <3>1, <3>2
  <2>13. LockExclusion' /\ OneOwner' /\ OneLockFile'
    <3>1. \A e \in Dumps : name[e] # "unused" => name'[e] # "unused"
      BY <2>4
    <3>2. \A q \in Procs : proc'[q].pc \in Staging => proc[q].pc \in Staging
      BY <2>3, <2>5 DEF Staging
    <3>3. \A e \in Dumps : LockFileFixed(e)' => LockFileFixed(e)
      BY <2>4, <2>9, <3>2 DEF LockFileFixed, Owner
    <3> QED
      BY <1>1, <2>9, <3>1, <3>3, SameLocks, SameOwners, SameLockFiles
         DEF InductiveInvariant
  <2>14. RemovalIsolated'
    BY <2>3, <2>4, <2>5, <2>10 DEF InductiveInvariant, RemovalIsolated, Removing
  <2>15. StagingFresh'
    <3>1. ASSUME NEW q \in Procs, q # p
          PROVE  /\ proc'[q].pc \in Staging => name'[proc'[q].dump] # "complete"
                 /\ proc'[q].pc \in {"created", "begin opened", "staged"} =>
                      (name'[proc'[q].dump] = "part" => files'[proc'[q].dump] = {})
      BY <1>1, <2>4, <2>5, <2>10, <3>1, ZenonT(60) DEF InductiveInvariant, StagingFresh, Staging
    <3> QED
      BY <2>3, <2>5, <3>1 DEF StagingFresh, Staging
  <2>16. ASSUME NEW q \in Procs,
                proc'[q].pc \in {"writing", "written", "described", "leased"}
         PROVE  /\ proc'[q] = proc[q]
                /\ name'[proc[q].dump] = name[proc[q].dump]
    BY <2>3, <2>4, <2>5, <2>10, <2>12, <2>16
  <2>17. StagingKeptWhileWritten' /\ LeasedArtifactIntact'
    BY <1>1, <2>16, SameWriters, SameReaders DEF InductiveInvariant
  <2>18. PublishedIsWhole' /\ UnusedEmpty'
    BY <1>1, <2>4 DEF InductiveInvariant, PublishedIsWhole, UnusedEmpty
  <2> QED
    BY <2>6, <2>8, <2>13, <2>14, <2>15, <2>17, <2>18 DEF InductiveInvariant
<1> QED
  BY <1>2, <1>3 DEF IsolateRename, PathResolves

(* remove_dir_all unlinks only what nobody uses. *)
LEMMA UnlinkEntryStep ==
  ASSUME InductiveInvariant, NEW p \in Procs, UnlinkEntry(p)
  PROVE  InductiveInvariant'
<1> DEFINE d == proc[p].dump
<1>1. /\ TypeOK /\ ProcessShape /\ Shape(proc[p]) /\ d \in Dumps
      /\ proc[p].pc = "unlinking"
      /\ name' = name /\ stale' = stale /\ proc' = proc
  BY StateType DEF InductiveInvariant, ProcessShape, Shape, Process, UnlinkEntry, At
<1>2. /\ files' \in [Dumps -> SUBSET File]
      /\ lockFile' \in [Dumps -> Inodes \cup {0}]
      /\ files'[d] \subseteq files[d]
      /\ \A e \in Dumps : e # d => files'[e] = files[e] /\ lockFile'[e] = lockFile[e]
  BY <1>1 DEF UnlinkEntry, TypeOK
<1>3. TypeOK'
  BY <1>1, <1>2 DEF TypeOK
<1>4. \/ name[d] \in {"deleting", "redeleting", "removed"}
      \/ name[d] = "part" /\ proc[p].job = "dump"
  <2>1. name[d] \in {"deleting", "redeleting", "removed"} \cup
                    (IF proc[p].job = "dump" THEN {"part"} ELSE {})
    BY <1>1 DEF InductiveInvariant, RemovalIsolated, Removing
  <2> QED
    BY <2>1
<1>5. ASSUME NEW q \in Procs, proc[q].dump = d, name[d] = "part"
      PROVE  proc[q].pc \notin Staging
  <2>1. Owner(p, d)
    BY <1>4, <1>5 DEF Owner
  <2>2. Owner(q, d) => q = p
    BY <1>1, <2>1 DEF InductiveInvariant, OneOwner
  <2>3. proc[q].pc \in Staging => proc[q].job = "dump"
    BY <1>1 DEF ProcessShape, Shape
  <2> QED
    BY <1>1, <1>5, <2>2, <2>3 DEF Owner, Staging
<1>6. ~LockFileFixed(d)
  BY <1>4, <1>5 DEF LockFileFixed, Owner
<1>7. ProcessShape' /\ LockExclusion' /\ OneOwner' /\ RemovalIsolated'
  BY <1>1 DEF InductiveInvariant, ProcessShape, LockExclusion, SameLockFile,
              OneOwner, Owner, RemovalIsolated
<1>8. OneLockFile'
  <2>1. \A e \in Dumps : LockFileFixed(e)' => LockFileFixed(e) /\ e # d
    BY <1>1, <1>6 DEF LockFileFixed, Owner
  <2> QED
    BY <1>1, <1>2, <2>1 DEF InductiveInvariant, OneLockFile
<1>9. \A q \in Procs : proc[q].pc \notin {"idle", "visiting"} => proc[q].dump \in Dumps
  BY <1>1, StateType DEF ProcessShape, Shape, Process
<1>10. StagingFresh'
  <2>1. ASSUME NEW q \in Procs, proc[q].pc \in Staging, name[proc[q].dump] = "part"
        PROVE  files'[proc[q].dump] = files[proc[q].dump]
    BY <1>2, <1>5, <1>9, <2>1 DEF Staging
  <2> QED
    BY <1>1, <2>1 DEF InductiveInvariant, StagingFresh, Staging
<1>11. StagingKeptWhileWritten'
  <2>1. ASSUME NEW q \in Procs, proc[q].pc \in {"writing", "written", "described"}
        PROVE  files'[proc[q].dump] = files[proc[q].dump]
    <3>1. name[proc[q].dump] = "part"
      BY <2>1 DEF InductiveInvariant, StagingKeptWhileWritten, At
    <3> QED
      BY <1>2, <1>5, <1>9, <2>1, <3>1 DEF Staging
  <2> QED
    BY <1>1, <2>1 DEF InductiveInvariant, StagingKeptWhileWritten, At
<1>12. PublishedIsWhole' /\ UnusedEmpty'
  BY <1>1, <1>2, <1>4 DEF InductiveInvariant, PublishedIsWhole, UnusedEmpty
<1>13. LeasedArtifactIntact'
  <2>1. ASSUME NEW q \in Procs, proc[q].pc = "leased"
        PROVE  files'[proc[q].dump] = files[proc[q].dump]
    <3>1. name[proc[q].dump] = "complete"
      BY <2>1 DEF InductiveInvariant, LeasedArtifactIntact, At
    <3> QED
      BY <1>2, <1>4, <1>9, <2>1, <3>1
  <2> QED
    BY <1>1, <2>1 DEF InductiveInvariant, LeasedArtifactIntact, At
<1> QED
  BY <1>3, <1>7, <1>8, <1>10, <1>11, <1>12, <1>13 DEF InductiveInvariant

(* The rmdir of remove_dir_all keeps the invariant. *)
LEMMA RemoveDirStep ==
  ASSUME InductiveInvariant, NEW p \in Procs, RemoveDir(p)
  PROVE  InductiveInvariant'
<1> DEFINE d == proc[p].dump
<1>1. /\ TypeOK /\ ProcessShape /\ Shape(proc[p]) /\ proc[p] \in Process
      /\ d \in Dumps /\ proc[p].pc = "emptied"
      /\ files' = files /\ lockFile' = lockFile /\ stale' = stale
  BY StateType DEF InductiveInvariant, ProcessShape, Shape, Process, RemoveDir, At
<1>2. \/ Stop(p)
      \/ proc[p].job # "dump" /\ NextEntry(p)
  BY DEF RemoveDir
<1>3. CASE UNCHANGED name
  BY <1>1, <1>2, <1>3, StopStep, NextEntryStep DEF dirVars, Leasing
<1>4. CASE name[d] = proc[p].path /\ name' = [name EXCEPT ![d] = "removed"]
  <2>1. /\ name'[d] = "removed" /\ name' \in [Dumps -> Name]
        /\ \A e \in Dumps : e # d => name'[e] = name[e]
    BY <1>1, <1>4 DEF TypeOK, Name
  <2>2. proc' \in [Procs -> Process] /\ OthersKept(p)
    <3>1. [proc[p] EXCEPT !.pc = "visiting", !.fd = 0, !.held = "none",
                          !.dump = NoDump, !.path = "unused"] \in Process
      BY <1>1 DEF Process, Label, Name
    <3> QED
      BY <1>1, <1>2, <3>1, StopType, NextEntryType, BecomeStep, IdleProcessType
         DEF Stop, NextEntry
  <2>3. /\ proc'[p].pc \in {"idle", "visiting"} /\ proc'[p].dump = NoDump
        /\ proc'[p].fd = 0 /\ proc'[p].held = "none" /\ proc'[p].job # "dump"
        /\ proc'[p].plan \subseteq proc[p].plan
        /\ proc'[p].job \in {"none", "read"} => proc'[p].pc = "idle"
        /\ proc'[p].job = "sweep" => proc[p].job = "sweep" /\ proc'[p].path = "unused"
    <3>1. CASE Stop(p)
      <4>1. proc'[p] = IdleProcess
        BY <1>1, <3>1, BecomeStep, IdleProcessType DEF Stop
      <4> QED
        BY <4>1 DEF IdleProcess
    <3>2. CASE proc[p].job # "dump" /\ NextEntry(p)
      <4> DEFINE s == [proc[p] EXCEPT !.pc = "visiting", !.fd = 0, !.held = "none",
                                      !.dump = NoDump, !.path = "unused"]
      <4>1. s \in Process
        BY <1>1 DEF Process, Label, Name
      <4>2. proc'[p] = s
        BY <1>1, <3>2, <4>1, BecomeStep DEF NextEntry
      <4>3. /\ s.pc = "visiting" /\ s.dump = NoDump /\ s.fd = 0 /\ s.held = "none"
            /\ s.job = proc[p].job /\ s.plan = proc[p].plan /\ s.path = "unused"
        BY <1>1 DEF Process
      <4>4. proc[p].job \notin {"none", "read"}
        BY <1>1 DEF Shape, Leasing
      <4> HIDE DEF s
      <4> QED
        BY <3>2, <4>2, <4>3, <4>4
    <3> QED
      BY <1>2, <3>1, <3>2
  <2>4. TypeOK'
    BY <1>1, <2>1, <2>2 DEF TypeOK
  <2>5. \A q \in Procs : q # p => proc'[q] = proc[q]
    BY <2>2 DEF OthersKept
  <2>6. Shape(proc'[p])
    <3>1. /\ \A e \in proc'[p].plan : e[2] \in {"part", "complete", "deleting"}
          /\ proc'[p].job = "sweep" => \A e \in proc'[p].plan : e[2] # "complete"
      BY <1>1, <2>3 DEF Shape
    <3> QED
      BY <2>3, <3>1 DEF Shape, Staging, Leasing, Cleaning, Removing
  <2>7. ProcessShape'
    BY <1>1, <2>2, <2>6, ShapeStep
  <2>8. \A q \in Procs :
          q # p /\ proc[q].pc \notin {"idle", "visiting"} => proc[q].dump \in Dumps
    BY <1>1, StateType DEF ProcessShape, Shape, Process
  <2>9. /\ name[d] \in {"part", "deleting", "redeleting"}
        /\ name[d] = "part" => proc[p].job = "dump"
    BY <1>1, <1>4 DEF Shape, Removing
  <2>10. ASSUME NEW q \in Procs, q # p, proc[q].dump = d, name[d] = "part"
         PROVE  proc[q].pc \notin Staging
    <3>1. Owner(p, d)
      BY <2>9, <2>10 DEF Owner
    <3>2. ~Owner(q, d)
      BY <1>1, <2>10, <3>1 DEF InductiveInvariant, OneOwner
    <3> QED
      BY <1>1, <2>10, <3>2 DEF ProcessShape, Shape, Owner
  <2>11. LockExclusion'
    BY <2>3, <2>5 DEF InductiveInvariant, LockExclusion, SameLockFile
  <2>12. OneOwner'
    <3>1. \A q, r \in Procs, e \in Dumps : Owner(q, e)' /\ Owner(r, e)' => q = r
      BY <2>3, <2>5 DEF InductiveInvariant, OneOwner, Owner
    <3>2. \A e \in Dumps : name[e] # "unused" => name'[e] # "unused"
      BY <2>1
    <3>3. \A q \in Procs : \A e \in proc[q].plan : e[1] \in Dumps /\ name[e[1]] # "unused"
      BY <1>1, StateType DEF InductiveInvariant, OneOwner, Process
    <3>4. \A q \in Procs, e \in Dumps : proc'[q].dump = e => name'[e] # "unused"
      BY <2>3, <2>5, <3>2, NoDumpAssumption DEF InductiveInvariant, OneOwner
    <3>5. \A q \in Procs : \A e \in proc'[q].plan : name'[e[1]] # "unused"
      BY <2>3, <2>5, <3>2, <3>3
    <3> QED
      BY <3>1, <3>4, <3>5 DEF OneOwner
  <2>13. RemovalIsolated'
    BY <2>1, <2>3, <2>5, <2>8 DEF InductiveInvariant, RemovalIsolated, Removing
  <2>14. OneLockFile'
    <3>1. \A e \in Dumps : LockFileFixed(e)' => LockFileFixed(e) /\ e # d
      BY <2>1, <2>3, <2>5 DEF LockFileFixed, Owner, Staging
    <3>2. \A q \in Procs, e \in Dumps :
            proc'[q].dump = e => proc[q].dump = e /\ proc'[q].fd = proc[q].fd
      BY <2>3, <2>5, NoDumpAssumption
    <3> QED
      BY <1>1, <3>1, <3>2 DEF InductiveInvariant, OneLockFile
  <2>15. ASSUME NEW q \in Procs, q # p, proc[q].pc \in Staging
         PROVE  \/ name'[proc[q].dump] = name[proc[q].dump]
                \/ name'[proc[q].dump] = "removed" /\ name[proc[q].dump] # "part"
    BY <2>1, <2>8, <2>10, <2>15 DEF Staging
  <2>16. StagingFresh'
    <3>1. ASSUME NEW q \in Procs, q # p
          PROVE  /\ proc'[q].pc \in Staging => name'[proc'[q].dump] # "complete"
                 /\ proc'[q].pc \in {"created", "begin opened", "staged"} =>
                      (name'[proc'[q].dump] = "part" => files'[proc'[q].dump] = {})
      <4>1. proc'[q] = proc[q] /\ files' = files
        BY <1>1, <2>5, <3>1
      <4> QED
        BY <2>15, <3>1, <4>1 DEF InductiveInvariant, StagingFresh, Staging
    <3> QED
      BY <2>3, <3>1 DEF StagingFresh, Staging
  <2>17. ASSUME NEW q \in Procs,
                proc'[q].pc \in {"writing", "written", "described", "leased"}
         PROVE  /\ proc'[q] = proc[q]
                /\ name'[proc[q].dump] = name[proc[q].dump]
    <3>1. q # p /\ proc'[q] = proc[q]
      BY <2>3, <2>5, <2>17
    <3>2. proc[q].pc = "leased" => proc[q].dump # d
      BY <2>9 DEF InductiveInvariant, LeasedArtifactIntact, At
    <3>3. proc[q].pc \in {"writing", "written", "described"} => proc[q].dump # d
      BY <2>10, <3>1 DEF InductiveInvariant, StagingKeptWhileWritten, At, Staging
    <3> QED
      BY <2>1, <2>8, <2>17, <3>1, <3>2, <3>3
  <2>18. StagingKeptWhileWritten' /\ LeasedArtifactIntact'
    BY <1>1, <2>17, SameWriters, SameReaders DEF InductiveInvariant
  <2>19. PublishedIsWhole' /\ UnusedEmpty'
    BY <1>1, <2>1 DEF InductiveInvariant, PublishedIsWhole, UnusedEmpty
  <2> QED
    BY <2>4, <2>7, <2>11, <2>12, <2>13, <2>14, <2>16, <2>18, <2>19
       DEF InductiveInvariant
<1> QED
  BY <1>3, <1>4 DEF RemoveDir, PathResolves

(* The passing of the TTL keeps the invariant. *)
LEMMA AgeStep ==
  ASSUME InductiveInvariant, NEW d \in Dumps, Age(d)
  PROVE  InductiveInvariant'
<1>1. /\ TypeOK /\ stale' \in [Dumps -> BOOLEAN]
      /\ name' = name /\ files' = files /\ lockFile' = lockFile /\ proc' = proc
  BY DEF InductiveInvariant, Age, TypeOK
<1>2. TypeOK'
  BY <1>1 DEF TypeOK
<1>3. ProcessShape' /\ LockExclusion' /\ OneOwner' /\ RemovalIsolated'
  BY <1>1 DEF InductiveInvariant, ProcessShape, LockExclusion, SameLockFile,
              OneOwner, Owner, RemovalIsolated
<1>4. OneLockFile' /\ StagingFresh' /\ UnusedEmpty'
  BY <1>1 DEF InductiveInvariant, OneLockFile, LockFileFixed, Owner,
              StagingFresh, UnusedEmpty
<1>5. StagingKeptWhileWritten' /\ PublishedIsWhole' /\ LeasedArtifactIntact'
  BY <1>1 DEF InductiveInvariant, StagingKeptWhileWritten, PublishedIsWhole,
              LeasedArtifactIntact, At
<1> QED
  BY <1>2, <1>3, <1>4, <1>5 DEF InductiveInvariant

-----------------------------------------------------------------------------
(* The steps of a dump keep the invariant. *)
LEMMA DumpStepKeeps ==
  ASSUME InductiveInvariant, NEW p \in Procs, DumpStep(p)
  PROVE  InductiveInvariant'
<1> DEFINE d == proc[p].dump
<1>1. TypeOK /\ ProcessShape /\ Shape(proc[p])
  BY DEF InductiveInvariant, ProcessShape
<1>2. CASE BeginOpenLock(p)
  BY <1>2, OpenLockFileStep, DiscardStep DEF BeginOpenLock, At, Staging
<1>3. CASE BeginTryLock(p)
  BY <1>3, TryLockStep, DiscardStep DEF BeginTryLock, At, Staging
<1>4. CASE CreateDumpWriter(p)
  <2>1. CASE Discard(p)
    BY <1>4, <2>1, DiscardStep DEF CreateDumpWriter, At, Staging
  <2>2. CASE ~Discard(p)
    <3>1. /\ proc[p].pc = "staged" /\ d \in Dumps /\ PathResolves(p)
          /\ files' = [files EXCEPT ![d] = @ \cup {"partial dump"}]
          /\ stale' = [stale EXCEPT ![d] = FALSE] /\ Goto(p, "writing")
          /\ name' = name /\ lockFile' = lockFile
      BY <1>1, <1>4, <2>2, BusyDump DEF CreateDumpWriter, At
    <3>2. name[d] = "part" /\ files[d] = {}
      BY <1>1, <3>1 DEF InductiveInvariant, StagingFresh, PathResolves, Shape, Staging
    <3>3. /\ files' \in [Dumps -> SUBSET File] /\ files'[d] = {"partial dump"}
          /\ \A e \in Dumps : e # d => files'[e] = files[e]
          /\ stale' \in [Dumps -> BOOLEAN]
      BY <1>1, <3>1, <3>2 DEF TypeOK, File
    <3> QED
      BY <3>1, <3>2, <3>3, WriteStep DEF File
  <2> QED
    BY <2>1, <2>2
<1>5. CASE FinishDump(p)
  <2> DEFINE F == {IF f = "partial dump" THEN "dump" ELSE f : f \in files[d]}
  <2>1. /\ proc[p].pc = "writing" /\ d \in Dumps
        /\ files' = [files EXCEPT ![d] = F]
        /\ Goto(p, "written") /\ name' = name /\ lockFile' = lockFile
        /\ stale' = stale
    BY <1>1, <1>5, BusyDump DEF FinishDump, At
  <2>2. name[d] = "part" /\ F = {"dump"}
    BY <2>1 DEF InductiveInvariant, StagingKeptWhileWritten, At
  <2> HIDE DEF F
  <2>3. /\ files' \in [Dumps -> SUBSET File] /\ files'[d] = {"dump"}
        /\ \A e \in Dumps : e # d => files'[e] = files[e]
        /\ stale' \in [Dumps -> BOOLEAN]
    BY <1>1, <2>1, <2>2 DEF TypeOK, File
  <2> QED
    BY <2>1, <2>2, <2>3, WriteStep DEF File
<1>6. CASE DumpFails(p)
  BY <1>6, DiscardStep DEF DumpFails, Staging
<1>7. CASE WriteMetadata(p)
  <2>1. /\ proc[p].pc = "written" /\ d \in Dumps
        /\ files' = [files EXCEPT ![d] = @ \cup {"metadata"}]
        /\ Goto(p, "described") /\ name' = name /\ lockFile' = lockFile
        /\ stale' = [stale EXCEPT ![d] = FALSE]
    BY <1>1, <1>7, BusyDump DEF WriteMetadata, At
  <2>2. name[d] = "part" /\ files[d] = {"dump"}
    BY <2>1 DEF InductiveInvariant, StagingKeptWhileWritten, At
  <2>3. /\ files' \in [Dumps -> SUBSET File] /\ files'[d] = {"dump", "metadata"}
        /\ \A e \in Dumps : e # d => files'[e] = files[e]
        /\ stale' \in [Dumps -> BOOLEAN]
    BY <1>1, <2>1, <2>2 DEF TypeOK, File
  <2> QED
    BY <2>1, <2>2, <2>3, WriteStep DEF File
<1>8. CASE PublishRename(p)
  BY <1>8, PublishRenameStep
<1>9. CASE PublishUnlock(p)
  BY <1>9, StopStep DEF PublishUnlock
<1> QED
  BY <1>2, <1>3, <1>4, <1>5, <1>6, <1>7, <1>8, <1>9 DEF DumpStep

(* The steps of a reader keep the invariant. *)
LEMMA ReadStepKeeps ==
  ASSUME InductiveInvariant, NEW p \in Procs, ReadStep(p)
  PROVE  InductiveInvariant'
<1>1. TypeOK /\ ProcessShape /\ Shape(proc[p])
  BY DEF InductiveInvariant, ProcessShape
<1>2. CASE LeaseOpen(p)
  BY <1>2, OpenLockFileStep, StopStep DEF LeaseOpen, At
<1>3. CASE LeaseTryLock(p)
  BY <1>3, TryLockStep, StopStep DEF LeaseTryLock, At
<1>4. CASE ValidateArtifact(p)
  <2>1. CASE Stop(p)
    BY <1>4, <2>1, StopStep DEF ValidateArtifact
  <2>2. CASE Readable(p) /\ Goto(p, "leased")
    <3>1. /\ OthersKept(p) /\ proc'[p].pc = "leased" /\ proc'[p].job = proc[p].job
          /\ proc'[p].dump = proc[p].dump /\ proc'[p].path = proc[p].path
          /\ proc'[p].fd = proc[p].fd /\ proc'[p].held = proc[p].held
          /\ proc'[p].plan = proc[p].plan
      BY <1>1, <2>2, GotoEffect DEF Label
    <3>2. proc[p].pc = "lease held" /\ UNCHANGED dirVars
      BY <1>4 DEF ValidateArtifact, At
    <3>3. TypeOK'
      BY <1>1, <2>2, <3>2, GotoType DEF TypeOK, dirVars, Label
    <3>4. Shape(proc'[p])
      BY <1>1, <3>1, <3>2 DEF Shape, Staging, Leasing, Cleaning, Removing
    <3>5. ProcessShape'
      BY <1>1, <3>1, <3>4, ShapeStep
    <3>6. /\ name[proc[p].dump] = "complete"
          /\ {"dump", "metadata"} \subseteq files[proc[p].dump]
      BY <1>1, <2>2, <3>2 DEF Readable, PathResolves, Shape, Leasing
    <3>7. Quiet(p)
      BY <1>1, <3>1, <3>2, <3>6
         DEF Quiet, SamePlace, Shape, Owner, Fresh, Staging, Removing
    <3> QED
      BY <3>3, <3>5, <3>7, QuietStep
  <2> QED
    BY <1>4, <2>1, <2>2 DEF ValidateArtifact
<1>5. CASE ReleaseLease(p)
  BY <1>5, StopStep DEF ReleaseLease
<1> QED
  BY <1>2, <1>3, <1>4, <1>5 DEF ReadStep

(* The steps of a cleaner keep the invariant. *)
LEMMA CleanStepKeeps ==
  ASSUME InductiveInvariant, NEW p \in Procs, CleanStep(p)
  PROVE  InductiveInvariant'
<1>1. Shape(proc[p])
  BY DEF InductiveInvariant, ProcessShape
<1>2. CASE \E d \in Dumps, n \in Name : Visit(p, d, n)
  BY <1>2, VisitStep
<1>3. CASE FinishVisits(p)
  BY <1>3, StopStep DEF FinishVisits
<1>4. CASE IsolateOpen(p)
  <2>1. proc[p].pc = "isolating" /\ proc[p].job # "dump"
    BY <1>1, <1>4 DEF IsolateOpen, At, Shape, Staging, Removing
  <2> QED
    BY <1>4, <2>1, OpenLockFileStep, NextEntryStep DEF IsolateOpen, Leasing
<1>5. CASE IsolateTryLock(p)
  <2>1. proc[p].pc = "isolate opened" /\ proc[p].job # "dump"
    BY <1>1, <1>5 DEF IsolateTryLock, At, Shape, Staging, Removing
  <2> QED
    BY <1>5, <2>1, TryLockStep, NextEntryStep DEF IsolateTryLock, Leasing
<1>6. CASE IsolateRename(p)
  BY <1>6, IsolateRenameStep
<1>7. CASE IsolateUnlock(p)
  BY <1>7, DiscardStep DEF IsolateUnlock, At
<1> QED
  BY <1>2, <1>3, <1>4, <1>5, <1>6, <1>7 DEF CleanStep

(* remove_dir_all opens its directory, or has emptied it. *)
LEMMA AdvanceStep ==
  ASSUME InductiveInvariant, NEW p \in Procs, NEW label, UNCHANGED dirVars,
         \/ proc[p].pc = "removing" /\ label = "unlinking"
         \/ proc[p].pc = "unlinking" /\ label = "emptied",
         Goto(p, label)
  PROVE  InductiveInvariant'
<1>1. TypeOK /\ ProcessShape /\ Shape(proc[p]) /\ label \in Label
  BY DEF InductiveInvariant, ProcessShape, Label
<1>2. /\ OthersKept(p) /\ proc'[p].pc = label /\ proc'[p].job = proc[p].job
      /\ proc'[p].dump = proc[p].dump /\ proc'[p].path = proc[p].path
      /\ proc'[p].fd = proc[p].fd /\ proc'[p].held = proc[p].held
      /\ proc'[p].plan = proc[p].plan
  BY <1>1, GotoEffect
<1>3. TypeOK'
  BY <1>1, GotoType DEF TypeOK, dirVars
<1>4. Shape(proc'[p])
  BY <1>1, <1>2 DEF Shape, Staging, Leasing, Cleaning, Removing
<1>5. ProcessShape'
  BY <1>1, <1>2, <1>4, ShapeStep
<1>6. name[proc[p].dump] \in {"deleting", "redeleting", "removed"} \cup
                             (IF proc[p].job = "dump" THEN {"part"} ELSE {})
  BY DEF InductiveInvariant, RemovalIsolated, Removing
<1>7. Quiet(p)
  BY <1>1, <1>2, <1>6 DEF Quiet, SamePlace, Owner, Fresh, Staging, Removing
<1> QED
  BY <1>3, <1>5, <1>7, QuietStep

(* The steps of remove_dir_all keep the invariant. *)
LEMMA RemoveStepKeeps ==
  ASSUME InductiveInvariant, NEW p \in Procs, RemoveStep(p)
  PROVE  InductiveInvariant'
<1>1. CASE RemoveDirOpen(p)
  BY <1>1, AdvanceStep, StopStep DEF RemoveDirOpen, At
<1>2. CASE UnlinkEntry(p)
  BY <1>2, UnlinkEntryStep
<1>3. CASE LastEntryUnlinked(p)
  BY <1>3, AdvanceStep DEF LastEntryUnlinked, At
<1>4. CASE RemoveDir(p)
  BY <1>4, RemoveDirStep
<1> QED
  BY <1>1, <1>2, <1>3, <1>4 DEF RemoveStep

(* An empty cache satisfies the invariant. *)
LEMMA InitInvariant == Init => InductiveInvariant
<1> SUFFICES ASSUME Init
             PROVE  InductiveInvariant
  OBVIOUS
<1>1. \A p \in Procs : proc[p] = IdleProcess
  BY DEF Init
<1>2. TypeOK
  BY IdleProcessType DEF Init, TypeOK, Name
<1>3. \A p \in Procs : /\ proc[p].pc = "idle" /\ proc[p].job = "none"
                       /\ proc[p].dump = NoDump /\ proc[p].fd = 0
                       /\ proc[p].held = "none" /\ proc[p].plan = {}
  BY <1>1 DEF IdleProcess
<1>4. ProcessShape
  BY <1>3 DEF ProcessShape, Shape, Staging, Leasing, Cleaning, Removing
<1>5. LockExclusion /\ OneOwner /\ RemovalIsolated /\ OneLockFile
  BY <1>3, NoDumpAssumption DEF LockExclusion, OneOwner, Owner, RemovalIsolated,
     Removing, OneLockFile, LockFileFixed, Staging
<1>6. StagingFresh /\ StagingKeptWhileWritten /\ LeasedArtifactIntact
  BY <1>3 DEF StagingFresh, Staging, StagingKeptWhileWritten,
              LeasedArtifactIntact, At
<1>7. UnusedEmpty /\ PublishedIsWhole
  BY DEF Init, UnusedEmpty, PublishedIsWhole
<1> QED
  BY <1>2, <1>4, <1>5, <1>6, <1>7 DEF InductiveInvariant

(* Every step keeps the invariant. *)
LEMMA NextInvariant == InductiveInvariant /\ [Next]_vars => InductiveInvariant'
<1> SUFFICES ASSUME InductiveInvariant, [Next]_vars
             PROVE  InductiveInvariant'
  OBVIOUS
<1>1. ASSUME NEW p \in Procs, NEW d \in Dumps, BeginCreateDir(p, d)
      PROVE  InductiveInvariant'
  BY <1>1, BeginCreateDirStep
<1>2. ASSUME NEW p \in Procs, NEW d \in Dumps, FindComplete(p, d)
      PROVE  InductiveInvariant'
  BY <1>2, FindCompleteStep
<1>3. ASSUME NEW p \in Procs, SweepList(p)
      PROVE  InductiveInvariant'
  BY <1>3, SweepListStep
<1>4. ASSUME NEW p \in Procs, NEW S \in SUBSET Dumps, PlanPrune(p, S)
      PROVE  InductiveInvariant'
  BY <1>4, PlanPruneStep
<1>5. ASSUME NEW p \in Procs,
             DumpStep(p) \/ ReadStep(p) \/ CleanStep(p) \/ RemoveStep(p)
      PROVE  InductiveInvariant'
  BY <1>5, DumpStepKeeps, ReadStepKeeps, CleanStepKeeps, RemoveStepKeeps
<1>6. ASSUME NEW p \in Procs, Crash(p)
      PROVE  InductiveInvariant'
  BY <1>6, StopStep DEF Crash
<1>7. ASSUME NEW d \in Dumps, Age(d)
      PROVE  InductiveInvariant'
  BY <1>7, AgeStep
<1>8. CASE UNCHANGED vars
  <2>1. name' = name /\ files' = files /\ lockFile' = lockFile
        /\ stale' = stale /\ proc' = proc
    BY <1>8 DEF vars
  <2>2. TypeOK' /\ ProcessShape' /\ LockExclusion' /\ OneOwner' /\ RemovalIsolated'
    BY <2>1 DEF InductiveInvariant, TypeOK, ProcessShape, LockExclusion,
                SameLockFile, OneOwner, Owner, RemovalIsolated
  <2>3. OneLockFile' /\ StagingFresh' /\ UnusedEmpty'
    BY <2>1 DEF InductiveInvariant, OneLockFile, LockFileFixed, Owner,
                StagingFresh, UnusedEmpty
  <2>4. StagingKeptWhileWritten' /\ PublishedIsWhole' /\ LeasedArtifactIntact'
    BY <2>1 DEF InductiveInvariant, StagingKeptWhileWritten, PublishedIsWhole,
                LeasedArtifactIntact, At
  <2> QED
    BY <2>2, <2>3, <2>4 DEF InductiveInvariant
<1> QED
  BY <1>1, <1>2, <1>3, <1>4, <1>5, <1>6, <1>7, <1>8 DEF Next

(* The inductive invariant holds of every behaviour of the cache. *)
THEOREM InvariantHolds == Spec => []InductiveInvariant
<1> QED
  BY InitInvariant, NextInvariant, PTL DEF Spec

(* Every variable keeps its type; in particular a directory only ever has
   a name that begin, publish or deletion_path gives it. *)
THEOREM TypeCorrect == Spec => []TypeOK
<1>1. InductiveInvariant => TypeOK
  BY DEF InductiveInvariant
<1> QED
  BY <1>1, InvariantHolds, PTL

(* try_acquire_lease keeps its promise: whatever sweeps, prunes and crashes
   interleave with it, a dump validated under a lease stays complete. *)
THEOREM LeasesHold == Spec => []LeasedArtifactIntact
<1>1. InductiveInvariant => LeasedArtifactIntact
  BY DEF InductiveInvariant
<1> QED
  BY <1>1, InvariantHolds, PTL

(* A staging that has its dump file is left alone by every other process
   until its owner publishes or drops it, however old it grows. *)
THEOREM StagingsHold == Spec => []StagingKeptWhileWritten
<1>1. InductiveInvariant => StagingKeptWhileWritten
  BY DEF InductiveInvariant
<1> QED
  BY <1>1, InvariantHolds, PTL

(* A dump under its final name is whole: the order of publish, and the
   rename of isolate_and_remove before remove_dir_all. *)
THEOREM PublishedHolds == Spec => []PublishedIsWhole
<1>1. InductiveInvariant => PublishedIsWhole
  BY DEF InductiveInvariant
<1> QED
  BY <1>1, InvariantHolds, PTL

(* A sweep never takes a complete dump, not even one it listed as a staging: *)
(* IsolateRename is the only step away from that name, and a sweep's path is *)
(* never a final name.                                                       *)
THEOREM SweepsSpareComplete == Spec => OnlyPruneTakesComplete
<1> DEFINE A == \A d \in Dumps :
                  name[d] = "complete" /\ name'[d] # "complete" =>
                    \E p \in Procs : proc[p].job = "prune" /\ proc[p].dump = d
<1>1. InductiveInvariant /\ [Next]_vars => A
  <2> SUFFICES ASSUME InductiveInvariant, [Next]_vars, NEW d \in Dumps,
                      name[d] = "complete", name'[d] # "complete"
               PROVE  \E p \in Procs : proc[p].job = "prune" /\ proc[p].dump = d
    OBVIOUS
  <2>1. TypeOK /\ ProcessShape
    BY DEF InductiveInvariant
  <2>2. name' # name
    OBVIOUS
  <2>3. CASE \E p \in Procs, e \in Dumps : BeginCreateDir(p, e)
    BY <2>1, <2>3 DEF BeginCreateDir, TypeOK
  <2>4. CASE \E p \in Procs : PublishRename(p)
    BY <2>1, <2>4 DEF PublishRename, TypeOK
  <2>5. ASSUME NEW p \in Procs, IsolateRename(p)
        PROVE  proc[p].job = "prune" /\ proc[p].dump = d
    <3>1. proc[p].dump = d /\ proc[p].path = "complete"
      BY <2>1, <2>2, <2>5 DEF IsolateRename, PathResolves, TypeOK
    <3>2. Shape(proc[p]) /\ proc[p].pc = "isolate locked"
      BY <2>1, <2>5 DEF ProcessShape, IsolateRename, At
    <3>3. proc[p].job \in {"none", "dump", "read", "sweep", "prune"}
      BY <2>1, StateType DEF Process
    <3>4. proc[p].job \notin {"none", "read"} /\ proc[p].job # "sweep"
      BY <3>1, <3>2 DEF Shape, Leasing
    <3>5. proc[p].job # "dump"
      BY <3>2 DEF Shape, Staging, Removing
    <3> QED
      BY <3>1, <3>3, <3>4, <3>5
  <2>6. ASSUME NEW p \in Procs, RemoveDir(p)
        PROVE  FALSE
    <3>1. proc[p].dump = d /\ proc[p].path = "complete"
      BY <2>1, <2>2, <2>6 DEF RemoveDir, PathResolves, TypeOK
    <3>2. Shape(proc[p]) /\ proc[p].pc = "emptied"
      BY <2>1, <2>6 DEF ProcessShape, RemoveDir, At
    <3> QED
      BY <3>1, <3>2 DEF Shape, Removing
  <2>7. \/ \E p \in Procs, e \in Dumps : BeginCreateDir(p, e)
        \/ \E p \in Procs : PublishRename(p) \/ IsolateRename(p) \/ RemoveDir(p)
    <3>1. ASSUME NEW p \in Procs, DumpStep(p), ~PublishRename(p)
          PROVE  FALSE
      BY <2>2, <3>1 DEF DumpStep, BeginOpenLock, OpenLockFile, Discard, dirVars,
         BeginTryLock, CreateDumpWriter, FinishDump, DumpFails, WriteMetadata,
         PublishUnlock
    <3>2. ASSUME NEW p \in Procs, ReadStep(p)
          PROVE  FALSE
      BY <2>2, <3>2 DEF ReadStep, LeaseOpen, OpenLockFile, dirVars, LeaseTryLock,
         ValidateArtifact, ReleaseLease
    <3>3. ASSUME NEW p \in Procs, CleanStep(p), ~IsolateRename(p)
          PROVE  FALSE
      BY <2>2, <3>3 DEF CleanStep, Visit, FinishVisits, IsolateOpen, OpenLockFile,
         dirVars, IsolateTryLock, IsolateUnlock, Discard
    <3>4. ASSUME NEW p \in Procs, RemoveStep(p), ~RemoveDir(p)
          PROVE  FALSE
      BY <2>2, <3>4 DEF RemoveStep, RemoveDirOpen, UnlinkEntry, LastEntryUnlinked,
         dirVars
    <3>5. ASSUME NEW p \in Procs,
                 \/ \E e \in Dumps : FindComplete(p, e)
                 \/ SweepList(p)
                 \/ \E S \in SUBSET Dumps : PlanPrune(p, S)
                 \/ Crash(p)
          PROVE  FALSE
      BY <2>2, <3>5 DEF FindComplete, SweepList, PlanPrune, Crash, dirVars
    <3>6. ASSUME NEW e \in Dumps, Age(e)
          PROVE  FALSE
      BY <2>2, <3>6 DEF Age
    <3>7. CASE UNCHANGED vars
      BY <2>2, <3>7 DEF vars
    <3> QED
      BY <3>1, <3>2, <3>3, <3>4, <3>5, <3>6, <3>7, ZenonT(60) DEF Next
  <2> QED
    BY <2>3, <2>4, <2>5, <2>6, <2>7
<1>2. InductiveInvariant /\ [Next]_vars => [A]_vars
  BY <1>1
<1> QED
  BY <1>2, InvariantHolds, PTL DEF Spec, OnlyPruneTakesComplete

-----------------------------------------------------------------------------
(* The refinement: the artifact cache implements the registry of           *)
(* ArtifactRegistry.  First come the registry's actions, each from what it *)
(* takes pointwise, then the steps of the cache.                           *)

Writing == {"writing", "written", "described"}

(* What the registry sees of the dumps other than d.                       *)
OthersSame(d) ==
  \A e \in Dumps \ {d} : /\ StatusOf(e)' = StatusOf(e)
                         /\ WriterOf(e)' = WriterOf(e)
                         /\ ReaderOf(e)' = ReaderOf(e)

(* No dump looks different to the registry: a stuttering step of it.       *)
LEMMA RegistryStutter ==
  ASSUME \A e \in Dumps : /\ StatusOf(e)' = StatusOf(e)
                          /\ WriterOf(e)' = WriterOf(e)
                          /\ ReaderOf(e)' = ReaderOf(e)
  PROVE  UNCHANGED Registry!vars
  BY DEF Registry!vars

(* A directory is created: Stage.                                          *)
LEMMA RegistryStage ==
  ASSUME NEW d \in Dumps, OthersSame(d),
         StatusOf(d) = "absent", StatusOf(d)' = "staging",
         WriterOf(d)' = WriterOf(d), ReaderOf(d)' = ReaderOf(d)
  PROVE  Registry!Next
<1>1. Registry!Stage(d)
  BY DEF OthersSame, Registry!Stage
<1> QED
  BY <1>1 DEF Registry!Next

(* The dump file is opened in a staging: StartWriting.                     *)
LEMMA RegistryStartWriting ==
  ASSUME NEW p \in Procs, NEW d \in Dumps, OthersSame(d),
         StatusOf(d) = "staging", StatusOf(d)' = StatusOf(d),
         WriterOf(d) = {}, WriterOf(d)' = {p}, ReaderOf(d)' = ReaderOf(d)
  PROVE  Registry!Next
<1>1. Registry!StartWriting(p, d)
  BY DEF OthersSame, Registry!StartWriting
<1> QED
  BY <1>1 DEF Registry!Next

(* A writer gives up or dies: StopWriting.                                 *)
LEMMA RegistryStopWriting ==
  ASSUME NEW p \in Procs, NEW d \in Dumps, OthersSame(d),
         StatusOf(d)' = StatusOf(d),
         p \in WriterOf(d), WriterOf(d)' = {}, ReaderOf(d)' = ReaderOf(d)
  PROVE  Registry!Next
<1>1. Registry!StopWriting(p, d)
  BY DEF OthersSame, Registry!StopWriting
<1> QED
  BY <1>1 DEF Registry!Next

(* A staging gets its final name: Publish.                                 *)
LEMMA RegistryPublish ==
  ASSUME NEW p \in Procs, NEW d \in Dumps, OthersSame(d),
         StatusOf(d) = "staging", StatusOf(d)' = "available",
         p \in WriterOf(d), WriterOf(d)' = {}, ReaderOf(d)' = ReaderOf(d)
  PROVE  Registry!Next
<1>1. Registry!Publish(p, d)
  BY DEF OthersSame, Registry!Publish
<1> QED
  BY <1>1 DEF Registry!Next

(* A lease is validated: Acquire.                                          *)
LEMMA RegistryAcquire ==
  ASSUME NEW p \in Procs, NEW d \in Dumps, OthersSame(d),
         StatusOf(d) = "available", StatusOf(d)' = StatusOf(d),
         WriterOf(d)' = WriterOf(d), ReaderOf(d)' = ReaderOf(d) \cup {p}
  PROVE  Registry!Next
<1>1. Registry!Acquire(p, d)
  BY DEF OthersSame, Registry!Acquire
<1> QED
  BY <1>1 DEF Registry!Next

(* A lease ends: Release.                                                  *)
LEMMA RegistryRelease ==
  ASSUME NEW p \in Procs, NEW d \in Dumps, OthersSame(d),
         StatusOf(d)' = StatusOf(d), p \in ReaderOf(d),
         WriterOf(d)' = WriterOf(d), ReaderOf(d)' = ReaderOf(d) \ {p}
  PROVE  Registry!Next
<1>1. Registry!Release(p, d)
  BY DEF OthersSame, Registry!Release
<1> QED
  BY <1>1 DEF Registry!Next

(* A directory is isolated, or a staging removed by its owner: Retire.     *)
LEMMA RegistryRetire ==
  ASSUME NEW d \in Dumps, OthersSame(d),
         StatusOf(d) \in {"staging", "available"}, StatusOf(d)' = "retired",
         WriterOf(d) = {}, ReaderOf(d) = {},
         WriterOf(d)' = WriterOf(d), ReaderOf(d)' = ReaderOf(d)
  PROVE  Registry!Next
<1>1. Registry!Retire(d)
  BY DEF OthersSame, Registry!Retire
<1> QED
  BY <1>1 DEF Registry!Next

-----------------------------------------------------------------------------
(* Who works on dump d as a writer or as a reader, at the level of states. *)
Writes(s, d) == s.dump = d /\ s.pc \in Writing
Reads(s, d) == s.dump = d /\ s.pc = "leased"

(* Becoming any state changes one process.                                 *)
LEMMA BecomeAny ==
  ASSUME TypeOK, NEW p \in Procs, NEW s, Become(p, s)
  PROVE  proc'[p] = s /\ OthersKept(p)
  BY DEF TypeOK, Become, OthersKept

(* Where a process is after it stopped.                                    *)
LEMMA StopEffect ==
  ASSUME TypeOK, NEW p \in Procs, Stop(p)
  PROVE  proc'[p].pc = "idle" /\ OthersKept(p)
  BY BecomeAny DEF Stop, IdleProcess

(* Where a cleaner is after it left an entry.                              *)
LEMMA NextEntryEffect ==
  ASSUME TypeOK, NEW p \in Procs, NextEntry(p)
  PROVE  proc'[p].pc = "visiting" /\ OthersKept(p)
<1> DEFINE s == [proc[p] EXCEPT !.pc = "visiting", !.fd = 0, !.held = "none",
                                !.dump = NoDump, !.path = "unused"]
<1>1. s.pc = "visiting"
  BY StateType DEF Process
<1>2. Become(p, s)
  BY DEF NextEntry
<1> HIDE DEF s
<1> QED
  BY <1>1, <1>2, BecomeAny

(* Where a process is after it dropped its lock to remove a directory.     *)
LEMMA DiscardEffect ==
  ASSUME TypeOK, NEW p \in Procs, Discard(p)
  PROVE  proc'[p].pc = "removing" /\ OthersKept(p) /\ name' = name
<1> DEFINE s == [proc[p] EXCEPT !.pc = "removing", !.fd = 0, !.held = "none"]
<1>1. s.pc = "removing"
  BY StateType DEF Process
<1>2. Become(p, s) /\ name' = name
  BY DEF Discard, dirVars
<1> HIDE DEF s
<1> QED
  BY <1>1, <1>2, BecomeAny

(* Where a process is after it opened a lock file.                         *)
LEMMA OpenLockFileEffect ==
  ASSUME TypeOK, NEW p \in Procs, NEW next, OpenLockFile(p, next)
  PROVE  proc'[p].pc = next /\ OthersKept(p) /\ name' = name
<1> DEFINE s(i) == [proc[p] EXCEPT !.pc = next, !.fd = i]
<1>1. \A i : s(i).pc = next
  BY StateType DEF Process
<1>2. (\E i : Become(p, s(i))) /\ name' = name
  BY DEF OpenLockFile
<1> HIDE DEF s
<1> QED
  BY <1>1, <1>2, BecomeAny

(* The writers of a dump, before and after a step.                         *)
LEMMA WritersAre ==
  ASSUME NEW d \in Dumps
  PROVE  /\ WriterOf(d) = {q \in Procs : Writes(proc[q], d)}
         /\ WriterOf(d)' = {q \in Procs : Writes(proc'[q], d)}
  BY DEF WriterOf, Writes, Writing

(* The readers of a dump, before and after a step.                         *)
LEMMA ReadersAre ==
  ASSUME NEW d \in Dumps
  PROVE  /\ ReaderOf(d) = {q \in Procs : Reads(proc[q], d)}
         /\ ReaderOf(d)' = {q \in Procs : Reads(proc'[q], d)}
  BY DEF ReaderOf, Reads, At

(* A process that writes a dump before and after a step, or neither, leaves *)
(* its writers the same.                                                   *)
LEMMA WritersKept ==
  ASSUME NEW p \in Procs, OthersKept(p), NEW d \in Dumps,
         Writes(proc'[p], d) <=> Writes(proc[p], d)
  PROVE  WriterOf(d)' = WriterOf(d)
<1>1. \A q \in Procs : Writes(proc'[q], d) <=> Writes(proc[q], d)
  BY DEF OthersKept
<1> QED
  BY <1>1, WritersAre

(* The same of readers.                                                    *)
LEMMA ReadersKept ==
  ASSUME NEW p \in Procs, OthersKept(p), NEW d \in Dumps,
         Reads(proc'[p], d) <=> Reads(proc[p], d)
  PROVE  ReaderOf(d)' = ReaderOf(d)
<1>1. \A q \in Procs : Reads(proc'[q], d) <=> Reads(proc[q], d)
  BY DEF OthersKept
<1> QED
  BY <1>1, ReadersAre

(* A dump that keeps its name keeps its status.                            *)
LEMMA StatusKept ==
  ASSUME NEW d \in Dumps, name'[d] = name[d]
  PROVE  StatusOf(d)' = StatusOf(d)
  BY DEF StatusOf

(* A dump has one writer at most: its owner.                               *)
LEMMA OneWriter ==
  ASSUME InductiveInvariant, NEW p \in Procs, NEW d \in Dumps, Owner(p, d)
  PROVE  WriterOf(d) \subseteq {p}
<1>1. ASSUME NEW q \in Procs, Writes(proc[q], d)
      PROVE  q = p
  <2>1. Owner(q, d)
    BY <1>1 DEF InductiveInvariant, ProcessShape, Shape, Owner, Writes,
                Writing, Staging
  <2> QED
    BY <2>1 DEF InductiveInvariant, OneOwner
<1> QED
  BY <1>1, WritersAre

(* Whoever writes a dump owns it, and it is a staging.                     *)
LEMMA WriterOwns ==
  ASSUME InductiveInvariant, NEW p \in Procs, NEW d \in Dumps,
         Writes(proc[p], d)
  PROVE  /\ Owner(p, d)
         /\ WriterOf(d) = {p}
         /\ name[d] = "part"
         /\ proc[p].pc \in Staging /\ proc[p].held = "exclusive"
<1>1. Owner(p, d)
  BY DEF InductiveInvariant, ProcessShape, Shape, Owner, Writes, Writing,
         Staging
<1>2. WriterOf(d) = {p}
  BY <1>1, OneWriter, WritersAre
<1>3. name[d] = "part"
  BY DEF InductiveInvariant, StagingKeptWhileWritten, At, Writes, Writing
<1>4. proc[p].pc \in Staging /\ proc[p].held = "exclusive"
  BY DEF InductiveInvariant, ProcessShape, Shape, Writes, Writing, Staging
<1> QED
  BY <1>1, <1>2, <1>3, <1>4

(* Whoever reads a dump holds a lease on it, and it is complete.           *)
LEMMA ReaderHolds ==
  ASSUME InductiveInvariant, NEW p \in Procs, NEW d \in Dumps,
         Reads(proc[p], d)
  PROVE  name[d] = "complete" /\ proc[p].held = "shared"
<1>1. name[d] = "complete"
  BY DEF InductiveInvariant, LeasedArtifactIntact, At, Reads
<1>2. proc[p].held = "shared"
  BY DEF InductiveInvariant, ProcessShape, Shape, Reads
<1> QED
  BY <1>1, <1>2

(***************************************************************************)
(* A step after which its process neither writes nor reads, and that       *)
(* renames nothing: it ended a write, or a lease, or had neither.          *)
(***************************************************************************)
LEMMA LeaveStep ==
  ASSUME InductiveInvariant, NEW p \in Procs, OthersKept(p), name' = name,
         proc'[p].pc \notin Writing \cup {"leased"}
  PROVE  [Registry!Next]_(Registry!vars)
<1>1. \A e \in Dumps : StatusOf(e)' = StatusOf(e)
  BY StatusKept
<1>2. \A e \in Dumps : ~Writes(proc'[p], e) /\ ~Reads(proc'[p], e)
  BY DEF Writes, Reads
<1>3. CASE proc[p].pc \notin Writing \cup {"leased"}
  <2>1. \A e \in Dumps : ~Writes(proc[p], e) /\ ~Reads(proc[p], e)
    BY <1>3 DEF Writes, Reads
  <2> QED
    BY <1>1, <1>2, <2>1, WritersKept, ReadersKept, RegistryStutter
<1>4. CASE proc[p].pc \in Writing
  <2>1. PICK d \in Dumps : d = proc[p].dump
    BY <1>4, BusyDump DEF InductiveInvariant, At, Writing
  <2>2. Writes(proc[p], d) /\ \A e \in Dumps : ~Reads(proc[p], e)
    BY <1>4, <2>1 DEF Writes, Reads, Writing
  <2>3. \A e \in Dumps \ {d} : ~Writes(proc[p], e)
    BY <2>1 DEF Writes
  <2>4. \A e \in Dumps : ReaderOf(e)' = ReaderOf(e)
    BY <1>2, <2>2, ReadersKept
  <2>5. OthersSame(d)
    BY <1>1, <1>2, <2>3, <2>4, WritersKept DEF OthersSame
  <2>6. WriterOf(d) = {p}
    BY <2>1, <2>2, WriterOwns
  <2>7. \A q \in Procs : q # p => ~Writes(proc[q], d)
    BY <2>1, <2>6, WritersAre
  <2>8. WriterOf(d)' = {}
    BY <1>2, <2>1, <2>7, WritersAre DEF OthersKept
  <2> QED
    BY <1>1, <2>1, <2>4, <2>5, <2>6, <2>8, RegistryStopWriting
<1>5. CASE proc[p].pc = "leased"
  <2>1. PICK d \in Dumps : d = proc[p].dump
    BY <1>5, BusyDump DEF InductiveInvariant, At
  <2>2. Reads(proc[p], d) /\ \A e \in Dumps : ~Writes(proc[p], e)
    BY <1>5, <2>1 DEF Writes, Reads, Writing
  <2>3. \A e \in Dumps \ {d} : ~Reads(proc[p], e)
    BY <2>1 DEF Reads
  <2>4. \A e \in Dumps : WriterOf(e)' = WriterOf(e)
    BY <1>2, <2>2, WritersKept
  <2>5. OthersSame(d)
    BY <1>1, <1>2, <2>3, <2>4, ReadersKept DEF OthersSame
  <2>6. p \in ReaderOf(d) /\ ReaderOf(d)' = ReaderOf(d) \ {p}
    BY <1>2, <2>1, <2>2, ReadersAre DEF OthersKept
  <2> QED
    BY <1>1, <2>1, <2>4, <2>5, <2>6, RegistryRelease
<1> QED
  BY <1>3, <1>4, <1>5

-----------------------------------------------------------------------------
(* The steps of the registry.                                              *)

(* Creating a directory stages its dump.                                   *)
LEMMA BeginCreateDirRefines ==
  ASSUME InductiveInvariant, NEW p \in Procs, NEW d \in Dumps, BeginCreateDir(p, d)
  PROVE  [Registry!Next]_(Registry!vars)
<1>1. proc'[p] = Starting("created", "dump", d, "part") /\ OthersKept(p)
  BY BecomeAny DEF BeginCreateDir, InductiveInvariant
<1>2. proc'[p].pc = "created" /\ proc[p].pc = "idle"
  BY <1>1 DEF Starting, IdleProcess, BeginCreateDir, At
<1>3. \A e \in Dumps : /\ ~Writes(proc'[p], e) /\ ~Reads(proc'[p], e)
                        /\ ~Writes(proc[p], e) /\ ~Reads(proc[p], e)
  BY <1>2 DEF Writes, Reads, Writing
<1>4. \A e \in Dumps : WriterOf(e)' = WriterOf(e) /\ ReaderOf(e)' = ReaderOf(e)
  BY <1>1, <1>3, WritersKept, ReadersKept
<1>5. name[d] = "unused" /\ name'[d] = "part"
      /\ \A e \in Dumps \ {d} : name'[e] = name[e]
  BY DEF BeginCreateDir, InductiveInvariant, TypeOK
<1>6. StatusOf(d) = "absent" /\ StatusOf(d)' = "staging"
  BY <1>5 DEF StatusOf
<1>7. OthersSame(d)
  BY <1>4, <1>5, StatusKept DEF OthersSame
<1> QED
  BY <1>4, <1>6, <1>7, RegistryStage

(* Opening the dump file makes the owner a writer; it had none before.     *)
LEMMA OpenDumpRefines ==
  ASSUME InductiveInvariant, NEW p \in Procs, At(p, "staged"),
         PathResolves(p), Goto(p, "writing"), name' = name
  PROVE  [Registry!Next]_(Registry!vars)
<1>1. PICK d \in Dumps : d = proc[p].dump
  BY BusyDump DEF InductiveInvariant, At
<1>2. proc'[p].pc = "writing" /\ proc'[p].dump = d /\ OthersKept(p)
  BY <1>1, GotoEffect DEF InductiveInvariant, Label
<1>3. Owner(p, d) /\ name[d] = "part"
  BY <1>1 DEF InductiveInvariant, ProcessShape, Shape, Owner, Staging, At,
              PathResolves
<1>4. \A e \in Dumps : ~Writes(proc[p], e)
  BY DEF Writes, Writing, At
<1>5. \A q \in Procs : ~Writes(proc[q], d)
  BY <1>3, <1>4, OneWriter, WritersAre
<1>6. WriterOf(d) = {} /\ WriterOf(d)' = {p}
  BY <1>2, <1>5, WritersAre DEF OthersKept, Writes, Writing
<1>7. \A e \in Dumps : ReaderOf(e)' = ReaderOf(e) /\ StatusOf(e)' = StatusOf(e)
  BY <1>2, ReadersKept, StatusKept DEF Reads, At
<1>8. \A e \in Dumps \ {d} : WriterOf(e)' = WriterOf(e)
  BY <1>2, <1>4, WritersKept DEF Writes
<1>9. OthersSame(d)
  BY <1>7, <1>8 DEF OthersSame
<1>10. StatusOf(d) = "staging"
  BY <1>3 DEF StatusOf
<1> QED
  BY <1>6, <1>7, <1>9, <1>10, RegistryStartWriting

(* A writer that goes on writing changes nothing for the registry.         *)
LEMMA GoOnWriting ==
  ASSUME InductiveInvariant, NEW p \in Procs, NEW label \in Writing,
         proc[p].pc \in Writing, Goto(p, label), name' = name
  PROVE  [Registry!Next]_(Registry!vars)
<1>1. proc'[p].pc = label /\ proc'[p].dump = proc[p].dump /\ OthersKept(p)
  BY GotoEffect DEF InductiveInvariant, Label, Writing
<1>2. \A e \in Dumps : ~Reads(proc'[p], e) /\ ~Reads(proc[p], e)
  BY <1>1 DEF Reads, Writing
<1>3. \A e \in Dumps : Writes(proc'[p], e) <=> Writes(proc[p], e)
  BY <1>1 DEF Writes
<1>4. \A e \in Dumps : WriterOf(e)' = WriterOf(e) /\ ReaderOf(e)' = ReaderOf(e)
  BY <1>1, <1>2, <1>3, WritersKept, ReadersKept
<1> QED
  BY <1>4, StatusKept, RegistryStutter

(* The rename to the final name publishes.                                 *)
LEMMA PublishRenameRefines ==
  ASSUME InductiveInvariant, NEW p \in Procs, PublishRename(p)
  PROVE  [Registry!Next]_(Registry!vars)
<1>1. PICK d \in Dumps : d = proc[p].dump
  BY BusyDump DEF InductiveInvariant, At, PublishRename
<1>2. proc'[p].pc = "published" /\ OthersKept(p)
  BY GotoEffect DEF InductiveInvariant, Label, PublishRename
<1>3. Writes(proc[p], d) /\ \A e \in Dumps : ~Reads(proc[p], e)
  BY <1>1 DEF Writes, Reads, Writing, At, PublishRename
<1>4. \A e \in Dumps : ~Writes(proc'[p], e) /\ ~Reads(proc'[p], e)
  BY <1>2 DEF Writes, Reads, Writing
<1>5. WriterOf(d) = {p} /\ name[d] = "part"
  BY <1>3, WriterOwns
<1>6. \A q \in Procs : q # p => ~Writes(proc[q], d)
  BY <1>5, WritersAre
<1>7. WriterOf(d)' = {}
  BY <1>2, <1>4, <1>6, WritersAre DEF OthersKept
<1>8. \A e \in Dumps : ReaderOf(e)' = ReaderOf(e)
  BY <1>2, <1>3, <1>4, ReadersKept
<1>9. \A e \in Dumps \ {d} : WriterOf(e)' = WriterOf(e)
  BY <1>1, <1>2, <1>4, WritersKept DEF Writes
<1>10. name'[d] = "complete" /\ \A e \in Dumps \ {d} : name'[e] = name[e]
  BY <1>1 DEF PublishRename, InductiveInvariant, TypeOK
<1>11. StatusOf(d) = "staging" /\ StatusOf(d)' = "available"
  BY <1>5, <1>10 DEF StatusOf
<1>12. OthersSame(d)
  BY <1>8, <1>9, <1>10, StatusKept DEF OthersSame
<1> QED
  BY <1>5, <1>7, <1>8, <1>11, <1>12, RegistryPublish

(* A dump that is read under its lease is available.                       *)
LEMMA ValidateRefines ==
  ASSUME InductiveInvariant, NEW p \in Procs, At(p, "lease held"),
         Readable(p), Goto(p, "leased"), name' = name
  PROVE  [Registry!Next]_(Registry!vars)
<1>1. PICK d \in Dumps : d = proc[p].dump
  BY BusyDump DEF InductiveInvariant, At
<1>2. proc'[p].pc = "leased" /\ proc'[p].dump = d /\ OthersKept(p)
  BY <1>1, GotoEffect DEF InductiveInvariant, Label
<1>3. name[d] = "complete"
  BY <1>1 DEF InductiveInvariant, ProcessShape, Shape, Leasing, At,
              PathResolves, Readable
<1>4. \A e \in Dumps : /\ ~Writes(proc[p], e) /\ ~Reads(proc[p], e)
                        /\ ~Writes(proc'[p], e)
  BY <1>2 DEF Writes, Reads, Writing, At
<1>5. \A e \in Dumps : WriterOf(e)' = WriterOf(e) /\ StatusOf(e)' = StatusOf(e)
  BY <1>2, <1>4, WritersKept, StatusKept
<1>6. \A e \in Dumps \ {d} : ReaderOf(e)' = ReaderOf(e)
  BY <1>2, <1>4, ReadersKept DEF Reads
<1>7. ReaderOf(d)' = ReaderOf(d) \cup {p}
  BY <1>2, ReadersAre, ZenonT(60) DEF OthersKept, Reads
<1>8. OthersSame(d)
  BY <1>5, <1>6 DEF OthersSame
<1>9. StatusOf(d) = "available"
  BY <1>3 DEF StatusOf
<1> QED
  BY <1>5, <1>7, <1>8, <1>9, RegistryAcquire

(* Whoever holds the exclusive lock of the lock file that is there shares  *)
(* the dump with no writer and no reader.                                  *)
LEMMA IsolatedAlone ==
  ASSUME InductiveInvariant, NEW p \in Procs, NEW d \in Dumps,
         At(p, "isolate locked"), proc[p].dump = d, name[d] \in {"part", "complete"}
  PROVE  WriterOf(d) = {} /\ ReaderOf(d) = {}
<1>1. /\ proc[p].held = "exclusive" /\ proc[p].fd # 0
      /\ proc[p].job # "dump"
  BY DEF InductiveInvariant, ProcessShape, Shape, At, Staging, Removing
<1>2. ASSUME NEW q \in Procs, LockFileFixed(d), proc[q].dump = d,
             proc[q].held # "none", q # p
      PROVE  FALSE
  <2>1. proc[q].fd # 0
    BY <1>2 DEF InductiveInvariant, ProcessShape, Shape
  <2>2. proc[p].fd = lockFile[d] /\ proc[q].fd = lockFile[d]
    BY <1>1, <1>2, <2>1 DEF InductiveInvariant, OneLockFile
  <2>3. SameLockFile(p, q)
    BY <1>2, <2>2 DEF SameLockFile
  <2> QED
    BY <1>1, <1>2, <2>3 DEF InductiveInvariant, LockExclusion
<1>3. ASSUME NEW q \in Procs
      PROVE  ~Writes(proc[q], d)
  <2> SUFFICES ASSUME Writes(proc[q], d) PROVE FALSE
    OBVIOUS
  <2>1. /\ Owner(q, d) /\ name[d] = "part"
        /\ proc[q].pc \in Staging /\ proc[q].held = "exclusive"
    BY WriterOwns
  <2>2. LockFileFixed(d) /\ q # p
    BY <1>1, <2>1 DEF LockFileFixed, Owner
  <2> QED
    BY <1>2, <2>1, <2>2 DEF Writes
<1>4. ASSUME NEW q \in Procs
      PROVE  ~Reads(proc[q], d)
  <2> SUFFICES ASSUME Reads(proc[q], d) PROVE FALSE
    OBVIOUS
  <2>1. name[d] = "complete" /\ proc[q].held = "shared"
    BY ReaderHolds
  <2>2. LockFileFixed(d) /\ q # p
    BY <1>1, <2>1 DEF LockFileFixed
  <2> QED
    BY <1>2, <2>1, <2>2 DEF Reads
<1> QED
  BY <1>3, <1>4, WritersAre, ReadersAre

(* A directory that goes down the list of names, and that nobody writes or *)
(* reads as long as it is not retired.                                     *)
LEMMA RetireStep ==
  ASSUME NEW p \in Procs, OthersKept(p), NEW d \in Dumps,
         proc[p].pc \notin Writing \cup {"leased"},
         proc'[p].pc \notin Writing \cup {"leased"},
         \A e \in Dumps \ {d} : name'[e] = name[e],
         name[d] # "unused",
         name[d] \in {"part", "complete"} => WriterOf(d) = {} /\ ReaderOf(d) = {},
         name'[d] \in {"deleting", "redeleting", "removed"}
  PROVE  [Registry!Next]_(Registry!vars)
<1>1. \A e \in Dumps : /\ ~Writes(proc[p], e) /\ ~Writes(proc'[p], e)
                        /\ ~Reads(proc[p], e) /\ ~Reads(proc'[p], e)
  BY DEF Writes, Reads
<1>2. \A e \in Dumps : WriterOf(e)' = WriterOf(e) /\ ReaderOf(e)' = ReaderOf(e)
  BY <1>1, WritersKept, ReadersKept
<1>3. \A e \in Dumps \ {d} : StatusOf(e)' = StatusOf(e)
  BY StatusKept
<1>4. StatusOf(d)' = "retired"
  BY DEF StatusOf
<1>5. CASE name[d] \in {"part", "complete"}
  <2>1. StatusOf(d) \in {"staging", "available"}
    BY <1>5 DEF StatusOf
  <2>2. OthersSame(d)
    BY <1>2, <1>3 DEF OthersSame
  <2> QED
    BY <1>2, <1>4, <1>5, <2>1, <2>2, RegistryRetire
<1>6. CASE name[d] \notin {"part", "complete"}
  <2>1. StatusOf(d) = "retired"
    BY <1>6 DEF StatusOf
  <2> QED
    BY <1>2, <1>3, <1>4, <2>1, RegistryStutter
<1> QED
  BY <1>5, <1>6

(* The rename of a cleaner retires, or goes on with what is retired.       *)
LEMMA IsolateRenameRefines ==
  ASSUME InductiveInvariant, NEW p \in Procs, IsolateRename(p)
  PROVE  [Registry!Next]_(Registry!vars)
<1>1. PICK d \in Dumps : d = proc[p].dump
  BY BusyDump DEF InductiveInvariant, At, IsolateRename
<1>2. TypeOK /\ proc[p] \in Process /\ proc[p].pc = "isolate locked"
  BY StateType DEF InductiveInvariant, IsolateRename, At
<1>3. CASE /\ PathResolves(p)
           /\ name' = [name EXCEPT ![d] = DeletionName(proc[p].path)]
           /\ Become(p, [proc[p] EXCEPT !.pc = "isolated",
                                        !.path = DeletionName(proc[p].path)])
  <2> DEFINE s == [proc[p] EXCEPT !.pc = "isolated",
                                  !.path = DeletionName(proc[p].path)]
  <2>1. s.pc = "isolated"
    BY <1>2 DEF Process
  <2> HIDE DEF s
  <2>2. proc'[p].pc = "isolated" /\ OthersKept(p)
    BY <1>2, <1>3, <2>1, BecomeAny DEF s
  <2>3. name[d] # "unused"
    BY <1>1 DEF InductiveInvariant, OneOwner
  <2>4. name'[d] \in {"deleting", "redeleting"}
        /\ \A e \in Dumps \ {d} : name'[e] = name[e]
    BY <1>2, <1>3 DEF TypeOK, DeletionName
  <2>5. name[d] \in {"part", "complete"} => WriterOf(d) = {} /\ ReaderOf(d) = {}
    BY <1>1, <1>2, IsolatedAlone DEF At
  <2> QED
    BY <1>2, <2>2, <2>3, <2>4, <2>5, RetireStep DEF Writing
<1>4. CASE NextEntry(p) /\ UNCHANGED name
  <2>1. proc'[p].pc = "visiting" /\ OthersKept(p)
    BY <1>2, <1>4, NextEntryEffect
  <2> QED
    BY <1>4, <2>1, LeaveStep DEF Writing
<1> QED
  BY <1>1, <1>3, <1>4 DEF IsolateRename

(* The removal of the directory: a staging by its owner, or what is        *)
(* retired already.                                                        *)
LEMMA RemoveDirRefines ==
  ASSUME InductiveInvariant, NEW p \in Procs, RemoveDir(p)
  PROVE  [Registry!Next]_(Registry!vars)
<1>1. PICK d \in Dumps : d = proc[p].dump
  BY BusyDump DEF InductiveInvariant, At, RemoveDir
<1>2. TypeOK /\ proc[p] \in Process /\ proc[p].pc = "emptied"
  BY StateType DEF InductiveInvariant, RemoveDir, At
<1>3. Stop(p) \/ NextEntry(p)
  BY DEF RemoveDir
<1>4. proc'[p].pc \in {"idle", "visiting"} /\ OthersKept(p)
  BY <1>2, <1>3, StopEffect, NextEntryEffect
<1>5. CASE name' = name
  BY <1>4, <1>5, LeaveStep DEF Writing
<1>6. CASE PathResolves(p) /\ name' = [name EXCEPT ![d] = "removed"]
  <2>1. name[d] # "unused"
    BY <1>1 DEF InductiveInvariant, OneOwner
  <2>2. name'[d] = "removed" /\ \A e \in Dumps \ {d} : name'[e] = name[e]
    BY <1>2, <1>6 DEF TypeOK
  <2>3. ASSUME name[d] \in {"part", "complete"}
        PROVE  WriterOf(d) = {} /\ ReaderOf(d) = {}
    <3>1. name[d] = "part" /\ Owner(p, d)
      BY <1>1, <1>2, <2>3 DEF InductiveInvariant, RemovalIsolated, Removing, Owner
    <3>2. p \notin WriterOf(d)
      BY <1>2, WritersAre DEF Writes, Writing
    <3>3. WriterOf(d) = {}
      BY <3>1, <3>2, OneWriter
    <3>4. \A q \in Procs : ~Reads(proc[q], d)
      BY <3>1, ReaderHolds
    <3> QED
      BY <3>3, <3>4, ReadersAre
  <2> QED
    BY <1>2, <1>4, <2>1, <2>2, <2>3, RetireStep DEF Writing
<1> QED
  BY <1>1, <1>5, <1>6 DEF RemoveDir

-----------------------------------------------------------------------------
(* Every step of the cache.                                                *)

(* Stopping, wherever it happens, ends a write or a lease, if any.         *)
LEMMA StopRefines ==
  ASSUME InductiveInvariant, NEW p \in Procs, Stop(p), name' = name
  PROVE  [Registry!Next]_(Registry!vars)
<1>1. proc'[p].pc = "idle" /\ OthersKept(p)
  BY StopEffect DEF InductiveInvariant
<1> QED
  BY <1>1, LeaveStep DEF Writing

(* So does dropping a staging, or the lock of what is isolated.            *)
LEMMA DiscardRefines ==
  ASSUME InductiveInvariant, NEW p \in Procs, Discard(p)
  PROVE  [Registry!Next]_(Registry!vars)
<1>1. proc'[p].pc = "removing" /\ OthersKept(p) /\ name' = name
  BY DiscardEffect DEF InductiveInvariant
<1> QED
  BY <1>1, LeaveStep DEF Writing

(* Leaving an entry.                                                       *)
LEMMA NextEntryRefines ==
  ASSUME InductiveInvariant, NEW p \in Procs, NextEntry(p), name' = name
  PROVE  [Registry!Next]_(Registry!vars)
<1>1. proc'[p].pc = "visiting" /\ OthersKept(p)
  BY NextEntryEffect DEF InductiveInvariant
<1> QED
  BY <1>1, LeaveStep DEF Writing

(* Opening a lock file.                                                    *)
LEMMA OpenLockFileRefines ==
  ASSUME InductiveInvariant, NEW p \in Procs,
         NEW next \in {"begin opened", "lease opened", "isolate opened"},
         OpenLockFile(p, next)
  PROVE  [Registry!Next]_(Registry!vars)
<1>1. proc'[p].pc = next /\ OthersKept(p) /\ name' = name
  BY OpenLockFileEffect DEF InductiveInvariant
<1> QED
  BY <1>1, LeaveStep DEF Writing

(* Locking it.                                                             *)
LEMMA TryLockRefines ==
  ASSUME InductiveInvariant, NEW p \in Procs,
         NEW label \in {"staged", "lease held", "isolate locked"},
         NEW held \in {"shared", "exclusive"},
         Become(p, [proc[p] EXCEPT !.pc = label, !.held = held]), name' = name
  PROVE  [Registry!Next]_(Registry!vars)
<1>1. proc'[p].pc = label /\ OthersKept(p)
  BY LockEffect DEF InductiveInvariant, Label
<1> QED
  BY <1>1, LeaveStep DEF Writing

(* Going on to a label at which nothing is written or read.                *)
LEMMA GotoRefines ==
  ASSUME InductiveInvariant, NEW p \in Procs, NEW label \in {"unlinking", "emptied"},
         Goto(p, label), name' = name
  PROVE  [Registry!Next]_(Registry!vars)
<1>1. proc'[p].pc = label /\ OthersKept(p)
  BY GotoEffect DEF InductiveInvariant, Label
<1> QED
  BY <1>1, LeaveStep DEF Writing

(* Starting to read or to clean.                                           *)
LEMMA StartRefines ==
  ASSUME InductiveInvariant, NEW p \in Procs,
         \/ \E d \in Dumps : FindComplete(p, d)
         \/ SweepList(p)
         \/ \E S \in SUBSET Dumps : PlanPrune(p, S)
  PROVE  [Registry!Next]_(Registry!vars)
<1>1. TypeOK
  BY DEF InductiveInvariant
<1>2. ASSUME NEW d \in Dumps, FindComplete(p, d)
      PROVE  [Registry!Next]_(Registry!vars)
  <2> DEFINE s == Starting("found", "read", d, "complete")
  <2>1. s.pc = "found"
    BY DEF Starting, IdleProcess
  <2>2. Become(p, s) /\ name' = name
    BY <1>2 DEF FindComplete, dirVars
  <2> HIDE DEF s
  <2>3. proc'[p].pc = "found" /\ OthersKept(p)
    BY <1>1, <2>1, <2>2, BecomeAny
  <2> QED
    BY <2>2, <2>3, LeaveStep DEF Writing
<1>3. ASSUME NEW L, NEW job,
             Become(p, [IdleProcess EXCEPT !.pc = "visiting", !.job = job, !.plan = L]),
             name' = name
      PROVE  [Registry!Next]_(Registry!vars)
  <2> DEFINE s == [IdleProcess EXCEPT !.pc = "visiting", !.job = job, !.plan = L]
  <2>1. s.pc = "visiting"
    BY DEF IdleProcess
  <2> HIDE DEF s
  <2>2. proc'[p].pc = "visiting" /\ OthersKept(p)
    BY <1>1, <1>3, <2>1, BecomeAny DEF s
  <2> QED
    BY <1>3, <2>2, LeaveStep DEF Writing
<1>4. CASE SweepList(p)
  BY <1>3, <1>4 DEF SweepList, dirVars
<1>5. ASSUME NEW S \in SUBSET Dumps, PlanPrune(p, S)
      PROVE  [Registry!Next]_(Registry!vars)
  BY <1>3, <1>5 DEF PlanPrune, dirVars
<1> QED
  BY <1>2, <1>4, <1>5

(* Visiting an entry: it is taken up, or left alone.                       *)
LEMMA VisitRefines ==
  ASSUME InductiveInvariant, NEW p \in Procs, NEW d \in Dumps, NEW n \in Name,
         Visit(p, d, n)
  PROVE  [Registry!Next]_(Registry!vars)
<1> DEFINE s == [proc[p] EXCEPT !.plan = @ \ {<<d, n>>}, !.pc = "isolating",
                                !.dump = d, !.path = n]
           t == [proc[p] EXCEPT !.plan = @ \ {<<d, n>>}]
<1>1. TypeOK /\ proc[p] \in Process /\ proc[p].pc = "visiting" /\ name' = name
  BY StateType DEF InductiveInvariant, Visit, At, dirVars
<1>2. s.pc = "isolating" /\ t.pc = "visiting"
  BY <1>1 DEF Process
<1>3. Become(p, s) \/ Become(p, t)
  BY DEF Visit
<1> HIDE DEF s, t
<1>4. proc'[p].pc \in {"isolating", "visiting"} /\ OthersKept(p)
  BY <1>1, <1>2, <1>3, BecomeAny
<1> QED
  BY <1>1, <1>4, LeaveStep DEF Writing

(* The steps of a dump.                                                    *)
LEMMA DumpStepRefines ==
  ASSUME InductiveInvariant, NEW p \in Procs, DumpStep(p)
  PROVE  [Registry!Next]_(Registry!vars)
<1>1. CASE BeginOpenLock(p)
  BY <1>1, OpenLockFileRefines, DiscardRefines, ZenonT(60) DEF BeginOpenLock
<1>2. CASE BeginTryLock(p)
  BY <1>2, TryLockRefines, DiscardRefines DEF BeginTryLock, dirVars
<1>3. CASE CreateDumpWriter(p)
  BY <1>3, OpenDumpRefines, DiscardRefines DEF CreateDumpWriter
<1>4. CASE FinishDump(p)
  BY <1>4, GoOnWriting DEF FinishDump, At, Writing
<1>5. CASE DumpFails(p)
  BY <1>5, DiscardRefines DEF DumpFails
<1>6. CASE WriteMetadata(p)
  BY <1>6, GoOnWriting DEF WriteMetadata, At, Writing
<1>7. CASE PublishRename(p)
  BY <1>7, PublishRenameRefines
<1>8. CASE PublishUnlock(p)
  BY <1>8, StopRefines DEF PublishUnlock, dirVars
<1> QED
  BY <1>1, <1>2, <1>3, <1>4, <1>5, <1>6, <1>7, <1>8 DEF DumpStep

(* The steps of a reader.                                                  *)
LEMMA ReadStepRefines ==
  ASSUME InductiveInvariant, NEW p \in Procs, ReadStep(p)
  PROVE  [Registry!Next]_(Registry!vars)
<1>1. CASE LeaseOpen(p)
  BY <1>1, OpenLockFileRefines, StopRefines, ZenonT(60) DEF LeaseOpen, dirVars
<1>2. CASE LeaseTryLock(p)
  BY <1>2, TryLockRefines, StopRefines DEF LeaseTryLock, dirVars
<1>3. CASE ValidateArtifact(p)
  BY <1>3, ValidateRefines, StopRefines DEF ValidateArtifact, dirVars
<1>4. CASE ReleaseLease(p)
  BY <1>4, StopRefines DEF ReleaseLease, dirVars
<1> QED
  BY <1>1, <1>2, <1>3, <1>4 DEF ReadStep

(* The steps of a cleaner up to the removal.                               *)
LEMMA CleanStepRefines ==
  ASSUME InductiveInvariant, NEW p \in Procs, CleanStep(p)
  PROVE  [Registry!Next]_(Registry!vars)
<1>1. CASE \E d \in Dumps, n \in Name : Visit(p, d, n)
  BY <1>1, VisitRefines
<1>2. CASE FinishVisits(p)
  BY <1>2, StopRefines DEF FinishVisits, dirVars
<1>3. CASE IsolateOpen(p)
  BY <1>3, OpenLockFileRefines, NextEntryRefines, ZenonT(60) DEF IsolateOpen, dirVars
<1>4. CASE IsolateTryLock(p)
  BY <1>4, TryLockRefines, NextEntryRefines DEF IsolateTryLock, dirVars
<1>5. CASE IsolateRename(p)
  BY <1>5, IsolateRenameRefines
<1>6. CASE IsolateUnlock(p)
  BY <1>6, DiscardRefines DEF IsolateUnlock
<1> QED
  BY <1>1, <1>2, <1>3, <1>4, <1>5, <1>6 DEF CleanStep

(* A step that moves no process and renames nothing.                       *)
LEMMA StillRefines ==
  ASSUME name' = name, proc' = proc
  PROVE  UNCHANGED Registry!vars
<1>1. \A e \in Dumps : WriterOf(e)' = WriterOf(e) /\ ReaderOf(e)' = ReaderOf(e)
  BY WritersAre, ReadersAre
<1> QED
  BY <1>1, StatusKept, RegistryStutter

(* The steps of a removal.                                                 *)
LEMMA RemoveStepRefines ==
  ASSUME InductiveInvariant, NEW p \in Procs, RemoveStep(p)
  PROVE  [Registry!Next]_(Registry!vars)
<1>1. CASE RemoveDirOpen(p)
  BY <1>1, GotoRefines, StopRefines DEF RemoveDirOpen, dirVars
<1>2. CASE UnlinkEntry(p)
  BY <1>2, StillRefines DEF UnlinkEntry
<1>3. CASE LastEntryUnlinked(p)
  BY <1>3, GotoRefines DEF LastEntryUnlinked, dirVars
<1>4. CASE RemoveDir(p)
  BY <1>4, RemoveDirRefines
<1> QED
  BY <1>1, <1>2, <1>3, <1>4 DEF RemoveStep

(* The cache begins as the registry does: no dump is known.                *)
LEMMA InitRefines == Init => Registry!Init
<1> SUFFICES ASSUME Init PROVE Registry!Init
  OBVIOUS
<1>1. \A d \in Dumps : StatusOf(d) = "absent"
  BY DEF Init, StatusOf
<1>2. \A q \in Procs : proc[q].pc = "idle"
  BY DEF Init, IdleProcess
<1>3. \A d \in Dumps : WriterOf(d) = {} /\ ReaderOf(d) = {}
  BY <1>2, WritersAre, ReadersAre DEF Writes, Reads, Writing
<1> QED
  BY <1>1, <1>3 DEF Registry!Init

(* Every step of the cache is a step of the registry, or stutters there.   *)
LEMMA NextRefines ==
  InductiveInvariant /\ [Next]_vars => [Registry!Next]_(Registry!vars)
<1> SUFFICES ASSUME InductiveInvariant, [Next]_vars
             PROVE  [Registry!Next]_(Registry!vars)
  OBVIOUS
<1>1. ASSUME NEW p \in Procs, NEW d \in Dumps, BeginCreateDir(p, d)
      PROVE  [Registry!Next]_(Registry!vars)
  BY <1>1, BeginCreateDirRefines
<1>2. ASSUME NEW p \in Procs,
             \/ \E d \in Dumps : FindComplete(p, d)
             \/ SweepList(p)
             \/ \E S \in SUBSET Dumps : PlanPrune(p, S)
      PROVE  [Registry!Next]_(Registry!vars)
  BY <1>2, StartRefines
<1>3. ASSUME NEW p \in Procs,
             DumpStep(p) \/ ReadStep(p) \/ CleanStep(p) \/ RemoveStep(p)
      PROVE  [Registry!Next]_(Registry!vars)
  BY <1>3, DumpStepRefines, ReadStepRefines, CleanStepRefines, RemoveStepRefines
<1>4. ASSUME NEW p \in Procs, Crash(p)
      PROVE  [Registry!Next]_(Registry!vars)
  BY <1>4, StopRefines DEF Crash, dirVars
<1>5. ASSUME NEW d \in Dumps, Age(d)
      PROVE  [Registry!Next]_(Registry!vars)
  BY <1>5, StillRefines DEF Age
<1>6. CASE UNCHANGED vars
  BY <1>6, StillRefines DEF vars
<1> QED
  BY <1>1, <1>2, <1>3, <1>4, <1>5, <1>6 DEF Next

(* The artifact store and its cleaners keep what ArtifactRegistry promises *)
(* of the cache: dumps with a writer or a reader are never retired, and a  *)
(* dump becomes available in one step (publish, isolate_and_remove).       *)
THEOREM CacheImplementsRegistry == Spec => ImplementsRegistry
<1>1. Init => Registry!Init
  BY InitRefines
<1>2. InductiveInvariant /\ [Next]_vars => [Registry!Next]_(Registry!vars)
  BY NextRefines
<1> QED
  BY <1>1, <1>2, InvariantHolds, PTL DEF Spec, ImplementsRegistry, Registry!Spec

(* Whatever keeps the promise of ArtifactRegistry never takes a dump from  *)
(* the process that writes or reads it, and lets no two write one.         *)
THEOREM RegistryKeeps == Registry!Spec => []Registry!Kept
<1>1. Registry!Init => Registry!Kept
  BY DEF Registry!Init, Registry!Kept
<1>2. Registry!Kept /\ [Registry!Next]_(Registry!vars) => Registry!Kept'
  <2> SUFFICES ASSUME Registry!Kept, [Registry!Next]_(Registry!vars)
               PROVE  Registry!Kept'
    OBVIOUS
  <2>1. CASE UNCHANGED Registry!vars
    BY <2>1 DEF Registry!Kept, Registry!vars
  <2>2. ASSUME NEW d \in Dumps, Registry!Stage(d) \/ Registry!Retire(d)
        PROVE  Registry!Kept'
    BY <2>2 DEF Registry!Kept, Registry!Stage, Registry!Retire
  <2>3. ASSUME NEW d \in Dumps, NEW p \in Procs,
               Registry!StartWriting(p, d) \/ Registry!StopWriting(p, d)
        PROVE  Registry!Kept'
    <3>1. /\ (WriterOf(d)' = {p} /\ StatusOf(d) = "staging") \/ WriterOf(d)' = {}
          /\ \A c \in Dumps : c # d => WriterOf(c)' = WriterOf(c)
      BY <2>3 DEF Registry!StartWriting, Registry!StopWriting
    <3>2. \A c \in Dumps : StatusOf(c)' = StatusOf(c) /\ ReaderOf(c)' = ReaderOf(c)
      BY <2>3 DEF Registry!StartWriting, Registry!StopWriting
    <3> QED
      BY <3>1, <3>2 DEF Registry!Kept
  <2>4. ASSUME NEW d \in Dumps, NEW p \in Procs, Registry!Publish(p, d)
        PROVE  Registry!Kept'
    <3>1. /\ StatusOf(d)' = "available" /\ WriterOf(d)' = {}
          /\ \A c \in Dumps : c # d =>
               StatusOf(c)' = StatusOf(c) /\ WriterOf(c)' = WriterOf(c)
      BY <2>4 DEF Registry!Publish
    <3>2. \A c \in Dumps : ReaderOf(c)' = ReaderOf(c)
      BY <2>4 DEF Registry!Publish
    <3> QED
      BY <3>1, <3>2 DEF Registry!Kept
  <2>5. ASSUME NEW d \in Dumps, NEW p \in Procs,
               Registry!Acquire(p, d) \/ Registry!Release(p, d)
        PROVE  Registry!Kept'
    BY <2>5 DEF Registry!Kept, Registry!Acquire, Registry!Release
  <2> QED
    BY <2>1, <2>2, <2>3, <2>4, <2>5 DEF Registry!Next
<1> QED
  BY <1>1, <1>2, PTL DEF Registry!Spec
=============================================================================
