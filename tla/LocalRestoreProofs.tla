------------------------- MODULE LocalRestoreProofs -------------------------
(***************************************************************************)
(* Theorems about LocalRestore for any processes, targets, dumps, parts    *)
(* and pipe, and any number of orphaned clients: the inductive invariant,  *)
(* that a state saved as ready tells the truth, that a database has one    *)
(* watched client at most, and what its state is while one changes it.     *)
(***************************************************************************)
EXTENDS LocalRestore, TLAPS

(* What TypeOK says of one process, one client, one target.                *)
LEMMA ProcessType ==
  ASSUME TypeOK, NEW p \in Procs
  PROVE  proc[p] \in Process /\ client[p] \in Client
  BY DEF TypeOK

LEMMA TargetType ==
  ASSUME TypeOK, NEW t \in Targets
  PROVE  /\ lock[t] \in Procs \cup {NoProc}
         /\ marker[t] \in Marker /\ db[t] \in Database /\ strayed[t] \in BOOLEAN
  BY DEF TypeOK

LEMMA Nones ==
  /\ IdleProcess \in Process
  /\ NoClient \in Client /\ Sane(NoClient) /\ NoClient.kind = "none"
  BY PartsAssumption DEF IdleProcess, Process, NoClient, Client, Sane

(* A step of p leaves the other processes and all targets but t alone.     *)
OthersKept(p, t) ==
  /\ \A q \in Procs : q # p => proc'[q] = proc[q] /\ client'[q] = client[q]
  /\ \A u \in Targets : u # t =>
       /\ lock'[u] = lock[u] /\ marker'[u] = marker[u]
       /\ db'[u] = db[u] /\ strayed'[u] = strayed[u]

(* What another process has is on another target, for it has its lock.     *)
LEMMA OthersUnaffected ==
  ASSUME NEW p \in Procs, NEW q \in Procs, q # p, NEW t,
         lock[t] \in {p, NoProc}, ProcessShape(q), OthersKept(p, t)
  PROVE  ProcessShape(q)'
<1>1. proc'[q] = proc[q] /\ client'[q] = client[q]
  BY DEF OthersKept
<1>2. CASE proc[q].pc = "idle"
  BY <1>1, <1>2 DEF ProcessShape, ClientOf
<1>3. CASE proc[q].pc # "idle"
  <2> DEFINE u == proc[q].target
  <2>1. u \in Targets /\ lock[u] = q /\ u # t
    BY <1>3, NonesAssumption DEF ProcessShape
  <2>2. /\ lock'[u] = lock[u] /\ marker'[u] = marker[u]
        /\ db'[u] = db[u] /\ strayed'[u] = strayed[u]
    BY <2>1 DEF OthersKept
  <2> QED
    BY <1>1, <2>1, <2>2 DEF ProcessShape, Filled
<1> QED
  BY <1>2, <1>3

(* The step of a process that has, or takes, the lock of t: it is enough   *)
(* to look at the process itself, at t and at the orphans.                 *)
LEMMA Advance ==
  ASSUME InductiveInvariant, NEW p \in Procs, NEW t \in Targets,
         lock[t] \in {p, NoProc}, OthersKept(p, t), TypeOK',
         ProcessShape(p)', \A c \in orphans' : OrphanShape(c),
         marker'[t].status = "ready" /\ ~strayed'[t] =>
           Exact(t, marker[t].dump)'
  PROVE  InductiveInvariant'
<1>1. \A q \in Procs : ProcessShape(q)'
  BY OthersUnaffected DEF InductiveInvariant
<1>2. ReadyIsExactUnlessStrayed'
  BY DEF InductiveInvariant, ReadyIsExactUnlessStrayed, Exact, OthersKept
<1>3. (\A c \in orphans : OrphanShape(c))'
  BY DEF OrphanShape, Sane
<1> QED
  BY <1>1, <1>2, <1>3 DEF InductiveInvariant

(* ... that leaves the saved state and the database alone.                 *)
LEMMA Kept ==
  ASSUME InductiveInvariant, NEW p \in Procs, NEW t \in Targets,
         lock[t] \in {p, NoProc},
         NEW s \in Process, NEW c \in Client, NEW l \in {p, NoProc},
         proc' = [proc EXCEPT ![p] = s], client' = [client EXCEPT ![p] = c],
         lock' = [lock EXCEPT ![t] = l], UNCHANGED <<marker, db, strayed>>,
         orphans' \subseteq Client, \A o \in orphans' : OrphanShape(o),
         ProcessShape(p)'
  PROVE  InductiveInvariant'
<1>1. TypeOK /\ ReadyIsExactUnlessStrayed
  BY DEF InductiveInvariant
<1>2. OthersKept(p, t)
  BY <1>1 DEF OthersKept, TypeOK
<1>3. TypeOK'
  BY <1>1 DEF TypeOK
<1>4. marker'[t].status = "ready" /\ ~strayed'[t] => Exact(t, marker[t].dump)'
  BY <1>1 DEF ReadyIsExactUnlessStrayed, Exact
<1> QED
  BY <1>2, <1>3, <1>4, Advance

(* The same with the lock kept.                                            *)
LEMMA Moves ==
  ASSUME InductiveInvariant, NEW p \in Procs, proc[p].pc # "idle",
         NEW s \in Process, NEW c \in Client,
         proc' = [proc EXCEPT ![p] = s], client' = [client EXCEPT ![p] = c],
         UNCHANGED <<lock, marker, db, strayed>>,
         orphans' \subseteq Client, \A o \in orphans' : OrphanShape(o),
         ProcessShape(p)'
  PROVE  InductiveInvariant'
<1>1. /\ proc[p].target \in Targets /\ lock[proc[p].target] = p
      /\ lock \in [Targets -> Procs \cup {NoProc}]
  BY DEF InductiveInvariant, ProcessShape, TypeOK
<1>2. lock' = [lock EXCEPT ![proc[p].target] = p]
  BY <1>1
<1> QED
  BY <1>1, <1>2, Kept

(* A restore that returns leaves no process and no client behind.          *)
LEMMA ReturnShape ==
  ASSUME TypeOK, NEW p \in Procs, Return(p),
         client'[p].kind = "none", Sane(client'[p])
  PROVE  ProcessShape(p)'
<1>1. proc'[p] = IdleProcess
  BY DEF Return, TypeOK
<1> QED
  BY <1>1 DEF ProcessShape, ClientOf, IdleProcess, Sane

(* ... and what it has saved last is incomplete, or ready and exact.       *)
LEMMA Returns ==
  ASSUME InductiveInvariant, NEW p \in Procs, proc[p].pc # "idle", Return(p),
         NEW c \in Client, c.kind = "none", Sane(c),
         client' = [client EXCEPT ![p] = c],
         UNCHANGED <<db, strayed>>,
         orphans' \subseteq Client, \A o \in orphans' : OrphanShape(o),
         NEW status \in {"incomplete", "ready"},
         Save(p, status) \/ UNCHANGED marker,
         status = "ready" /\ ~strayed[proc[p].target] =>
           Exact(proc[p].target, proc[p].dump)
  PROVE  InductiveInvariant'
<1>0. PICK t \in Targets, d \in Dumps : t = proc[p].target /\ d = proc[p].dump
  BY DEF InductiveInvariant, ProcessShape
<1>1. /\ TypeOK /\ ReadyIsExactUnlessStrayed
      /\ t \in Targets /\ d \in Dumps /\ lock[t] = p
  BY <1>0 DEF InductiveInvariant, ProcessShape
<1>2. /\ proc' \in [Procs -> Process] /\ lock' \in [Targets -> Procs \cup {NoProc}]
      /\ client' \in [Procs -> Client] /\ client'[p] = c
  BY <1>1, Nones DEF TypeOK, Return
<1>3. marker' \in [Targets -> Marker] /\ \A u \in Targets : u # t => marker'[u] = marker[u]
  BY <1>0, <1>1 DEF TypeOK, Save, Marker
<1>4. OthersKept(p, t)
  BY <1>0, <1>1, <1>3 DEF OthersKept, TypeOK, Return
<1>5. TypeOK'
  BY <1>1, <1>2, <1>3 DEF TypeOK
<1>6. ProcessShape(p)'
  BY <1>1, <1>2, ReturnShape
<1>7. marker'[t].status = "ready" /\ ~strayed'[t] => Exact(t, marker[t].dump)'
  <2>1. CASE UNCHANGED marker
    BY <1>1, <2>1 DEF ReadyIsExactUnlessStrayed, Exact
  <2>2. CASE Save(p, status)
    <3>1. marker'[t].status = status /\ marker'[t].dump = d
      BY <1>0, <1>1, <2>2 DEF Save, TypeOK
    <3>2. Exact(t, d) => Exact(t, d)'
      BY DEF Exact
    <3> QED
      BY <1>0, <3>1, <3>2 DEF Exact
  <2> QED
    BY <2>1, <2>2
<1> QED
  BY <1>1, <1>4, <1>5, <1>6, <1>7, Advance

-----------------------------------------------------------------------------
(* The steps of a restore.                                                 *)

LEMMA RestoreBegins ==
  ASSUME InductiveInvariant, NEW p \in Procs, NEW d \in Dumps, NEW t \in Targets,
         Restore(p, d, t)
  PROVE  InductiveInvariant'
<1> DEFINE s == [pc |-> "locked", target |-> t, dump |-> d]
<1>1. /\ TypeOK /\ proc[p].pc = "idle" /\ ProcessShape(p)
      /\ \A o \in orphans : OrphanShape(o)
  BY DEF InductiveInvariant, Restore, At
<1>2. s \in Process
  BY DEF Process
<1>3. proc'[p] = s /\ client' = [client EXCEPT ![p] = client[p]] /\ lock'[t] = p
  BY <1>1 DEF Restore, TypeOK
<1>4. ProcessShape(p)'
  BY <1>1, <1>3 DEF ProcessShape, ClientOf, Filled, Restore
<1>5. client[p] \in Client /\ orphans \subseteq Client
  BY <1>1 DEF TypeOK
<1> QED
  BY <1>1, <1>2, <1>3, <1>4, <1>5, Kept DEF Restore, Unlocked

LEMMA FailStep ==
  ASSUME InductiveInvariant, NEW p \in Procs, proc[p].pc # "idle", Fail(p)
  PROVE  InductiveInvariant'
<1>1. orphans \subseteq Client /\ \A o \in orphans : OrphanShape(o)
  BY DEF InductiveInvariant, TypeOK
<1>2. "incomplete" \in {"incomplete", "ready"} /\ "incomplete" # "ready"
  OBVIOUS
<1> QED
  BY <1>1, <1>2, Nones, Returns DEF Fail

LEMMA SaveIncompleteStep ==
  ASSUME InductiveInvariant, NEW p \in Procs, SaveIncomplete(p)
  PROVE  InductiveInvariant'
<1> DEFINE t == proc[p].target
           d == proc[p].dump
           s == [proc[p] EXCEPT !.pc = "marked"]
<1>1. /\ TypeOK /\ proc[p].pc = "locked" /\ ProcessShape(p) /\ proc[p] \in Process
      /\ client[p] \in Client
      /\ orphans \subseteq Client /\ \A o \in orphans : OrphanShape(o)
  BY ProcessType DEF InductiveInvariant, SaveIncomplete, At, TypeOK
<1>2. t \in Targets /\ d \in Dumps /\ lock[t] = p /\ client[p].kind = "none"
  BY <1>1 DEF ProcessShape, ClientOf
<1>3. client' = [client EXCEPT ![p] = client[p]] /\ Sane(client[p])
  BY <1>1 DEF SaveIncomplete, TypeOK, ProcessShape
<1>4. ASSUME Return(p), Save(p, "incomplete") \/ UNCHANGED marker
      PROVE  InductiveInvariant'
  <2>1. "incomplete" \in {"incomplete", "ready"} /\ "incomplete" # "ready"
    OBVIOUS
  <2> QED
    BY <1>1, <1>2, <1>3, <1>4, <2>1, Returns DEF SaveIncomplete
<1>5. ASSUME Save(p, "incomplete"), Goto(p, "marked"), UNCHANGED lock
      PROVE  InductiveInvariant'
  <2>1. s \in Process /\ s.pc = "marked" /\ s.target = t /\ s.dump = d
    BY <1>1 DEF Process
  <2>2. proc' = [proc EXCEPT ![p] = s]
    BY <1>1, <1>5 DEF Goto, TypeOK
  <2> HIDE DEF s
  <2>3. /\ marker' \in [Targets -> Marker]
        /\ marker'[t] = [status |-> "incomplete", dump |-> d]
        /\ \A u \in Targets : u # t => marker'[u] = marker[u]
    BY <1>1, <1>2, <1>5 DEF Save, Marker, TypeOK
  <2>4. OthersKept(p, t)
    BY <1>1, <1>5, <2>2, <2>3 DEF OthersKept, SaveIncomplete, TypeOK
  <2>5. TypeOK'
    BY <1>1, <1>5, <2>1, <2>2, <2>3 DEF TypeOK, SaveIncomplete
  <2>6. ProcessShape(p)'
    <3>1. proc'[p] = s /\ client'[p] = client[p]
      BY <1>1, <2>2 DEF SaveIncomplete, TypeOK
    <3>2. Filled(p)'
      BY <2>1, <1>2, <3>1 DEF Filled
    <3> QED
      BY <1>1, <1>2, <1>3, <1>5, <2>1, <2>3, <3>1, <3>2 DEF ProcessShape, ClientOf
  <2>7. marker'[t].status # "ready"
    BY <2>3
  <2> QED
    BY <1>1, <1>2, <2>4, <2>5, <2>6, <2>7, Advance DEF SaveIncomplete
<1> QED
  BY <1>4, <1>5 DEF SaveIncomplete

LEMMA SaveReadyStep ==
  ASSUME InductiveInvariant, NEW p \in Procs, SaveReady(p)
  PROVE  InductiveInvariant'
<1>1. /\ TypeOK /\ proc[p].pc = "imported" /\ ProcessShape(p) /\ client[p] \in Client
      /\ orphans \subseteq Client /\ \A o \in orphans : OrphanShape(o)
  BY ProcessType DEF InductiveInvariant, SaveReady, At, TypeOK
<1>2. ~strayed[proc[p].target] => Exact(proc[p].target, proc[p].dump)
  BY <1>1 DEF ProcessShape, Filled, Exact
<1>3. client' = [client EXCEPT ![p] = client[p]]
  BY <1>1 DEF SaveReady, TypeOK
<1>4. client[p].kind = "none" /\ Sane(client[p])
  BY <1>1 DEF ProcessShape, ClientOf
<1> QED
  BY <1>1, <1>2, <1>3, <1>4, Returns DEF SaveReady

(* The start of a restore client.                                          *)
LEMMA StartRecreateStep ==
  ASSUME InductiveInvariant, NEW p \in Procs, StartRecreate(p)
  PROVE  InductiveInvariant'
<1> DEFINE c == [kind |-> "recreate", target |-> proc[p].target,
                 content |-> NoDump, input |-> 2, done |-> 0,
                 eof |-> TRUE, exit |-> "running"]
           s == [proc[p] EXCEPT !.pc = "recreating"]
<1>1. /\ TypeOK /\ proc[p].pc = "marked" /\ ProcessShape(p) /\ proc[p] \in Process
      /\ orphans \subseteq Client /\ \A o \in orphans : OrphanShape(o)
  BY ProcessType DEF InductiveInvariant, StartRecreate, At, TypeOK
<1>2. proc[p].target \in Targets
  BY <1>1 DEF ProcessShape
<1>3. c \in Client
  BY <1>2, PartsAssumption DEF Client
<1>4. s \in Process /\ s.pc = "recreating" /\ s.target = proc[p].target
      /\ s.dump = proc[p].dump
  BY <1>1 DEF Process
<1>5. c.kind = "recreate" /\ c.target = proc[p].target /\ c.input = 2 /\ c.done = 0
      /\ c.exit = "running"
  OBVIOUS
<1>6. proc' = [proc EXCEPT ![p] = s] /\ client' = [client EXCEPT ![p] = c]
  BY <1>1 DEF StartRecreate, Goto, TypeOK
<1>7. proc'[p] = s /\ client'[p] = c
  BY <1>1, <1>6 DEF TypeOK
<1> HIDE DEF c, s
<1>8. ProcessShape(p)'
  BY <1>1, <1>4, <1>5, <1>7 DEF ProcessShape, ClientOf, Sane, Filled, StartRecreate
<1> QED
  BY <1>1, <1>3, <1>4, <1>6, <1>8, Moves DEF StartRecreate

LEMMA AwaitRecreateStep ==
  ASSUME InductiveInvariant, NEW p \in Procs, AwaitRecreate(p)
  PROVE  InductiveInvariant'
<1> DEFINE s == [proc[p] EXCEPT !.pc = "recreated"]
<1>1. /\ TypeOK /\ proc[p].pc = "recreating" /\ ProcessShape(p) /\ proc[p] \in Process
      /\ orphans \subseteq Client /\ \A o \in orphans : OrphanShape(o)
  BY ProcessType DEF InductiveInvariant, AwaitRecreate, At, TypeOK
<1>2. CASE Fail(p)
  BY <1>1, <1>2, FailStep
<1>3. ASSUME client[p].exit = "ok", client' = [client EXCEPT ![p] = NoClient],
             Goto(p, "recreated"), UNCHANGED <<lock, marker, db, orphans, strayed>>
      PROVE  InductiveInvariant'
  <2>1. s \in Process /\ s.pc = "recreated" /\ s.target = proc[p].target
        /\ s.dump = proc[p].dump
    BY <1>1 DEF Process
  <2>2. proc' = [proc EXCEPT ![p] = s]
    BY <1>1, <1>3 DEF Goto, TypeOK
  <2>3. proc'[p] = s /\ client'[p] = NoClient
    BY <1>1, <1>3, <2>2 DEF TypeOK
  <2>4. client[p].done = 2
    BY <1>1, <1>3 DEF ProcessShape, ClientOf, Sane
  <2> HIDE DEF s
  <2>5. strayed[proc[p].target] \/ db[proc[p].target].exists
    BY <1>1, <2>4 DEF ProcessShape, Filled
  <2>6. ProcessShape(p)'
    BY <1>1, <1>3, <2>1, <2>3, <2>5, Nones DEF ProcessShape, ClientOf, Filled
  <2> QED
    BY <1>1, <1>3, <2>1, <2>2, <2>6, Nones, Moves
<1> QED
  BY <1>2, <1>3 DEF AwaitRecreate

LEMMA StartImportStep ==
  ASSUME InductiveInvariant, NEW p \in Procs, StartImport(p)
  PROVE  InductiveInvariant'
<1> DEFINE s == [proc[p] EXCEPT !.pc = "importing"]
<1>1. /\ TypeOK /\ proc[p].pc = "recreated" /\ ProcessShape(p) /\ proc[p] \in Process
      /\ orphans \subseteq Client /\ \A o \in orphans : OrphanShape(o)
  BY ProcessType DEF InductiveInvariant, StartImport, At, TypeOK
<1>2. proc[p].target \in Targets /\ proc[p].dump \in Dumps
  BY <1>1 DEF ProcessShape
<1>3. PICK content \in {proc[p].dump, "other"} :
        client' = [client EXCEPT ![p] =
                     [kind |-> "import", target |-> proc[p].target,
                      content |-> content, input |-> 0, done |-> 0,
                      eof |-> FALSE, exit |-> "running"]]
  BY DEF StartImport
<1> DEFINE c == [kind |-> "import", target |-> proc[p].target,
                 content |-> content, input |-> 0, done |-> 0,
                 eof |-> FALSE, exit |-> "running"]
<1>4. c \in Client
  BY <1>2, PartsAssumption DEF Client
<1>5. s \in Process /\ s.pc = "importing" /\ s.target = proc[p].target
      /\ s.dump = proc[p].dump
  BY <1>1 DEF Process
<1>6. c.kind = "import" /\ c.target = proc[p].target /\ c.input = 0 /\ c.done = 0
      /\ c.exit = "running" /\ c.content # NoDump
  BY <1>2, NonesAssumption
<1>7. proc' = [proc EXCEPT ![p] = s] /\ client' = [client EXCEPT ![p] = c]
  BY <1>1, <1>3 DEF StartImport, Goto, TypeOK
<1>8. proc'[p] = s /\ client'[p] = c
  BY <1>1, <1>7 DEF TypeOK
<1> HIDE DEF c, s
<1>9. ProcessShape(p)'
  BY <1>1, <1>5, <1>6, <1>8 DEF ProcessShape, ClientOf, Sane, Filled, StartImport
<1> QED
  BY <1>1, <1>4, <1>5, <1>7, <1>9, Moves DEF StartImport

LEMMA SendChunkStep ==
  ASSUME InductiveInvariant, NEW p \in Procs, SendChunk(p)
  PROVE  InductiveInvariant'
<1> DEFINE c == [client[p] EXCEPT !.input = @ + 1]
<1>1. /\ TypeOK /\ proc[p].pc = "importing" /\ ProcessShape(p) /\ proc[p] \in Process
      /\ client[p] \in Client /\ client[p].input < Parts /\ client[p].exit = "running"
      /\ orphans \subseteq Client /\ \A o \in orphans : OrphanShape(o)
  BY ProcessType DEF InductiveInvariant, SendChunk, At, TypeOK
<1>2. c \in Client /\ c.input = client[p].input + 1 /\ c.kind = client[p].kind
      /\ c.target = client[p].target /\ c.content = client[p].content
      /\ c.done = client[p].done /\ c.exit = client[p].exit
      /\ client[p].input \in Nat /\ client[p].done \in Nat
  BY <1>1, PartsAssumption DEF Client
<1>3. proc' = [proc EXCEPT ![p] = proc[p]] /\ client' = [client EXCEPT ![p] = c]
  BY <1>1 DEF SendChunk, TypeOK
<1>4. proc'[p] = proc[p] /\ client'[p] = c
  BY <1>1, <1>3 DEF TypeOK
<1> HIDE DEF c
<1>5. ProcessShape(p)'
  BY <1>1, <1>2, <1>4 DEF ProcessShape, ClientOf, Sane, Filled, SendChunk
<1> QED
  BY <1>1, <1>2, <1>3, <1>5, Moves DEF SendChunk

LEMMA EndInputStep ==
  ASSUME InductiveInvariant, NEW p \in Procs, EndInput(p)
  PROVE  InductiveInvariant'
<1> DEFINE c == [client[p] EXCEPT !.eof = TRUE]
           s == [proc[p] EXCEPT !.pc = "draining"]
<1>1. /\ TypeOK /\ proc[p].pc = "importing" /\ ProcessShape(p) /\ proc[p] \in Process
      /\ client[p] \in Client
      /\ orphans \subseteq Client /\ \A o \in orphans : OrphanShape(o)
  BY ProcessType DEF InductiveInvariant, EndInput, At, TypeOK
<1>2. c \in Client /\ c.input = client[p].input /\ c.kind = client[p].kind
      /\ c.target = client[p].target /\ c.content = client[p].content
      /\ c.done = client[p].done /\ c.exit = client[p].exit
  BY <1>1 DEF Client
<1>3. s \in Process /\ s.pc = "draining" /\ s.target = proc[p].target
      /\ s.dump = proc[p].dump
  BY <1>1 DEF Process
<1>4. proc' = [proc EXCEPT ![p] = s] /\ client' = [client EXCEPT ![p] = c]
  BY <1>1 DEF EndInput, Goto, TypeOK
<1>5. proc'[p] = s /\ client'[p] = c
  BY <1>1, <1>4 DEF TypeOK
<1> HIDE DEF c, s
<1>6. ProcessShape(p)'
  BY <1>1, <1>2, <1>3, <1>5 DEF ProcessShape, ClientOf, Sane, Filled, EndInput
<1> QED
  BY <1>1, <1>2, <1>3, <1>4, <1>6, Moves DEF EndInput

LEMMA AwaitImportStep ==
  ASSUME InductiveInvariant, NEW p \in Procs, AwaitImport(p)
  PROVE  InductiveInvariant'
<1> DEFINE s == [proc[p] EXCEPT !.pc = "imported"]
<1>1. /\ TypeOK /\ proc[p].pc = "draining" /\ ProcessShape(p) /\ proc[p] \in Process
      /\ orphans \subseteq Client /\ \A o \in orphans : OrphanShape(o)
  BY ProcessType DEF InductiveInvariant, AwaitImport, At, TypeOK
<1>2. CASE Fail(p)
  BY <1>1, <1>2, FailStep
<1>3. ASSUME client[p].exit = "ok", Verified(p),
             client' = [client EXCEPT ![p] = NoClient],
             Goto(p, "imported"), UNCHANGED <<lock, marker, db, orphans, strayed>>
      PROVE  InductiveInvariant'
  <2>1. s \in Process /\ s.pc = "imported" /\ s.target = proc[p].target
        /\ s.dump = proc[p].dump
    BY <1>1 DEF Process
  <2>2. proc' = [proc EXCEPT ![p] = s]
    BY <1>1, <1>3 DEF Goto, TypeOK
  <2>3. proc'[p] = s /\ client'[p] = NoClient
    BY <1>1, <1>3, <2>2 DEF TypeOK
  <2>4. client[p].kind = "import" /\ client[p].done = Parts
        /\ client[p].content = proc[p].dump
    BY <1>1, <1>3 DEF ProcessShape, ClientOf, Sane, Verified
  <2> HIDE DEF s
  <2>5. strayed[proc[p].target] \/
          /\ db[proc[p].target].exists
          /\ \A i \in 1..Parts : db[proc[p].target].tables[i] = proc[p].dump
    BY <1>1, <2>4 DEF ProcessShape, Filled
  <2>6. ProcessShape(p)'
    BY <1>1, <1>3, <2>1, <2>3, <2>5, Nones DEF ProcessShape, ClientOf, Filled
  <2> QED
    BY <1>1, <1>3, <2>1, <2>2, <2>6, Nones, Moves
<1> QED
  BY <1>2, <1>3 DEF AwaitImport

-----------------------------------------------------------------------------
(* The clients and the server.                                             *)

LEMMA EmptyType == EmptyTables \in [1..Parts -> Content]
  BY DEF EmptyTables, Content

(* What a statement makes of a database, case by case.                     *)
LEMMA AfterType ==
  ASSUME NEW c \in Client, Sane(c), c.kind # "none", HasStatement(c),
         db[c.target] \in Database
  PROVE  /\ After(c) \in Database
         /\ c.kind = "recreate" /\ c.done = 1 => After(c).exists
         /\ c.kind = "import" =>
              /\ After(c).exists = db[c.target].exists
              /\ After(c).tables = [db[c.target].tables EXCEPT ![c.done + 1] = c.content]
<1> DEFINE old == db[c.target]
<1>1. /\ c.kind \in {"recreate", "import"} /\ c.done \in Nat /\ c.done < c.input
      /\ c.input \in 0..Parts /\ old \in Database
  BY PartsAssumption DEF Client, HasStatement
<1>2. CASE c.kind = "recreate"
  <2>1. PICK kept \in BOOLEAN : kept = ~Drops(c)
    BY Zenon
  <2>2. After(c) = [exists |-> kept, tables |-> EmptyTables]
    BY <1>2, <2>1 DEF After
  <2>3. c.done = 1 => kept
    <3>1. c.done = 1 => ~Drops(c)
      BY DEF Drops
    <3> QED
      BY <2>1, <3>1, Zenon
  <2> QED
    BY <1>2, <2>2, <2>3, EmptyType DEF Database
<1>4. CASE c.kind = "import"
  <2>2. After(c) = [old EXCEPT !.tables[c.done + 1] = c.content]
    BY <1>4 DEF After
  <2>3. c.content \in Content /\ c.done + 1 \in 1..Parts
    BY <1>1, <1>4, PartsAssumption DEF Client, Sane, Content
  <2> QED
    BY <1>1, <1>4, <2>2, <2>3, ZenonT(60) DEF Database
<1> QED
  BY <1>1, <1>2, <1>4

(* A client that has executed one statement more.                          *)
LEMMA OneMore ==
  ASSUME NEW c \in Client, Sane(c), HasStatement(c), NEW d,
         d = [c EXCEPT !.done = @ + 1]
  PROVE  /\ d \in Client /\ Sane(d) /\ d.done = c.done + 1
         /\ d.kind = c.kind /\ d.target = c.target /\ d.content = c.content
<1>1. c.done \in Nat /\ c.input \in 0..Parts /\ c.done < c.input /\ c.exit = "running"
  BY PartsAssumption DEF Client, HasStatement
<1>2. c.done + 1 \in 0..Parts /\ c.done + 1 <= c.input
  BY <1>1, PartsAssumption
<1>3. /\ d \in Client /\ d.done = c.done + 1 /\ d.input = c.input /\ d.exit = c.exit
      /\ d.kind = c.kind /\ d.target = c.target /\ d.content = c.content
  BY <1>2 DEF Client
<1> QED
  BY <1>1, <1>2, <1>3 DEF Sane

(* A client that runs is one of a restore that has said so.                *)
LEMMA ClientBusy ==
  ASSUME InductiveInvariant, NEW p \in Procs, client[p].exit = "running"
  PROVE  /\ client[p] \in Client /\ Sane(client[p]) /\ client[p].kind # "none"
         /\ proc[p].pc \in {"recreating", "importing", "draining"}
         /\ proc[p].target \in Targets /\ client[p].target = proc[p].target
         /\ lock[proc[p].target] = p /\ proc[p].dump \in Dumps
         /\ marker[proc[p].target] = [status |-> "incomplete", dump |-> proc[p].dump]
<1>1. client[p] \in Client /\ ProcessShape(p)
  BY ProcessType DEF InductiveInvariant
<1>2. client[p].kind # "none"
  BY <1>1 DEF ProcessShape, Sane
<1>3. proc[p].pc \in {"recreating", "importing", "draining"}
  BY <1>1, <1>2 DEF ProcessShape, ClientOf
<1> QED
  BY <1>1, <1>2, <1>3 DEF ProcessShape

LEMMA ClientExecutesStep ==
  ASSUME InductiveInvariant, NEW p \in Procs, ClientExecutes(p)
  PROVE  InductiveInvariant'
<1>0. PICK t \in Targets : t = client[p].target
  BY ClientBusy DEF ClientExecutes, HasStatement
<1>1. /\ TypeOK /\ ProcessShape(p) /\ client[p] \in Client /\ Sane(client[p])
      /\ client[p].kind # "none" /\ proc[p].target = t /\ lock[t] = p
      /\ marker[t].status = "incomplete" /\ client[p].target = t
      /\ proc[p].pc \in {"recreating", "importing", "draining"}
      /\ orphans \subseteq Client /\ \A o \in orphans : OrphanShape(o)
      /\ HasStatement(client[p])
  <2>1. HasStatement(client[p]) /\ client[p].exit = "running"
    BY DEF ClientExecutes, HasStatement
  <2>2. TypeOK /\ ProcessShape(p) /\ \A o \in orphans : OrphanShape(o)
    BY DEF InductiveInvariant
  <2>3. /\ client[p] \in Client /\ Sane(client[p]) /\ client[p].kind # "none"
        /\ proc[p].pc \in {"recreating", "importing", "draining"}
        /\ client[p].target = proc[p].target /\ lock[proc[p].target] = p
        /\ marker[proc[p].target] = [status |-> "incomplete", dump |-> proc[p].dump]
    BY <2>1, ClientBusy
  <2> QED
    BY <1>0, <2>1, <2>2, <2>3 DEF TypeOK
<1>2. PICK c \in Client : c = [client[p] EXCEPT !.done = @ + 1]
  <2>1. [client[p] EXCEPT !.done = @ + 1] \in Client
    BY <1>1, OneMore
  <2> QED
    BY <2>1
<1>3. /\ Sane(c) /\ c.done = client[p].done + 1 /\ c.kind = client[p].kind
      /\ c.target = t /\ c.content = client[p].content
  BY <1>1, <1>2, OneMore
<1>4. PICK made \in Database : made = After(client[p])
  BY <1>1, AfterType, TargetType
<1>5. /\ client[p].kind = "recreate" /\ client[p].done = 1 => made.exists
      /\ client[p].kind = "import" =>
           /\ made.exists = db[t].exists
           /\ made.tables = [db[t].tables EXCEPT ![client[p].done + 1] = client[p].content]
  BY <1>1, <1>4, AfterType, TargetType
<1>6. /\ db' = [db EXCEPT ![t] = made]
      /\ client' = [client EXCEPT ![p] = c]
      /\ strayed' = [strayed EXCEPT ![t] = @ /\ ~Drops(client[p])]
  BY <1>0, <1>2, <1>4 DEF ClientExecutes
<1>7. /\ db'[t] = made /\ client'[p] = c /\ strayed' \in [Targets -> BOOLEAN]
      /\ strayed'[t] = (strayed[t] /\ ~Drops(client[p]))
  <2>1. (strayed[t] /\ ~Drops(client[p])) \in BOOLEAN
    BY Zenon
  <2> QED
    BY <1>1, <1>6, <2>1 DEF TypeOK
<1>8. OthersKept(p, t)
  BY <1>1, <1>6 DEF OthersKept, ClientExecutes, TypeOK
<1>9. TypeOK'
  BY <1>1, <1>6, <1>7 DEF TypeOK, ClientExecutes
<1>10. client[p].done \in Nat /\ client[p].input \in 0..Parts
       /\ client[p].done < client[p].input /\ db[t].tables \in [1..Parts -> Content]
  BY <1>1, PartsAssumption, TargetType DEF HasStatement, Client, Database
<1>11. strayed'[t] \/ Filled(p)'
  <2>1. CASE client[p].kind = "recreate"
    <3>1. client[p].done = 0 \/ made.exists
      BY <1>1, <1>5, <1>10, <2>1 DEF Sane
    <3>2. proc[p].pc = "recreating"
      BY <1>1, <2>1 DEF ProcessShape, ClientOf
    <3> QED
      BY <1>1, <1>3, <1>7, <2>1, <3>1, <3>2 DEF Filled, ClientExecutes
  <2>2. CASE client[p].kind = "import"
    <3>1. ~Drops(client[p]) /\ strayed'[t] = strayed[t]
      BY <1>1, <1>7, <2>2, TargetType DEF Drops
    <3>2. ASSUME ~strayed[t]
          PROVE  /\ db[t].exists
                 /\ \A i \in 1..client[p].done : db[t].tables[i] = client[p].content
      BY <1>1, <2>2, <3>2 DEF ProcessShape, ClientOf, Filled
    <3>3. proc[p].pc \in {"importing", "draining"}
      BY <1>1, <2>2 DEF ProcessShape, ClientOf
    <3>4. ASSUME ~strayed[t], NEW i \in 1..(client[p].done + 1)
          PROVE  made.tables[i] = client[p].content
      <4>1. CASE i = client[p].done + 1
        BY <1>5, <1>10, <2>2, <4>1, PartsAssumption
      <4>2. CASE i # client[p].done + 1
        <5>1. i \in 1..client[p].done
          BY <1>10, <4>2
        <5>2. db[t].tables[i] = client[p].content
          BY <3>2, <3>4, <5>1
        <5> QED
          BY <1>5, <1>10, <2>2, <4>2, <5>2, PartsAssumption
      <4> QED
        BY <4>1, <4>2
    <3> QED
      BY <1>1, <1>3, <1>5, <1>7, <2>2, <3>1, <3>2, <3>3, <3>4 DEF Filled, ClientExecutes
  <2> QED
    BY <1>1, <2>1, <2>2 DEF Client
<1>12. ProcessShape(p)'
  BY <1>1, <1>3, <1>7, <1>11 DEF ProcessShape, ClientOf, ClientExecutes
<1> QED
  BY <1>1, <1>8, <1>9, <1>12, Advance DEF ClientExecutes

LEMMA ClientFinishesStep ==
  ASSUME InductiveInvariant, NEW p \in Procs, ClientFinishes(p)
  PROVE  InductiveInvariant'
<1> DEFINE c == [client[p] EXCEPT !.exit = "ok"]
<1>1. /\ TypeOK /\ ProcessShape(p) /\ proc[p] \in Process
      /\ orphans \subseteq Client /\ \A o \in orphans : OrphanShape(o)
  BY ProcessType DEF InductiveInvariant, TypeOK
<1>2. /\ client[p] \in Client /\ client[p].kind # "none" /\ proc[p].pc # "idle"
      /\ client[p].done = client[p].input /\ Sane(client[p])
  BY ClientBusy DEF ClientFinishes
<1>3. /\ c \in Client /\ c.exit = "ok" /\ c.input = client[p].input
      /\ c.kind = client[p].kind /\ c.target = client[p].target
      /\ c.content = client[p].content /\ c.done = client[p].done
  BY <1>2 DEF Client
<1>4. proc' = [proc EXCEPT ![p] = proc[p]] /\ client' = [client EXCEPT ![p] = c]
  BY <1>1 DEF ClientFinishes, TypeOK
<1>5. proc'[p] = proc[p] /\ client'[p] = c
  BY <1>1, <1>4 DEF TypeOK
<1> HIDE DEF c
<1>6. ProcessShape(p)'
  BY <1>1, <1>2, <1>3, <1>5 DEF ProcessShape, Sane, Filled, ClientFinishes
<1> QED
  BY <1>1, <1>2, <1>3, <1>4, <1>6, Moves DEF ClientFinishes

(* A client that goes on has what its process gave it.                     *)
LEMMA Outlived ==
  ASSUME InductiveInvariant, NEW p \in Procs, Outlives(p)
  PROVE  orphans' \subseteq Client /\ \A o \in orphans' : OrphanShape(o)
<1> DEFINE c == [client[p] EXCEPT !.eof = TRUE]
<1>1. orphans \subseteq Client /\ \A o \in orphans : OrphanShape(o)
  BY DEF InductiveInvariant, TypeOK
<1>2. CASE UNCHANGED orphans
  BY <1>1, <1>2
<1>3. CASE HasStatement(client[p]) /\ orphans' = orphans \cup {c}
  <2>1. /\ client[p] \in Client /\ Sane(client[p]) /\ client[p].kind # "none"
        /\ client[p].target \in Targets
    BY <1>3, ClientBusy DEF HasStatement
  <2>2. /\ c \in Client /\ c.exit = client[p].exit /\ c.input = client[p].input
        /\ c.kind = client[p].kind /\ c.target = client[p].target
        /\ c.content = client[p].content /\ c.done = client[p].done
    BY <2>1 DEF Client
  <2> HIDE DEF c
  <2>3. OrphanShape(c)
    BY <2>1, <2>2 DEF OrphanShape, Sane
  <2> QED
    BY <1>1, <1>3, <2>2, <2>3
<1> QED
  BY <1>2, <1>3 DEF Outlives

LEMMA ClientFailsStep ==
  ASSUME InductiveInvariant, NEW p \in Procs, ClientFails(p)
  PROVE  InductiveInvariant'
<1> DEFINE c == [client[p] EXCEPT !.exit = "failed"]
<1>1. /\ TypeOK /\ ProcessShape(p) /\ proc[p] \in Process
  BY ProcessType DEF InductiveInvariant, TypeOK
<1>2. /\ client[p] \in Client /\ client[p].kind # "none" /\ proc[p].pc # "idle"
      /\ Sane(client[p])
  BY ClientBusy DEF ClientFails
<1>3. /\ c \in Client /\ c.exit = "failed" /\ c.input = client[p].input
      /\ c.kind = client[p].kind /\ c.target = client[p].target
      /\ c.content = client[p].content /\ c.done = client[p].done
  BY <1>2 DEF Client
<1>4. proc' = [proc EXCEPT ![p] = proc[p]] /\ client' = [client EXCEPT ![p] = c]
  BY <1>1 DEF ClientFails, TypeOK
<1>5. proc'[p] = proc[p] /\ client'[p] = c
  BY <1>1, <1>4 DEF TypeOK
<1>6. orphans' \subseteq Client /\ \A o \in orphans' : OrphanShape(o)
  BY Outlived DEF ClientFails
<1> HIDE DEF c
<1>7. ProcessShape(p)'
  BY <1>1, <1>2, <1>3, <1>5 DEF ProcessShape, Sane, Filled, ClientFails
<1> QED
  BY <1>1, <1>2, <1>3, <1>4, <1>6, <1>7, Moves DEF ClientFails

(* Interrupted or killed.                                                  *)
LEMMA LoseClientStep ==
  ASSUME InductiveInvariant, NEW p \in Procs, proc[p].pc # "idle",
         LoseClient(p), Return(p)
  PROVE  InductiveInvariant'
<1>1. orphans' \subseteq Client /\ \A o \in orphans' : OrphanShape(o)
  BY Outlived DEF LoseClient
<1>2. "incomplete" \in {"incomplete", "ready"} /\ "incomplete" # "ready"
  OBVIOUS
<1> QED
  BY <1>1, <1>2, Nones, Returns DEF LoseClient

(* An orphan strays: nothing is claimed of its database any more.          *)
LEMMA OrphanExecutesStep ==
  ASSUME InductiveInvariant, NEW c \in orphans, OrphanExecutes(c)
  PROVE  InductiveInvariant'
<1>0. PICK t \in Targets : t = c.target
  BY DEF InductiveInvariant, OrphanShape
<1>1. /\ TypeOK /\ c \in Client /\ Sane(c) /\ c.kind # "none" /\ HasStatement(c)
      /\ orphans \subseteq Client /\ \A o \in orphans : OrphanShape(o)
  BY DEF InductiveInvariant, OrphanShape, OrphanExecutes, TypeOK
<1>2. PICK made \in Database : made = After(c)
  BY <1>0, <1>1, AfterType, TargetType
<1>3. PICK d : d = [c EXCEPT !.done = @ + 1]
  OBVIOUS
<1>4. d \in Client /\ OrphanShape(d)
  BY <1>0, <1>1, <1>3, OneMore DEF OrphanShape
<1>5. /\ db' = [db EXCEPT ![t] = made] /\ strayed' = [strayed EXCEPT ![t] = TRUE]
      /\ orphans' = (orphans \ {c}) \cup {d}
      /\ UNCHANGED <<lock, marker, proc, client>>
  BY <1>0, <1>2, <1>3 DEF OrphanExecutes
<1>6. TypeOK'
  BY <1>1, <1>4, <1>5 DEF TypeOK
<1>7. /\ strayed'[t] = TRUE
      /\ \A u \in Targets : u # t => db'[u] = db[u] /\ strayed'[u] = strayed[u]
  BY <1>1, <1>5 DEF TypeOK
<1>8. ASSUME NEW p \in Procs
      PROVE  ProcessShape(p)'
  <2>1. ProcessShape(p)
    BY DEF InductiveInvariant
  <2>2. proc[p].pc # "idle" => strayed'[proc[p].target] \/ Filled(p)'
    BY <1>5, <1>7, <2>1 DEF ProcessShape, Filled
  <2> QED
    BY <1>5, <2>1, <2>2 DEF ProcessShape
<1>9. (\A o \in orphans : OrphanShape(o))'
  BY <1>1, <1>4, <1>5 DEF OrphanShape, Sane
<1>10. ReadyIsExactUnlessStrayed'
  BY <1>5, <1>7 DEF InductiveInvariant, ReadyIsExactUnlessStrayed, Exact
<1> QED
  BY <1>6, <1>8, <1>9, <1>10 DEF InductiveInvariant

LEMMA OrphanExitsStep ==
  ASSUME InductiveInvariant, NEW c \in orphans, OrphanExits(c)
  PROVE  InductiveInvariant'
<1>1. TypeOK'
  BY DEF InductiveInvariant, TypeOK, OrphanExits
<1>2. (\A p \in Procs : ProcessShape(p))'
  BY DEF InductiveInvariant, ProcessShape, Filled, OrphanExits
<1>3. (\A o \in orphans : OrphanShape(o))'
  BY DEF InductiveInvariant, OrphanShape, Sane, OrphanExits
<1>4. ReadyIsExactUnlessStrayed'
  BY DEF InductiveInvariant, ReadyIsExactUnlessStrayed, Exact, OrphanExits
<1> QED
  BY <1>1, <1>2, <1>3, <1>4 DEF InductiveInvariant

-----------------------------------------------------------------------------
LEMMA InitInvariant == Init => InductiveInvariant
<1> SUFFICES ASSUME Init
             PROVE  InductiveInvariant
  OBVIOUS
<1>1. TypeOK
  <2>1. [i \in 1..Parts |-> "other"] \in [1..Parts -> Content]
    BY DEF Content
  <2>2. /\ [exists |-> FALSE, tables |-> EmptyTables] \in Database
        /\ [exists |-> TRUE, tables |-> [i \in 1..Parts |-> "other"]] \in Database
    BY <2>1, EmptyType DEF Database
  <2>3. db \in [Targets -> Database]
    BY <2>2 DEF Init
  <2>4. proc \in [Procs -> Process] /\ client \in [Procs -> Client]
    BY Nones DEF Init
  <2>5. marker \in [Targets -> Marker]
    BY DEF Init, Marker
  <2> QED
    BY <2>3, <2>4, <2>5 DEF Init, TypeOK
<1>2. \A p \in Procs : ProcessShape(p)
  BY Nones DEF Init, ProcessShape, ClientOf, IdleProcess
<1>3. (\A o \in orphans : OrphanShape(o)) /\ ReadyIsExactUnlessStrayed
  BY DEF Init, ReadyIsExactUnlessStrayed
<1> QED
  BY <1>1, <1>2, <1>3 DEF InductiveInvariant

LEMMA RestoreStepInvariant ==
  ASSUME InductiveInvariant, NEW p \in Procs, RestoreStep(p)
  PROVE  InductiveInvariant'
<1>1. CASE StartFails(p)
  BY <1>1, FailStep DEF StartFails
<1>2. CASE WriteFails(p)
  BY <1>2, FailStep DEF WriteFails, At
<1> QED
  BY <1>1, <1>2, SaveIncompleteStep, StartRecreateStep, AwaitRecreateStep,
     StartImportStep, SendChunkStep, EndInputStep, AwaitImportStep, SaveReadyStep
  DEF RestoreStep

LEMMA NextInvariant == InductiveInvariant /\ [Next]_vars => InductiveInvariant'
<1> SUFFICES ASSUME InductiveInvariant, [Next]_vars
             PROVE  InductiveInvariant'
  OBVIOUS
<1>1. CASE UNCHANGED vars
  <2>1. TypeOK'
    BY <1>1 DEF InductiveInvariant, TypeOK, vars
  <2>2. (\A p \in Procs : ProcessShape(p))'
    BY <1>1 DEF InductiveInvariant, ProcessShape, Filled, vars
  <2>3. (\A o \in orphans : OrphanShape(o))' /\ ReadyIsExactUnlessStrayed'
    BY <1>1 DEF InductiveInvariant, OrphanShape, ReadyIsExactUnlessStrayed, Exact, vars
  <2> QED
    BY <2>1, <2>2, <2>3 DEF InductiveInvariant
<1>2. ASSUME NEW p \in Procs, NEW d \in Dumps, NEW t \in Targets, Restore(p, d, t)
      PROVE  InductiveInvariant'
  BY <1>2, RestoreBegins
<1>3. ASSUME NEW p \in Procs, RestoreStep(p)
      PROVE  InductiveInvariant'
  BY <1>3, RestoreStepInvariant
<1>4. ASSUME NEW p \in Procs, ClientStep(p) \/ ClientFails(p)
      PROVE  InductiveInvariant'
  BY <1>4, ClientExecutesStep, ClientFinishesStep, ClientFailsStep DEF ClientStep
<1>5. ASSUME NEW p \in Procs, Interrupt(p) \/ Crash(p)
      PROVE  InductiveInvariant'
  BY <1>5, LoseClientStep DEF Interrupt, Crash, At
<1>6. CASE OrphanStep
  BY <1>6, OrphanExecutesStep, OrphanExitsStep DEF OrphanStep
<1> QED
  BY <1>1, <1>2, <1>3, <1>4, <1>5, <1>6 DEF Next

(* Every reachable state satisfies the inductive invariant: who restores   *)
(* has the lock of its target, has said so, and knows what it has made.    *)
THEOREM InvariantHolds == Spec => []InductiveInvariant
  BY InitInvariant, NextInvariant, PTL DEF Spec

(* Every variable keeps to its set of values.                              *)
THEOREM TypeCorrect == Spec => []TypeOK
<1>1. InductiveInvariant => TypeOK
  BY DEF InductiveInvariant
<1> QED
  BY <1>1, InvariantHolds, PTL

(* A state saved as ready tells the truth about its database, whatever     *)
(* failed, was interrupted or was killed before, unless an orphaned client *)
(* ran a statement since the last DROP.                                    *)
THEOREM ReadyHolds == Spec => []ReadyIsExactUnlessStrayed
<1>1. InductiveInvariant => ReadyIsExactUnlessStrayed
  BY DEF InductiveInvariant
<1> QED
  BY <1>1, InvariantHolds, PTL

(* Two restores never have clients on the same database: the operation     *)
(* lock of the target.                                                     *)
THEOREM ClientsHold == Spec => []OneClientPerTarget
<1>1. InductiveInvariant => OneClientPerTarget
  <2> SUFFICES ASSUME InductiveInvariant, NEW p \in Procs, NEW q \in Procs, p # q,
                      client[p].kind # "none", client[q].target = client[p].target
               PROVE  FALSE
    BY DEF OneClientPerTarget
  <2>1. /\ ProcessShape(p) /\ ProcessShape(q)
        /\ client[q] \in Client
    BY ProcessType DEF InductiveInvariant
  <2>2. client[p].target \in Targets /\ lock[client[p].target] = p
    BY <2>1 DEF ProcessShape, ClientOf
  <2>3. CASE client[q].kind # "none"
    BY <2>1, <2>2, <2>3 DEF ProcessShape, ClientOf
  <2>4. CASE client[q].kind = "none"
    BY <2>1, <2>2, <2>4, NonesAssumption DEF ProcessShape, Sane
  <2> QED
    BY <2>3, <2>4
<1> QED
  BY <1>1, InvariantHolds, PTL

-----------------------------------------------------------------------------
(* What changes a database: a client that reprodb watches, on a target     *)
(* whose lock its process holds and whose saved state is incomplete, or an *)
(* orphan, which is then another one.                                      *)
LEMMA ChangesStep ==
  ASSUME InductiveInvariant, [Next]_vars, NEW t \in Targets, db'[t] # db[t],
         orphans' = orphans
  PROVE  /\ marker[t].status = "incomplete"
         /\ \E p \in Procs : lock[t] = p /\ proc[p].dump = marker[t].dump
<1>1. TypeOK
  BY DEF InductiveInvariant
<1>2. ASSUME NEW p \in Procs, ClientExecutes(p)
      PROVE  /\ marker[t].status = "incomplete"
             /\ \E q \in Procs : lock[t] = q /\ proc[q].dump = marker[t].dump
  <2>1. client[p].exit = "running" /\ db' = [db EXCEPT ![client[p].target] = After(client[p])]
    BY <1>2 DEF ClientExecutes, HasStatement
  <2>2. client[p].target = t
    <3>1. client[p].target # t => db'[t] = db[t]
      BY <1>1, <2>1 DEF TypeOK
    <3> QED
      BY <3>1
  <2>3. /\ proc[p].target = t /\ lock[t] = p
        /\ marker[t] = [status |-> "incomplete", dump |-> proc[p].dump]
    BY <2>1, <2>2, ClientBusy
  <2> QED
    BY <2>3
<1>3. ASSUME NEW c \in orphans, OrphanExecutes(c)
      PROVE  FALSE
  <2>1. c \in Client /\ c.done \in Nat
    BY <1>1, PartsAssumption DEF TypeOK, Client
  <2>2. PICK d : d = [c EXCEPT !.done = @ + 1]
    OBVIOUS
  <2>3. d.done = c.done + 1
    BY <2>1, <2>2 DEF Client
  <2>4. d # c
    BY <2>1, <2>3
  <2>5. orphans' = (orphans \ {c}) \cup {d}
    BY <1>3, <2>2 DEF OrphanExecutes
  <2>6. c \notin orphans'
    BY <2>4, <2>5
  <2> QED
    BY <2>6
<1>4. CASE UNCHANGED db
  BY <1>4
<1>5. ASSUME NEW p \in Procs, RestoreStep(p)
      PROVE  UNCHANGED db
  BY <1>5 DEF RestoreStep, SaveIncomplete, StartFails, Fail, StartRecreate,
     AwaitRecreate, StartImport, SendChunk, WriteFails, EndInput, AwaitImport,
     SaveReady
<1>6. ASSUME NEW p \in Procs, ClientStep(p), ~ClientExecutes(p)
      PROVE  UNCHANGED db
  BY <1>6 DEF ClientStep, ClientFinishes, ClientFails
<1>7. ASSUME NEW p \in Procs, ClientFails(p) \/ Interrupt(p) \/ Crash(p)
      PROVE  UNCHANGED db
  BY <1>7 DEF ClientFails, Interrupt, Crash, LoseClient
<1>8. ASSUME NEW p \in Procs, NEW d \in Dumps, NEW u \in Targets, Restore(p, d, u)
      PROVE  UNCHANGED db
  BY <1>8 DEF Restore
<1>9. ASSUME NEW c \in orphans, OrphanExits(c)
      PROVE  UNCHANGED db
  BY <1>9 DEF OrphanExits
<1> QED
  BY <1>2, <1>3, <1>4, <1>5, <1>6, <1>7, <1>8, <1>9 DEF Next, OrphanStep, vars

(* The clients that reprodb watches change a database only while its saved *)
(* state is incomplete and names the dump of the process that has the      *)
(* lock: the order save, DROP, import, save.                               *)
THEOREM ChangesHold == Spec => ChangedOnlyWhenIncomplete
<1>1. InductiveInvariant /\ [Next]_vars =>
        [\A t \in Targets : db'[t] # db[t] /\ orphans' = orphans =>
           /\ marker[t].status = "incomplete"
           /\ \E p \in Procs : lock[t] = p /\ proc[p].dump = marker[t].dump]_vars
  BY ChangesStep
<1> QED
  BY <1>1, InvariantHolds, PTL DEF Spec, ChangedOnlyWhenIncomplete

-----------------------------------------------------------------------------
(* Restoring keeps the promise of RestorePromise.  First come the actions  *)
(* of the promise, each from what it says of one database.                 *)

(* What the promise sees of every database but t stays as it is.           *)
OthersSeen(t) ==
  \A u \in Targets : u # t =>
    /\ HolderOf(u)' = HolderOf(u) /\ WorkingOn(u)' = WorkingOn(u)
    /\ marker'[u] = marker[u] /\ HoldsOf(u)' = HoldsOf(u)
    /\ strayed'[u] = strayed[u]

LEMMA PromiseStutter ==
  ASSUME UNCHANGED <<marker, strayed>>,
         \A t \in Targets : /\ HolderOf(t)' = HolderOf(t)
                            /\ WorkingOn(t)' = WorkingOn(t)
                            /\ HoldsOf(t)' = HoldsOf(t)
  PROVE  UNCHANGED Promise!vars
  BY DEF Promise!vars

LEMMA PromiseBegin ==
  ASSUME NEW t \in Targets, NEW p \in Procs, OthersSeen(t), UNCHANGED <<marker, strayed>>,
         HolderOf(t) = {}, HolderOf(t)' = {p}, WorkingOn(t)' = WorkingOn(t),
         HoldsOf(t)' = HoldsOf(t)
  PROVE  Promise!Next
<1>1. Promise!Begin(p, t)
  BY DEF OthersSeen, Promise!Begin
<1> QED
  BY <1>1 DEF Promise!Next

LEMMA PromiseEnd ==
  ASSUME NEW t \in Targets, NEW p \in Procs, OthersSeen(t), UNCHANGED <<marker, strayed>>,
         p \in HolderOf(t), HolderOf(t)' = {}, WorkingOn(t)' = {},
         HoldsOf(t)' = HoldsOf(t)
  PROVE  Promise!Next
<1>1. Promise!End(p, t)
  BY DEF OthersSeen, Promise!End, Promise!Leave
<1> QED
  BY <1>1 DEF Promise!Next

LEMMA PromiseAnnounce ==
  ASSUME NEW t \in Targets, NEW p \in Procs, NEW d \in Dumps, OthersSeen(t),
         UNCHANGED strayed,
         p \in HolderOf(t), WorkingOn(t) = {}, HoldsOf(t)' = HoldsOf(t),
         marker' = [marker EXCEPT ![t] = [status |-> "incomplete", dump |-> d]],
         \/ HolderOf(t)' = HolderOf(t) /\ WorkingOn(t)' = {p}
         \/ HolderOf(t)' = {} /\ WorkingOn(t)' = {}
  PROVE  Promise!Next
<1>1. Promise!Announce(p, t, d)
  BY DEF OthersSeen, Promise!Announce, Promise!Leave, Promise!Said
<1> QED
  BY <1>1 DEF Promise!Next

LEMMA PromiseDrop ==
  ASSUME NEW t \in Targets, NEW p \in Procs, OthersSeen(t), UNCHANGED marker,
         p \in WorkingOn(t), HolderOf(t)' = HolderOf(t), WorkingOn(t)' = WorkingOn(t),
         HoldsOf(t)' = {}, strayed' = [strayed EXCEPT ![t] = FALSE]
  PROVE  Promise!Next
<1>1. Promise!Drop(p, t)
  BY DEF OthersSeen, Promise!Drop
<1> QED
  BY <1>1 DEF Promise!Next

LEMMA PromiseFill ==
  ASSUME NEW t \in Targets, NEW p \in Procs, OthersSeen(t), UNCHANGED <<marker, strayed>>,
         p \in WorkingOn(t), HolderOf(t)' = HolderOf(t), WorkingOn(t)' = WorkingOn(t),
         HoldsOf(t)' \subseteq {marker[t].dump}
  PROVE  Promise!Next
<1>1. Promise!Fill(p, t)
  BY DEF OthersSeen, Promise!Fill
<1> QED
  BY <1>1 DEF Promise!Next

LEMMA PromiseClaim ==
  ASSUME NEW t \in Targets, NEW p \in Procs, OthersSeen(t), UNCHANGED strayed,
         p \in WorkingOn(t), HolderOf(t)' = {}, WorkingOn(t)' = {},
         HoldsOf(t)' = HoldsOf(t), strayed[t] \/ HoldsOf(t) = {marker[t].dump},
         marker' = [marker EXCEPT ![t].status = "ready"]
  PROVE  Promise!Next
<1>1. Promise!Claim(p, t)
  BY DEF OthersSeen, Promise!Claim, Promise!Leave
<1> QED
  BY <1>1 DEF Promise!Next

LEMMA PromiseStray ==
  ASSUME NEW t \in Targets, OthersSeen(t), UNCHANGED marker,
         HolderOf(t)' = HolderOf(t), WorkingOn(t)' = WorkingOn(t),
         NEW d \in Dumps \cup {NoDump}, HoldsOf(t)' = {d} \cap Dumps,
         strayed' = [strayed EXCEPT ![t] = TRUE]
  PROVE  Promise!Next
<1>1. Promise!Stray(t)
  BY DEF OthersSeen, Promise!Stray
<1> QED
  BY <1>1 DEF Promise!Next

(* A database that has any tables of dump d has only tables of it, or none *)
(* of a whole dump.                                                        *)
LEMMA HoldsOne ==
  ASSUME NEW t \in Targets, NEW i \in 1..Parts, NEW d, db[t].tables[i] = d
  PROVE  HoldsOf(t) \subseteq {d}
  BY DEF HoldsOf, Exact

-----------------------------------------------------------------------------
(* The steps of a restore that has the lock of t.                          *)

(* A process that is idle, or restores into t, is at no other database.    *)
LEMMA Aside ==
  ASSUME TypeOK, NEW p \in Procs, NEW t \in Targets, OthersKept(p, t),
         proc[p].pc = "idle" \/ proc[p].target = t,
         proc'[p].pc = "idle" \/ proc'[p].target = t
  PROVE  OthersSeen(t)
<1> SUFFICES ASSUME NEW u \in Targets, u # t
             PROVE  /\ HolderOf(u)' = HolderOf(u) /\ WorkingOn(u)' = WorkingOn(u)
                    /\ marker'[u] = marker[u] /\ HoldsOf(u)' = HoldsOf(u)
                    /\ strayed'[u] = strayed[u]
  BY DEF OthersSeen
<1>1. /\ lock'[u] = lock[u] /\ marker'[u] = marker[u]
      /\ db'[u] = db[u] /\ strayed'[u] = strayed[u]
  BY DEF OthersKept
<1>2. HolderOf(u)' = HolderOf(u)
  BY <1>1 DEF HolderOf
<1>3. HoldsOf(u)' = HoldsOf(u)
  BY <1>1 DEF HoldsOf, Exact
<1>4. ASSUME NEW q \in Procs
      PROVE  q \in WorkingOn(u)' <=> q \in WorkingOn(u)
  <2>1. CASE q = p
    BY <1>2, <2>1 DEF WorkingOn
  <2>2. CASE q # p
    BY <1>2, <2>2 DEF WorkingOn, OthersKept
  <2> QED
    BY <2>1, <2>2
<1>5. WorkingOn(u) \subseteq Procs /\ WorkingOn(u)' \subseteq Procs
  BY DEF WorkingOn, HolderOf
<1> QED
  BY <1>1, <1>2, <1>3, <1>4, <1>5

(* Its holder is the process that has the lock, from the start.            *)
LEMMA Holds ==
  ASSUME InductiveInvariant, NEW p \in Procs, proc[p].pc # "idle"
  PROVE  \E t \in Targets :
           /\ t = proc[p].target /\ proc[p].dump \in Dumps
           /\ HolderOf(t) = {p}
           /\ WorkingOn(t) = IF proc[p].pc = "locked" THEN {} ELSE {p}
           /\ proc[p].pc # "locked" =>
                marker[t] = [status |-> "incomplete", dump |-> proc[p].dump]
<1>1. ProcessShape(p)
  BY DEF InductiveInvariant
<1>2. PICK t \in Targets : t = proc[p].target
  BY <1>1 DEF ProcessShape
<1>3. proc[p].dump \in Dumps /\ lock[t] = p
  BY <1>1, <1>2 DEF ProcessShape
<1>4. HolderOf(t) = {p}
  BY <1>3 DEF HolderOf
<1>5. WorkingOn(t) = IF proc[p].pc = "locked" THEN {} ELSE {p}
  BY <1>2, <1>4 DEF WorkingOn
<1> QED
  BY <1>1, <1>2, <1>3, <1>4, <1>5 DEF ProcessShape

(* What has become of the database of a restore that returns.              *)
LEMMA Left ==
  ASSUME InductiveInvariant, NEW p \in Procs, proc[p].pc # "idle", Return(p),
         NEW t \in Targets, t = proc[p].target,
         \A q \in Procs : q # p => client'[q] = client[q],
         \A u \in Targets : u # t => marker'[u] = marker[u],
         UNCHANGED <<db, strayed>>
  PROVE  /\ OthersSeen(t)
         /\ HolderOf(t)' = {} /\ WorkingOn(t)' = {} /\ HoldsOf(t)' = HoldsOf(t)
<1>1. TypeOK
  BY DEF InductiveInvariant
<1>2. /\ lock'[t] = NoProc /\ proc'[p] = IdleProcess
      /\ \A q \in Procs : q # p => proc'[q] = proc[q]
      /\ \A u \in Targets : u # t => lock'[u] = lock[u]
  BY <1>1 DEF Return, TypeOK
<1>3. OthersSeen(t)
  <2>1. OthersKept(p, t)
    BY <1>1, <1>2 DEF OthersKept
  <2>2. proc'[p].pc = "idle"
    BY <1>2 DEF IdleProcess
  <2> QED
    BY <1>1, <2>1, <2>2, Aside
<1>4. HolderOf(t)' = {} /\ WorkingOn(t)' = {}
  BY <1>2, NonesAssumption DEF HolderOf, WorkingOn
<1>5. HoldsOf(t)' = HoldsOf(t)
  BY DEF HoldsOf, Exact
<1> QED
  BY <1>3, <1>4, <1>5

(* A process that goes on at its database shows nothing.                   *)
LEMMA GoesOn ==
  ASSUME InductiveInvariant, NEW p \in Procs, UNCHANGED <<lock, marker, db, strayed>>,
         \A q \in Procs : q # p => proc'[q] = proc[q],
         proc'[p].target = proc[p].target,
         proc'[p].pc \in {"idle", "locked"} <=> proc[p].pc \in {"idle", "locked"}
  PROVE  UNCHANGED Promise!vars
<1> SUFFICES ASSUME NEW t \in Targets
             PROVE  /\ HolderOf(t)' = HolderOf(t) /\ WorkingOn(t)' = WorkingOn(t)
                    /\ HoldsOf(t)' = HoldsOf(t)
  BY PromiseStutter
<1>1. HolderOf(t)' = HolderOf(t)
  BY DEF HolderOf
<1>2. HoldsOf(t)' = HoldsOf(t)
  BY DEF HoldsOf, Exact
<1>3. ASSUME NEW q \in Procs
      PROVE  q \in WorkingOn(t)' <=> q \in WorkingOn(t)
  <2>1. CASE q = p
    BY <1>1, <2>1 DEF WorkingOn
  <2>2. CASE q # p
    BY <1>1, <2>2 DEF WorkingOn
  <2> QED
    BY <2>1, <2>2
<1>4. WorkingOn(t) \subseteq Procs /\ WorkingOn(t)' \subseteq Procs
  BY DEF WorkingOn, HolderOf
<1> QED
  BY <1>1, <1>2, <1>3, <1>4

-----------------------------------------------------------------------------
(* Every step of the restores is one of the promise, or shows nothing.     *)

LEMMA BeginKeeps ==
  ASSUME InductiveInvariant, NEW p \in Procs, NEW d \in Dumps, NEW t \in Targets,
         Restore(p, d, t)
  PROVE  Promise!Next
<1>1. TypeOK /\ proc[p].pc = "idle" /\ lock[t] = NoProc
  BY DEF InductiveInvariant, Restore, At, Unlocked
<1>2. /\ lock'[t] = p /\ proc'[p].pc = "locked" /\ proc'[p].target = t
      /\ \A q \in Procs : q # p => proc'[q] = proc[q]
      /\ \A u \in Targets : u # t => lock'[u] = lock[u]
  BY <1>1 DEF Restore, TypeOK
<1>3. OthersSeen(t)
  <2>1. OthersKept(p, t)
    BY <1>2 DEF OthersKept, Restore
  <2> QED
    BY <1>1, <1>2, <2>1, Aside
<1>4. HolderOf(t) = {} /\ HolderOf(t)' = {p}
  BY <1>1, <1>2, NonesAssumption DEF HolderOf
<1>5. WorkingOn(t) = {} /\ WorkingOn(t)' = {}
  BY <1>2, <1>4 DEF WorkingOn
<1>6. HoldsOf(t)' = HoldsOf(t)
  BY DEF HoldsOf, Exact, Restore
<1> QED
  BY <1>3, <1>4, <1>5, <1>6, PromiseBegin DEF Restore

LEMMA ReturnKeeps ==
  ASSUME InductiveInvariant, NEW p \in Procs, proc[p].pc # "idle", Return(p),
         \A q \in Procs : q # p => client'[q] = client[q],
         UNCHANGED <<marker, db, strayed>>
  PROVE  Promise!Next
<1>1. PICK t \in Targets : t = proc[p].target /\ HolderOf(t) = {p}
  BY Holds
<1>2. /\ OthersSeen(t)
      /\ HolderOf(t)' = {} /\ WorkingOn(t)' = {} /\ HoldsOf(t)' = HoldsOf(t)
  BY <1>1, Left
<1> QED
  BY <1>1, <1>2, PromiseEnd

LEMMA FailKeeps ==
  ASSUME InductiveInvariant, NEW p \in Procs, proc[p].pc # "idle", Fail(p)
  PROVE  Promise!Next
<1>1. \A q \in Procs : q # p => client'[q] = client[q]
  BY DEF Fail, InductiveInvariant, TypeOK
<1> QED
  BY <1>1, ReturnKeeps DEF Fail

LEMMA LoseClientKeeps ==
  ASSUME InductiveInvariant, NEW p \in Procs, proc[p].pc # "idle", LoseClient(p), Return(p)
  PROVE  Promise!Next
<1>1. \A q \in Procs : q # p => client'[q] = client[q]
  BY DEF LoseClient, InductiveInvariant, TypeOK
<1> QED
  BY <1>1, ReturnKeeps DEF LoseClient

LEMMA SaveIncompleteKeeps ==
  ASSUME InductiveInvariant, NEW p \in Procs, SaveIncomplete(p)
  PROVE  Promise!Next
<1>1. /\ TypeOK /\ proc[p].pc = "locked"
      /\ UNCHANGED <<db, client, strayed>>
  BY DEF InductiveInvariant, SaveIncomplete, At
<1>2. PICK t \in Targets :
        t = proc[p].target /\ HolderOf(t) = {p} /\ WorkingOn(t) = {}
  BY <1>1, Holds
<1>3. PICK d \in Dumps : d = proc[p].dump
  BY <1>1, Holds
<1>4. CASE UNCHANGED marker /\ Return(p)
  BY <1>1, <1>4, ReturnKeeps
<1>5. ASSUME Save(p, "incomplete")
      PROVE  /\ marker' = [marker EXCEPT ![t] = [status |-> "incomplete", dump |-> d]]
             /\ \A u \in Targets : u # t => marker'[u] = marker[u]
  BY <1>1, <1>2, <1>3, <1>5 DEF Save, TypeOK
<1>6. CASE Save(p, "incomplete") /\ Return(p)
  <2>1. /\ OthersSeen(t)
        /\ HolderOf(t)' = {} /\ WorkingOn(t)' = {} /\ HoldsOf(t)' = HoldsOf(t)
    BY <1>1, <1>2, <1>5, <1>6, Left
  <2> QED
    BY <1>1, <1>2, <1>5, <1>6, <2>1, PromiseAnnounce
<1>7. CASE Save(p, "incomplete") /\ Goto(p, "marked") /\ UNCHANGED lock
  <2>1. /\ proc'[p].pc = "marked" /\ proc'[p].target = t
        /\ \A q \in Procs : q # p => proc'[q] = proc[q]
    BY <1>1, <1>2, <1>7, ProcessType DEF Goto, TypeOK, Process
  <2>2. OthersSeen(t)
    <3>1. OthersKept(p, t)
      BY <1>1, <1>5, <1>7, <2>1 DEF OthersKept
    <3> QED
      BY <1>1, <1>2, <2>1, <3>1, Aside
  <2>3. HolderOf(t)' = HolderOf(t) /\ HoldsOf(t)' = HoldsOf(t)
    BY <1>1, <1>7 DEF HolderOf, HoldsOf, Exact
  <2>4. WorkingOn(t)' = {p}
    BY <1>2, <2>1, <2>3 DEF WorkingOn
  <2> QED
    BY <1>1, <1>2, <1>5, <1>7, <2>2, <2>3, <2>4, PromiseAnnounce
<1> QED
  BY <1>4, <1>6, <1>7 DEF SaveIncomplete

(* The claim is true: every part of the database is of the dump that was   *)
(* announced, unless an orphan strayed into it.                            *)
LEMMA SaveReadyKeeps ==
  ASSUME InductiveInvariant, NEW p \in Procs, SaveReady(p)
  PROVE  Promise!Next
<1>1. /\ TypeOK /\ proc[p].pc = "imported" /\ ProcessShape(p) /\ Return(p)
      /\ UNCHANGED <<db, client, strayed>>
  BY DEF InductiveInvariant, SaveReady, At
<1>2. CASE UNCHANGED marker
  BY <1>1, <1>2, ReturnKeeps
<1>3. CASE Save(p, "ready")
  <2>1. PICK t \in Targets :
          /\ t = proc[p].target /\ HolderOf(t) = {p} /\ WorkingOn(t) = {p}
          /\ proc[p].dump \in Dumps
          /\ marker[t] = [status |-> "incomplete", dump |-> proc[p].dump]
    BY <1>1, Holds
  <2>2. marker[t].dump = proc[p].dump
    BY <2>1
  <2>3. marker' = [marker EXCEPT ![t].status = "ready"]
    <3>1. [marker[t] EXCEPT !.status = "ready"] = [status |-> "ready", dump |-> proc[p].dump]
      BY <2>1
    <3> QED
      BY <1>3, <2>1, <3>1 DEF Save
  <2>4. \A u \in Targets : u # t => marker'[u] = marker[u]
    BY <1>1, <2>3 DEF TypeOK
  <2>5. /\ OthersSeen(t)
        /\ HolderOf(t)' = {} /\ WorkingOn(t)' = {} /\ HoldsOf(t)' = HoldsOf(t)
    BY <1>1, <2>1, <2>4, Left
  <2>6. strayed[t] \/ HoldsOf(t) = {marker[t].dump}
    <3>1. ASSUME ~strayed[t]
          PROVE  /\ Exact(t, marker[t].dump)
                 /\ 1 \in 1..Parts /\ db[t].tables[1] = marker[t].dump
      <4>1. Exact(t, marker[t].dump)
        BY <1>1, <2>1, <2>2, <3>1 DEF ProcessShape, Filled, Exact
      <4>2. 1 \in 1..Parts
        BY PartsAssumption
      <4> QED
        BY <4>1, <4>2 DEF Exact
    <3>2. ASSUME ~strayed[t]
          PROVE  HoldsOf(t) = {marker[t].dump}
      <4>1. HoldsOf(t) \subseteq {marker[t].dump}
        BY <3>1, <3>2, HoldsOne
      <4>2. marker[t].dump \in HoldsOf(t)
        BY <2>1, <2>2, <3>1, <3>2 DEF HoldsOf
      <4> QED
        BY <4>1, <4>2
    <3> QED
      BY <1>1, <3>2
  <2> QED
    BY <1>1, <2>1, <2>3, <2>5, <2>6, PromiseClaim
<1> QED
  BY <1>2, <1>3 DEF SaveReady

(* What the watched client of a restore executes: a DROP, or tables of no  *)
(* other dump than the announced one.                                      *)
LEMMA ClientExecutesKeeps ==
  ASSUME InductiveInvariant, NEW p \in Procs, ClientExecutes(p)
  PROVE  Promise!Next
<1>1. /\ TypeOK /\ HasStatement(client[p]) /\ client[p].exit = "running"
      /\ UNCHANGED <<lock, marker, proc>>
  BY DEF InductiveInvariant, ClientExecutes, HasStatement
<1>2. /\ client[p] \in Client /\ Sane(client[p]) /\ client[p].kind # "none"
      /\ proc[p].pc \in {"recreating", "importing", "draining"}
      /\ client[p].target = proc[p].target /\ ProcessShape(p)
  BY <1>1, ClientBusy DEF InductiveInvariant
<1>3. PICK t \in Targets :
        /\ t = proc[p].target /\ WorkingOn(t) = {p} /\ proc[p].dump \in Dumps
        /\ marker[t] = [status |-> "incomplete", dump |-> proc[p].dump]
  BY <1>2, Holds
<1>4. PICK made \in Database : made = After(client[p])
  BY <1>1, <1>2, <1>3, AfterType, TargetType
<1>5. /\ db' = [db EXCEPT ![t] = made]
      /\ strayed' = [strayed EXCEPT ![t] = @ /\ ~Drops(client[p])]
  BY <1>2, <1>3, <1>4 DEF ClientExecutes
<1>6. /\ db'[t] = made
      /\ \A u \in Targets : u # t => db'[u] = db[u] /\ strayed'[u] = strayed[u]
  BY <1>1, <1>5 DEF TypeOK
<1>7. OthersSeen(t)
  <2>1. \A q \in Procs : q # p => client'[q] = client[q]
    BY <1>1 DEF ClientExecutes, TypeOK
  <2>2. OthersKept(p, t)
    BY <1>1, <1>6, <2>1 DEF OthersKept
  <2> QED
    BY <1>1, <1>3, <2>2, Aside
<1>8. HolderOf(t)' = HolderOf(t) /\ WorkingOn(t)' = WorkingOn(t)
  BY <1>1 DEF HolderOf, WorkingOn
<1>9. 1 \in 1..Parts
  BY PartsAssumption
<1>10. CASE client[p].kind = "recreate"
  <2>1. made.tables = EmptyTables /\ made.exists = ~Drops(client[p])
    BY <1>4, <1>10 DEF After
  <2>2. HoldsOf(t)' = {}
    <3>1. db'[t].tables[1] = "absent"
      BY <1>6, <1>9, <2>1 DEF EmptyTables
    <3> QED
      BY <1>9, <3>1, NonesAssumption DEF HoldsOf, Exact
  <2>3. CASE Drops(client[p])
    BY <1>1, <1>3, <1>5, <1>7, <1>8, <2>2, <2>3, PromiseDrop
  <2>4. CASE ~Drops(client[p])
    <3>1. strayed' = strayed
      BY <1>1, <1>5, <2>4 DEF TypeOK
    <3> QED
      BY <1>1, <1>3, <1>7, <1>8, <2>2, <3>1, PromiseFill
  <2> QED
    BY <2>3, <2>4
<1>11. CASE client[p].kind = "import"
  <2>1. PICK i \in 1..Parts : i = client[p].done + 1
    BY <1>1, <1>2, PartsAssumption DEF HasStatement, Client
  <2>2. client[p].content \in {proc[p].dump, "other"}
    BY <1>2, <1>11 DEF ProcessShape
  <2>3. db'[t].tables[i] = client[p].content
    <3>1. made.tables = [db[t].tables EXCEPT ![i] = client[p].content]
      BY <1>1, <1>2, <1>3, <1>4, <1>11, <2>1, AfterType, TargetType
    <3>2. db[t].tables \in [1..Parts -> Content]
      BY <1>1, TargetType DEF Database
    <3> QED
      BY <1>6, <3>1, <3>2
  <2>4. HoldsOf(t)' \subseteq {marker[t].dump}
    <3>1. HoldsOf(t)' \subseteq {client[p].content}
      BY <2>3 DEF HoldsOf, Exact
    <3>2. marker[t].dump = proc[p].dump /\ HoldsOf(t)' \subseteq Dumps
      BY <1>3 DEF HoldsOf
    <3> QED
      BY <2>2, <3>1, <3>2, NonesAssumption
  <2>5. strayed' = strayed
    <3>1. ~Drops(client[p])
      BY <1>11 DEF Drops
    <3> QED
      BY <1>1, <1>5, <3>1 DEF TypeOK
  <2> QED
    BY <1>1, <1>3, <1>7, <1>8, <2>4, <2>5, PromiseFill
<1> QED
  BY <1>2, <1>10, <1>11 DEF Client

(* An orphan strays: whatever it makes, it is of one dump at most.         *)
LEMMA OrphanExecutesKeeps ==
  ASSUME InductiveInvariant, NEW c \in orphans, OrphanExecutes(c)
  PROVE  Promise!Next
<1>1. /\ TypeOK /\ c \in Client /\ Sane(c) /\ c.kind # "none" /\ HasStatement(c)
      /\ UNCHANGED <<lock, marker, proc>>
  BY DEF InductiveInvariant, OrphanShape, OrphanExecutes, TypeOK
<1>2. PICK t \in Targets : t = c.target
  BY DEF InductiveInvariant, OrphanShape
<1>3. PICK made \in Database : made = After(c)
  BY <1>1, <1>2, AfterType, TargetType
<1>4. db' = [db EXCEPT ![t] = made] /\ strayed' = [strayed EXCEPT ![t] = TRUE]
  BY <1>2, <1>3 DEF OrphanExecutes
<1>5. /\ db'[t] = made
      /\ \A u \in Targets : u # t => db'[u] = db[u] /\ strayed'[u] = strayed[u]
  BY <1>1, <1>4 DEF TypeOK
<1>6. \A u \in Targets : HolderOf(u)' = HolderOf(u) /\ WorkingOn(u)' = WorkingOn(u)
  BY <1>1 DEF HolderOf, WorkingOn
<1>7. OthersSeen(t)
  BY <1>1, <1>5, <1>6 DEF OthersSeen, HoldsOf, Exact
<1>8. PICK i \in 1..Parts, x \in Content : db'[t].tables[i] = x
  <2>1. 1 \in 1..Parts
    BY PartsAssumption
  <2> QED
    BY <1>5, <2>1 DEF Database
<1>9. HoldsOf(t)' \subseteq {x} \cap Dumps
  BY <1>8 DEF HoldsOf, Exact
<1>10. \E d \in Dumps \cup {NoDump} : HoldsOf(t)' = {d} \cap Dumps
  <2>1. CASE HoldsOf(t)' = {}
    BY <2>1, NonesAssumption
  <2>2. CASE HoldsOf(t)' # {}
    BY <1>9, <2>2
  <2> QED
    BY <2>1, <2>2
<1> QED
  BY <1>1, <1>4, <1>6, <1>7, <1>10, PromiseStray

(* The steps between which nothing changes that the promise sees.          *)
LEMMA RestoreGoesOn ==
  ASSUME InductiveInvariant, NEW p \in Procs,
         \/ StartRecreate(p) \/ StartImport(p) \/ SendChunk(p) \/ EndInput(p)
         \/ (AwaitRecreate(p) \/ AwaitImport(p)) /\ ~Fail(p)
         \/ ClientFinishes(p) \/ ClientFails(p)
  PROVE  UNCHANGED Promise!vars
<1>1. proc \in [Procs -> Process]
  BY DEF InductiveInvariant, TypeOK
<1>2. UNCHANGED <<lock, marker, db, strayed>>
  BY DEF StartRecreate, StartImport, SendChunk, EndInput, AwaitRecreate, AwaitImport,
     ClientFinishes, ClientFails
<1>3. UNCHANGED proc \/
      \E label \in {"recreating", "recreated", "importing", "draining", "imported"} :
        /\ Goto(p, label)
        /\ proc[p].pc \in {"marked", "recreating", "recreated", "importing", "draining"}
  BY DEF StartRecreate, StartImport, SendChunk, EndInput, AwaitRecreate, AwaitImport,
     ClientFinishes, ClientFails, At
<1>4. /\ \A q \in Procs : q # p => proc'[q] = proc[q]
      /\ proc'[p].target = proc[p].target
      /\ proc'[p].pc \in {"idle", "locked"} <=> proc[p].pc \in {"idle", "locked"}
  BY <1>1, <1>3 DEF Goto, Process
<1> QED
  BY <1>2, <1>4, GoesOn

LEMMA PromiseInit ==
  ASSUME Init
  PROVE  Promise!Init
<1>1. \A t \in Targets : HolderOf(t) = {} /\ WorkingOn(t) = {}
  BY NonesAssumption DEF Init, HolderOf, WorkingOn
<1>2. ASSUME NEW t \in Targets
      PROVE  HoldsOf(t) = {}
  <2>1. 1 \in 1..Parts
    BY PartsAssumption
  <2>2. db[t].tables[1] \in {"absent", "other"}
    <3>1. \/ db[t].tables = EmptyTables
          \/ db[t].tables = [i \in 1..Parts |-> "other"]
      <4>1. db[t] \in {[exists |-> FALSE, tables |-> EmptyTables],
                       [exists |-> TRUE, tables |-> [i \in 1..Parts |-> "other"]]}
        BY Zenon DEF Init
      <4>2. CASE db[t] = [exists |-> FALSE, tables |-> EmptyTables]
        BY <4>2
      <4>3. CASE db[t] = [exists |-> TRUE, tables |-> [i \in 1..Parts |-> "other"]]
        BY <4>3
      <4> QED
        BY <4>1, <4>2, <4>3
    <3> QED
      BY <2>1, <3>1 DEF EmptyTables
  <2> QED
    BY <2>1, <2>2, NonesAssumption DEF HoldsOf, Exact
<1> QED
  BY <1>1, <1>2 DEF Init, Promise!Init, Promise!Said

LEMMA PromiseNext ==
  ASSUME InductiveInvariant, [Next]_vars
  PROVE  Promise!Next \/ UNCHANGED Promise!vars
<1>1. CASE UNCHANGED vars
  BY <1>1, PromiseStutter DEF vars, HolderOf, WorkingOn, HoldsOf, Exact
<1>2. ASSUME NEW p \in Procs, NEW d \in Dumps, NEW t \in Targets, Restore(p, d, t)
      PROVE  Promise!Next
  BY <1>2, BeginKeeps
<1>3. ASSUME NEW p \in Procs, RestoreStep(p)
      PROVE  Promise!Next \/ UNCHANGED Promise!vars
  <2>1. CASE SaveIncomplete(p) \/ SaveReady(p)
    BY <2>1, SaveIncompleteKeeps, SaveReadyKeeps
  <2>2. CASE Fail(p) /\ ~At(p, "idle")
    BY <2>2, FailKeeps DEF At
  <2>3. CASE StartFails(p) \/ WriteFails(p)
    BY <2>2, <2>3 DEF StartFails, WriteFails, At
  <2>4. CASE AwaitRecreate(p) \/ AwaitImport(p)
    BY <2>2, <2>4, RestoreGoesOn DEF AwaitRecreate, AwaitImport, At
  <2>5. CASE StartRecreate(p) \/ StartImport(p) \/ SendChunk(p) \/ EndInput(p)
    BY <2>5, RestoreGoesOn
  <2> QED
    BY <1>3, <2>1, <2>3, <2>4, <2>5 DEF RestoreStep
<1>4. ASSUME NEW p \in Procs, ClientStep(p) \/ ClientFails(p)
      PROVE  Promise!Next \/ UNCHANGED Promise!vars
  BY <1>4, ClientExecutesKeeps, RestoreGoesOn DEF ClientStep
<1>5. ASSUME NEW p \in Procs, Interrupt(p) \/ Crash(p)
      PROVE  Promise!Next
  BY <1>5, LoseClientKeeps DEF Interrupt, Crash, At
<1>6. ASSUME NEW c \in orphans, OrphanExecutes(c)
      PROVE  Promise!Next
  BY <1>6, OrphanExecutesKeeps
<1>7. ASSUME NEW c \in orphans, OrphanExits(c)
      PROVE  UNCHANGED Promise!vars
  BY <1>7, PromiseStutter DEF OrphanExits, HolderOf, WorkingOn, HoldsOf, Exact
<1> QED
  BY <1>1, <1>2, <1>3, <1>4, <1>5, <1>6, <1>7 DEF Next, OrphanStep

(* Every behaviour of the restores, with failed saves, clients outliving   *)
(* their process, interrupts and deaths anywhere, is one of RestorePromise:*)
(* a database is announced before it is touched, filled with the announced *)
(* dump only, and said to hold it only when it does.                       *)
THEOREM RestoreKeepsPromise == Spec => KeepsPromise
<1>1. Init => Promise!Init
  BY PromiseInit
<1>2. InductiveInvariant /\ [Next]_vars => [Promise!Next]_(Promise!vars)
  BY PromiseNext
<1> QED
  BY <1>1, <1>2, InvariantHolds, PTL DEF Spec, KeepsPromise, Promise!Spec

-----------------------------------------------------------------------------
(* The promise is worth keeping: who works on a database has announced it, *)
(* so nobody makes untrue what was said when an earlier restore ended.     *)
PromiseInvariant ==
  /\ DOMAIN marker = Targets /\ DOMAIN strayed = Targets
  /\ \A t \in Targets : WorkingOn(t) # {} => marker[t].status = "incomplete"
  /\ Promise!Truthful

LEMMA PromiseBegins == Promise!Init => PromiseInvariant
<1> SUFFICES ASSUME Promise!Init
             PROVE  PromiseInvariant
  OBVIOUS
<1>1. /\ marker = [t \in Targets |-> [status |-> "none", dump |-> NoDump]]
      /\ strayed = [t \in Targets |-> FALSE]
  BY DEF Promise!Init, Promise!Said
<1>2. \A t \in Targets : WorkingOn(t) = {} /\ marker[t].status = "none"
  <2>1. [t \in Targets |-> WorkingOn(t)] = [t \in Targets |-> {}]
    BY DEF Promise!Init
  <2> QED
    BY <1>1, <2>1
<1> QED
  BY <1>1, <1>2 DEF PromiseInvariant, Promise!Truthful

(* A step of the promise at t leaves the other databases as they are, and  *)
(* it is enough to look at t.                                              *)
LEMMA PromiseAt ==
  ASSUME PromiseInvariant, NEW t \in Targets,
         DOMAIN marker' = Targets, DOMAIN strayed' = Targets,
         \A u \in Targets : u # t =>
           /\ WorkingOn(u)' = WorkingOn(u) /\ marker'[u] = marker[u]
           /\ HoldsOf(u)' = HoldsOf(u) /\ strayed'[u] = strayed[u],
         WorkingOn(t)' # {} => marker'[t].status = "incomplete",
         marker'[t].status = "ready" =>
           strayed'[t] \/ HoldsOf(t)' = {marker'[t].dump}
  PROVE  PromiseInvariant'
  BY DEF PromiseInvariant, Promise!Truthful

LEMMA PromiseStep ==
  ASSUME PromiseInvariant, [Promise!Next]_(Promise!vars)
  PROVE  PromiseInvariant'
<1>1. CASE UNCHANGED Promise!vars
  <2>1. \A t \in Targets : WorkingOn(t)' = WorkingOn(t) /\ HoldsOf(t)' = HoldsOf(t)
    BY <1>1 DEF Promise!vars
  <2>2. UNCHANGED <<marker, strayed>>
    BY <1>1 DEF Promise!vars
  <2> QED
    BY <2>1, <2>2 DEF PromiseInvariant, Promise!Truthful
<1>2. ASSUME NEW t \in Targets, NEW p \in Procs,
             Promise!Begin(p, t) \/ Promise!End(p, t)
      PROVE  PromiseInvariant'
  <2>1. /\ UNCHANGED <<marker, strayed>>
        /\ \A u \in Targets : HoldsOf(u)' = HoldsOf(u)
    BY <1>2 DEF Promise!Begin, Promise!End
  <2>2. \A u \in Targets : WorkingOn(u)' = WorkingOn(u) \/ WorkingOn(u)' = {}
    BY <1>2 DEF Promise!Begin, Promise!End, Promise!Leave
  <2> QED
    BY <2>1, <2>2 DEF PromiseInvariant, Promise!Truthful
<1>3. ASSUME NEW t \in Targets, NEW p \in Procs, Promise!Claim(p, t)
      PROVE  PromiseInvariant'
  <2>1. /\ marker' = [marker EXCEPT ![t].status = "ready"] /\ UNCHANGED strayed
        /\ \A u \in Targets : HoldsOf(u)' = HoldsOf(u)
        /\ strayed[t] \/ HoldsOf(t) = {marker[t].dump}
    BY <1>3 DEF Promise!Claim
  <2>2. /\ WorkingOn(t)' = {}
        /\ \A u \in Targets : u # t => WorkingOn(u)' = WorkingOn(u)
    BY <1>3 DEF Promise!Claim, Promise!Leave
  <2>3. /\ DOMAIN marker' = Targets /\ marker'[t].dump = marker[t].dump
        /\ \A u \in Targets : u # t => marker'[u] = marker[u]
    BY <2>1 DEF PromiseInvariant
  <2> QED
    BY <2>1, <2>2, <2>3, PromiseAt DEF PromiseInvariant
<1>4. ASSUME NEW t \in Targets, NEW p \in Procs, NEW d \in Dumps,
             Promise!Announce(p, t, d)
      PROVE  PromiseInvariant'
  <2>1. /\ marker' = [marker EXCEPT ![t] = [status |-> "incomplete", dump |-> d]]
        /\ UNCHANGED strayed /\ \A u \in Targets : HoldsOf(u)' = HoldsOf(u)
    BY <1>4 DEF Promise!Announce, Promise!Said
  <2>2. \A u \in Targets : u # t => WorkingOn(u)' = WorkingOn(u)
    BY <1>4 DEF Promise!Announce, Promise!Leave
  <2>3. /\ DOMAIN marker' = Targets /\ marker'[t].status = "incomplete"
        /\ \A u \in Targets : u # t => marker'[u] = marker[u]
    BY <2>1 DEF PromiseInvariant
  <2> QED
    BY <2>1, <2>2, <2>3, PromiseAt DEF PromiseInvariant
<1>5. ASSUME NEW t \in Targets, NEW p \in Procs,
             Promise!Drop(p, t) \/ Promise!Fill(p, t)
      PROVE  PromiseInvariant'
  <2>1. /\ UNCHANGED marker /\ WorkingOn(t) # {}
        /\ \A u \in Targets : WorkingOn(u)' = WorkingOn(u)
    BY <1>5 DEF Promise!Drop, Promise!Fill
  <2>2. \A u \in Targets : u # t => HoldsOf(u)' = HoldsOf(u)
    BY <1>5 DEF Promise!Drop, Promise!Fill
  <2>3. strayed' = strayed \/ strayed' = [strayed EXCEPT ![t] = FALSE]
    BY <1>5 DEF Promise!Drop, Promise!Fill
  <2>4. DOMAIN strayed' = Targets /\ \A u \in Targets : u # t => strayed'[u] = strayed[u]
    BY <2>3 DEF PromiseInvariant
  <2>5. DOMAIN marker' = Targets /\ marker'[t].status = "incomplete"
    BY <2>1 DEF PromiseInvariant
  <2> QED
    BY <2>1, <2>2, <2>4, <2>5, PromiseAt
<1>6. ASSUME NEW t \in Targets, Promise!Stray(t)
      PROVE  PromiseInvariant'
  <2>1. /\ UNCHANGED marker /\ DOMAIN strayed' = Targets /\ strayed'[t] = TRUE
        /\ \A u \in Targets : WorkingOn(u)' = WorkingOn(u)
    BY <1>6 DEF Promise!Stray, PromiseInvariant
  <2>2. \A u \in Targets : u # t => HoldsOf(u)' = HoldsOf(u)
    BY <1>6 DEF Promise!Stray
  <2>3. \A u \in Targets : u # t => strayed'[u] = strayed[u]
    BY <1>6 DEF Promise!Stray
  <2> QED
    BY <2>1, <2>2, <2>3, PromiseAt DEF PromiseInvariant
<1> QED
  BY <1>1, <1>2, <1>3, <1>4, <1>5, <1>6 DEF Promise!Next

(* Whatever keeps the promise of RestorePromise never says of a database   *)
(* that it holds a dump when it does not: the promise is enough to rely on *)
(* a state saved as ready.                                                 *)
THEOREM PromiseIsTrue == Promise!Spec => []Promise!Truthful
<1>1. PromiseInvariant => Promise!Truthful
  BY DEF PromiseInvariant
<1> QED
  BY <1>1, PromiseBegins, PromiseStep, PTL DEF Promise!Spec
=============================================================================
