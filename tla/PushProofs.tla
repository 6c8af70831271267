----------------------------- MODULE PushProofs -----------------------------
(***************************************************************************)
(* Theorems about Push for any processes, profiles, endpoints, servers and *)
(* databases: the inductive invariant, that a push overwrites the database *)
(* its rows were taken from only if the source moved while it was dumped,  *)
(* that no two pushes write into the same database of a profile, and that  *)
(* a push that is not outdated writes into an unprotected destination.     *)
(* First the steps that change a process only, then those that take or     *)
(* drop a lock or change the configuration.                                *)
(***************************************************************************)
EXTENDS Push, TLAPS

(* What TypeOK says of one process. *)
LEMMA StateType ==
  ASSUME TypeOK, NEW p \in Procs
  PROVE  proc[p] \in Process
  BY DEF TypeOK

(* The idle state is well typed and has its shape. *)
LEMMA IdleState == IdleProcess \in Process /\ Shape(IdleProcess)
  BY DEF IdleProcess, Process, Label, Attesting, Choosing, Shape, Decided, Writing

OthersKept(p) == \A q \in Procs : q # p => proc'[q] = proc[q]

(* What the step Become(p, s) does to proc. *)
LEMMA BecomeStep ==
  ASSUME TypeOK, NEW p \in Procs, NEW s \in Process, Become(p, s)
  PROVE  proc' \in [Procs -> Process] /\ proc'[p] = s /\ OthersKept(p)
  BY DEF TypeOK, Become, OthersKept

(* A step of one process that leaves the world alone keeps the invariant,  *)
(* if the process has its shape after it and a writer was one before.      *)
LEMMA Advance ==
  ASSUME InductiveInvariant, NEW p \in Procs, NEW s \in Process,
         Become(p, s), UNCHANGED world, Shape(s),
         s.pc \in Writing => /\ proc[p].pc \in Writing
                             /\ s.profile = proc[p].profile
                             /\ s.database = proc[p].database
  PROVE  InductiveInvariant'
<1>1. TypeOK /\ ProcessShape /\ LocksHeld /\ LocksExclusive
  BY DEF InductiveInvariant
<1>2. proc' \in [Procs -> Process] /\ proc'[p] = s /\ OthersKept(p)
  BY <1>1, BecomeStep
<1>3. TypeOK'
  BY <1>1, <1>2 DEF TypeOK, world
<1>4. ProcessShape'
  BY <1>1, <1>2 DEF ProcessShape, OthersKept
<1>5. locked' = locked
  BY DEF world
<1>6. LocksHeld'
  BY <1>1, <1>2, <1>5 DEF LocksHeld, OthersKept
<1>7. LocksExclusive'
  BY <1>1, <1>5 DEF LocksExclusive
<1> QED
  BY <1>3, <1>4, <1>6, <1>7 DEF InductiveInvariant

(* Marking processes as outdated changes nothing the invariant speaks of.  *)
Outdated(q) == proc'[q] \in {proc[q], [proc[q] EXCEPT !.outdated = TRUE]}

LEMMA OutdateStep ==
  ASSUME InductiveInvariant, NEW before, NEW o, proc' = Outdate(o, before)
  PROVE  proc' \in [Procs -> Process] /\ \A q \in Procs : Outdated(q)
<1>1. \A q \in Procs : proc[q] \in Process
  BY StateType DEF InductiveInvariant
<1>2. \A q \in Procs : [proc[q] EXCEPT !.outdated = TRUE] \in Process
  BY <1>1, ZenonT(60) DEF Process
<1> QED
  BY <1>1, <1>2 DEF Outdate, Outdated

LEMMA OutdatedSame ==
  ASSUME TypeOK, NEW q \in Procs, Outdated(q), Shape(proc[q])
  PROVE  /\ Shape(proc'[q])
         /\ proc'[q].pc = proc[q].pc
         /\ proc'[q].profile = proc[q].profile
         /\ proc'[q].database = proc[q].database
<1> DEFINE s == proc'[q]
<1>1. proc[q] \in Process
  BY StateType
<1>2. /\ s.pc = proc[q].pc /\ s.profile = proc[q].profile
      /\ s.endpoint = proc[q].endpoint /\ s.server = proc[q].server
      /\ s.source = proc[q].source /\ s.met = proc[q].met
      /\ s.dump = proc[q].dump
      /\ s.database = proc[q].database /\ s.session = proc[q].session
  BY <1>1 DEF Outdated, Process
<1> HIDE DEF s
<1>3. Shape(s)
  BY <1>2 DEF Shape
<1> QED
  BY <1>2, <1>3 DEF s

(* A step that outdates processes at most and keeps the locks.             *)
LEMMA OutdatedKeeps ==
  ASSUME InductiveInvariant, \A q \in Procs : Outdated(q), locked' = locked
  PROVE  ProcessShape' /\ LocksHeld' /\ LocksExclusive'
<1>1. TypeOK /\ ProcessShape /\ LocksHeld /\ LocksExclusive
  BY DEF InductiveInvariant
<1>2. \A q \in Procs : /\ Shape(proc'[q])
                       /\ proc'[q].pc = proc[q].pc
                       /\ proc'[q].profile = proc[q].profile
                       /\ proc'[q].database = proc[q].database
  BY <1>1, OutdatedSame DEF ProcessShape
<1> QED
  BY <1>1, <1>2 DEF ProcessShape, LocksHeld, LocksExclusive

-----------------------------------------------------------------------------
(* The steps of a push that change its own state only.                     *)

(* A destination is chosen from the configuration.                         *)
LEMMA ChooseProfileStep ==
  ASSUME InductiveInvariant, NEW p \in Procs, NEW n \in Profiles,
         ChooseProfile(p, n)
  PROVE  InductiveInvariant'
<1> DEFINE s == [IdleProcess EXCEPT !.pc = "chosen", !.profile = n,
                                    !.consented = ~AcceptsPush(n)]
<1>1. s \in Process /\ Shape(s) /\ s.pc \notin Writing
  <2>1. (~AcceptsPush(n)) \in {TRUE, FALSE}
    BY Zenon
  <2> QED
    BY <2>1 DEF IdleProcess, Process, Label, Attesting, Choosing, Shape, Decided,
       Writing
<1>2. Become(p, s) /\ UNCHANGED world
  BY DEF ChooseProfile
<1> QED
  BY <1>1, <1>2, Advance

(* The configuration of the destination is checked.                        *)
LEMMA VerifyStep ==
  ASSUME InductiveInvariant, NEW p \in Procs, Verify(p)
  PROVE  InductiveInvariant'
<1> DEFINE s == [proc[p] EXCEPT !.pc = "verified",
                                !.endpoint = config[proc[p].profile].endpoint,
                                !.accepting = Accepting]
<1>1. TypeOK /\ proc[p] \in Process /\ Shape(proc[p]) /\ proc[p].pc = "chosen"
  BY StateType DEF InductiveInvariant, ProcessShape, Verify, At
<1>2. config[proc[p].profile].endpoint \in Endpoints
  BY <1>1 DEF Verify, TypeOK, Entry
<1>3. Accepting \in SUBSET Profiles
  BY DEF Accepting
<1>4. s \in Process
  BY <1>1, <1>2, <1>3, ZenonT(60) DEF Process, Label, Attesting
<1>5. s.pc = "verified" /\ s.profile = proc[p].profile /\ s.endpoint \in Endpoints
  BY <1>1, <1>2 DEF Process
<1>6. Become(p, s) /\ UNCHANGED world
  BY DEF Verify
<1> HIDE DEF s
<1>7. Shape(s) /\ s.pc \notin Writing
  BY <1>1, <1>5 DEF Shape, Choosing, Decided, Writing
<1> QED
  BY <1>4, <1>6, <1>7, Advance

(* The server tells its identity.                                          *)
LEMMA ProbeStep ==
  ASSUME InductiveInvariant, NEW p \in Procs, Probe(p)
  PROVE  InductiveInvariant'
<1> DEFINE s == [proc[p] EXCEPT !.pc = "probed",
                                !.server = reach[proc[p].endpoint]]
<1>1. TypeOK /\ proc[p] \in Process /\ Shape(proc[p]) /\ proc[p].pc = "verified"
  BY StateType DEF InductiveInvariant, ProcessShape, Probe, At
<1>2. proc[p].profile \in Profiles /\ proc[p].endpoint \in Endpoints
  BY <1>1 DEF Shape, Choosing
<1>3. reach[proc[p].endpoint] \in Servers
  BY <1>1, <1>2 DEF TypeOK
<1>4. s \in Process
  BY <1>1, <1>3, ZenonT(60) DEF Process, Label, Attesting
<1>5. /\ s.pc = "probed" /\ s.profile = proc[p].profile
      /\ s.endpoint = proc[p].endpoint /\ s.server \in Servers
  BY <1>1, <1>3 DEF Process
<1>6. Become(p, s) /\ UNCHANGED world
  BY DEF Probe
<1> HIDE DEF s
<1>7. Shape(s) /\ s.pc \notin Writing
  BY <1>2, <1>5 DEF Shape, Decided, Writing
<1> QED
  BY <1>4, <1>6, <1>7, Advance

(* No cached dump protects the server.                                     *)
LEMMA GuardStep ==
  ASSUME InductiveInvariant, NEW p \in Procs, Guard(p)
  PROVE  InductiveInvariant'
<1> DEFINE s == [proc[p] EXCEPT !.pc = "guarded", !.accepting = {}]
<1>1. proc[p] \in Process /\ Shape(proc[p]) /\ proc[p].pc = "probed"
  BY StateType DEF InductiveInvariant, ProcessShape, Guard, At
<1>2. s \in Process
  BY <1>1, ZenonT(60) DEF Process, Label
<1>3. /\ s.pc = "guarded" /\ s.profile = proc[p].profile
      /\ s.endpoint = proc[p].endpoint /\ s.server = proc[p].server
  BY <1>1 DEF Process
<1>4. Become(p, s) /\ UNCHANGED world
  BY DEF Guard
<1> HIDE DEF s
<1>5. Shape(s) /\ s.pc \notin Writing
  BY <1>1, <1>3 DEF Shape, Choosing, Decided, Writing
<1> QED
  BY <1>2, <1>4, <1>5, Advance

(* A dump of the cache is chosen.                                          *)
LEMMA ChooseDumpStep ==
  ASSUME InductiveInvariant, NEW p \in Procs, NEW m \in cached,
         ChooseDump(p, m)
  PROVE  InductiveInvariant'
<1> DEFINE s == [proc[p] EXCEPT !.pc = "artifact", !.dump = m]
<1>1. /\ proc[p] \in Process /\ Shape(proc[p]) /\ proc[p].pc = "guarded"
      /\ m \in Metadata
  BY StateType DEF InductiveInvariant, ProcessShape, ChooseDump, At, TypeOK
<1>2. s \in Process
  BY <1>1, ZenonT(60) DEF Process, Label
<1>3. /\ s.pc = "artifact" /\ s.profile = proc[p].profile /\ s.dump = m
      /\ s.endpoint = proc[p].endpoint /\ s.server = proc[p].server
  BY <1>1 DEF Process
<1>4. Become(p, s) /\ UNCHANGED world
  BY DEF ChooseDump
<1> HIDE DEF s
<1>5. Shape(s) /\ s.pc \notin Writing
  BY <1>1, <1>3 DEF Shape, Choosing, Decided, Writing
<1> QED
  BY <1>2, <1>4, <1>5, Advance

(* A dump of the active profile begins.                                    *)
LEMMA StartDumpStep ==
  ASSUME InductiveInvariant, NEW p \in Procs, StartDump(p)
  PROVE  InductiveInvariant'
<1> DEFINE source == <<active, config[active].endpoint>>
           s == [proc[p] EXCEPT !.pc = "loaded", !.source = source]
<1>1. /\ TypeOK /\ proc[p] \in Process /\ Shape(proc[p])
      /\ proc[p].pc = "guarded"
  BY StateType DEF InductiveInvariant, ProcessShape, StartDump, At
<1>2. active \in DOMAIN config /\ active \in Profiles
  BY <1>1 DEF StartDump, TypeOK
<1>3. source \in Profiles \X Endpoints
  BY <1>1, <1>2 DEF TypeOK, Entry
<1> HIDE DEF source
<1>4. s \in Process
  BY <1>1, <1>3, ZenonT(60) DEF Process, Label
<1>5. /\ s.pc = "loaded" /\ s.profile = proc[p].profile /\ s.source = source
      /\ s.endpoint = proc[p].endpoint /\ s.server = proc[p].server
  BY <1>1 DEF Process
<1>6. Become(p, s) /\ UNCHANGED world
  BY DEF StartDump, source
<1> HIDE DEF s
<1>7. Shape(s) /\ s.pc \notin Writing
  BY <1>1, <1>3, <1>5 DEF Shape, Choosing, Decided, Writing
<1> QED
  BY <1>4, <1>6, <1>7, Advance

(* The preflight meets the server it will record.                          *)
LEMMA AssessStep ==
  ASSUME InductiveInvariant, NEW p \in Procs, Assess(p)
  PROVE  InductiveInvariant'
<1> DEFINE s == [proc[p] EXCEPT !.pc = "dumping",
                                !.met = reach[proc[p].source[2]]]
<1>1. TypeOK /\ proc[p] \in Process /\ Shape(proc[p]) /\ proc[p].pc = "loaded"
  BY StateType DEF InductiveInvariant, ProcessShape, Assess, At
<1>2. proc[p].source \in Profiles \X Endpoints
  BY <1>1 DEF Shape
<1>3. reach[proc[p].source[2]] \in Servers
  BY <1>1, <1>2 DEF TypeOK
<1>4. s \in Process
  BY <1>1, <1>3, ZenonT(60) DEF Process, Label
<1>5. /\ s.pc = "dumping" /\ s.profile = proc[p].profile
      /\ s.source = proc[p].source /\ s.met \in Servers
      /\ s.endpoint = proc[p].endpoint /\ s.server = proc[p].server
  BY <1>1, <1>3 DEF Process
<1>6. Become(p, s) /\ UNCHANGED world
  BY DEF Assess
<1> HIDE DEF s
<1>7. Shape(s) /\ s.pc \notin Writing
  BY <1>1, <1>2, <1>5 DEF Shape, Choosing, Decided, Writing
<1> QED
  BY <1>4, <1>6, <1>7, Advance

(* The gate authorizes the database: the only step that makes a decision,  *)
(* and the one that keeps it away from the database of the dump.           *)
LEMMA AuthorizeStep ==
  ASSUME InductiveInvariant, NEW p \in Procs, NEW d \in Databases,
         Authorize(p, d)
  PROVE  InductiveInvariant'
<1> DEFINE s == [proc[p] EXCEPT !.pc = "authorized", !.database = d]
<1>1. proc[p] \in Process /\ Shape(proc[p]) /\ proc[p].pc = "artifact"
  BY StateType DEF InductiveInvariant, ProcessShape, Authorize, At
<1>2. s \in Process
  BY <1>1, ZenonT(60) DEF Process, Label
<1>3. /\ s.pc = "authorized" /\ s.profile = proc[p].profile
      /\ s.endpoint = proc[p].endpoint /\ s.server = proc[p].server
      /\ s.dump = proc[p].dump /\ s.database = d
  BY <1>1 DEF Process
<1>4. Become(p, s) /\ UNCHANGED world
  BY DEF Authorize
<1>5. proc[p].server = proc[p].dump.server => d # proc[p].dump.database
  BY DEF Authorize, MayReceive
<1> HIDE DEF s
<1>6. Shape(s) /\ s.pc \notin Writing
  BY <1>1, <1>3, <1>5 DEF Shape, Choosing, Decided, Writing
<1> QED
  BY <1>2, <1>4, <1>6, Advance

(* The database is created, in a session the identity guard has passed.    *)
LEMMA EnsureDatabaseStep ==
  ASSUME InductiveInvariant, NEW p \in Procs, EnsureDatabase(p)
  PROVE  InductiveInvariant'
<1> DEFINE s == [proc[p] EXCEPT !.pc = "ensured"]
<1>1. proc[p] \in Process /\ Shape(proc[p]) /\ proc[p].pc = "locked"
  BY StateType DEF InductiveInvariant, ProcessShape, EnsureDatabase, At
<1>2. s \in Process
  BY <1>1 DEF Process, Label
<1>3. /\ s.pc = "ensured" /\ s.profile = proc[p].profile
      /\ s.endpoint = proc[p].endpoint /\ s.server = proc[p].server
      /\ s.dump = proc[p].dump /\ s.database = proc[p].database
  BY <1>1 DEF Process
<1>4. Become(p, s) /\ UNCHANGED world
  BY DEF EnsureDatabase
<1> HIDE DEF s
<1>5. Shape(s)
  BY <1>1, <1>3 DEF Shape, Choosing, Decided, Writing
<1> QED
  BY <1>1, <1>2, <1>3, <1>4, <1>5, Advance DEF Writing

(* The import starts: its session is on the attested server.               *)
LEMMA ImportStep ==
  ASSUME InductiveInvariant, NEW p \in Procs, Import(p)
  PROVE  InductiveInvariant'
<1> DEFINE s == [proc[p] EXCEPT !.pc = "importing",
                                !.session = reach[proc[p].endpoint]]
<1>1. proc[p] \in Process /\ Shape(proc[p]) /\ proc[p].pc = "ensured"
  BY StateType DEF InductiveInvariant, ProcessShape, Import, At
<1>2. reach[proc[p].endpoint] = proc[p].server /\ proc[p].server \in Servers
  BY <1>1 DEF Import, GuardedSession, Shape, Choosing
<1>3. s \in Process
  BY <1>1, <1>2, ZenonT(60) DEF Process, Label
<1>4. /\ s.pc = "importing" /\ s.profile = proc[p].profile
      /\ s.endpoint = proc[p].endpoint /\ s.server = proc[p].server
      /\ s.dump = proc[p].dump /\ s.database = proc[p].database
      /\ s.session = proc[p].server
  BY <1>1, <1>2 DEF Process
<1>5. Become(p, s) /\ UNCHANGED world
  BY DEF Import
<1> HIDE DEF s
<1>6. Shape(s)
  BY <1>1, <1>4 DEF Shape, Choosing, Decided, Writing
<1> QED
  BY <1>1, <1>3, <1>4, <1>5, <1>6, Advance DEF Writing

-----------------------------------------------------------------------------
(* The steps of a push that take or drop its lock, or change what others   *)
(* see.                                                                    *)

(* The end of a push drops its lock.                                       *)
LEMMA ReturnStep ==
  ASSUME InductiveInvariant, NEW p \in Procs, Return(p)
  PROVE  InductiveInvariant'
<1>1. TypeOK /\ ProcessShape /\ LocksHeld /\ LocksExclusive
  BY DEF InductiveInvariant
<1>2. /\ proc' \in [Procs -> Process]
      /\ proc'[p] = IdleProcess
      /\ OthersKept(p)
  BY <1>1, BecomeStep, IdleState DEF Return
<1>3. locked' = {l \in locked : l[3] # p}
  BY DEF Return
<1>4. TypeOK'
  BY <1>1, <1>2, <1>3 DEF TypeOK, Return
<1>5. ProcessShape'
  BY <1>1, <1>2, IdleState DEF ProcessShape, OthersKept
<1>6. LocksHeld'
  <2> SUFFICES ASSUME NEW q \in Procs, proc'[q].pc \in Writing
               PROVE  <<proc'[q].profile, proc'[q].database, q>> \in locked'
    BY DEF LocksHeld
  <2>1. q # p
    BY <1>2 DEF IdleProcess, Writing
  <2>2. <<proc[q].profile, proc[q].database, q>> \in locked
    BY <1>1, <1>2, <2>1 DEF LocksHeld, OthersKept
  <2> QED
    BY <1>2, <1>3, <2>1, <2>2 DEF OthersKept
<1>7. LocksExclusive'
  BY <1>1, <1>3 DEF LocksExclusive
<1> QED
  BY <1>4, <1>5, <1>6, <1>7 DEF InductiveInvariant

(* The lock is taken when no one has it.                                   *)
LEMMA LockStep ==
  ASSUME InductiveInvariant, NEW p \in Procs, Lock(p)
  PROVE  InductiveInvariant'
<1> DEFINE n == proc[p].profile
           d == proc[p].database
           s == [proc[p] EXCEPT !.pc = "locked"]
<1>1. TypeOK /\ ProcessShape /\ LocksHeld /\ LocksExclusive
  BY DEF InductiveInvariant
<1>2. proc[p] \in Process /\ Shape(proc[p]) /\ proc[p].pc = "confirmed"
  BY <1>1, StateType DEF ProcessShape, Lock, At
<1>3. s \in Process
  BY <1>2 DEF Process, Label
<1>4. /\ s.pc = "locked" /\ s.profile = n /\ s.database = d
      /\ s.endpoint = proc[p].endpoint /\ s.server = proc[p].server
      /\ s.dump = proc[p].dump
  BY <1>2 DEF Process
<1>5. proc' \in [Procs -> Process] /\ proc'[p] = s /\ OthersKept(p)
  BY <1>1, <1>3, BecomeStep DEF Lock
<1> HIDE DEF s
<1>6. n \in Profiles /\ d \in Databases
  BY <1>2 DEF Shape, Decided
<1>7. /\ locked' = locked \cup {<<n, d, p>>}
      /\ \A l \in locked : <<l[1], l[2]>> # <<n, d>>
  BY DEF Lock
<1> HIDE DEF n, d
<1>8. TypeOK'
  BY <1>1, <1>5, <1>6, <1>7 DEF TypeOK, Lock
<1>9. ProcessShape'
  <2>1. Shape(s)
    BY <1>2, <1>4 DEF Shape, Choosing, Decided, Writing, n, d
  <2> QED
    BY <1>1, <1>5, <2>1 DEF ProcessShape, OthersKept
<1>10. LocksHeld'
  BY <1>1, <1>4, <1>5, <1>7 DEF LocksHeld, OthersKept
<1>11. LocksExclusive'
  BY <1>1, <1>7 DEF LocksExclusive
<1> QED
  BY <1>8, <1>9, <1>10, <1>11 DEF InductiveInvariant

(* Setting push_destination keeps the type of the configuration, and FALSE *)
(* may always be set.                                                      *)
LEMMA SetPushType ==
  ASSUME TypeOK, NEW n \in DOMAIN config, NEW b \in BOOLEAN,
         ~(config[n].production /\ b),
         config' = [config EXCEPT ![n].push = b]
  PROVE  /\ DOMAIN config' = DOMAIN config
         /\ \A o \in DOMAIN config :
              config'[o] \in Entry /\ ~(config'[o].production /\ config'[o].push)
<1>1. \A o \in DOMAIN config :
        config[o] \in Entry /\ ~(config[o].production /\ config[o].push)
  BY DEF TypeOK
<1>2. DOMAIN config' = DOMAIN config
  OBVIOUS
<1> DEFINE e == [config[n] EXCEPT !.push = b]
<1>3. e \in Entry /\ ~(e.production /\ e.push)
  BY <1>1 DEF Entry
<1>4. config'[n] = e
  OBVIOUS
<1>5. \A o \in DOMAIN config : o # n => config'[o] = config[o]
  OBVIOUS
<1> QED
  BY <1>1, <1>2, <1>3, <1>4, <1>5

(* The plan is confirmed, and a consent saved.                             *)
LEMMA ConfirmStep ==
  ASSUME InductiveInvariant, NEW p \in Procs, Confirm(p)
  PROVE  InductiveInvariant'
<1> DEFINE s == [proc[p] EXCEPT !.pc = "confirmed"]
<1>1. TypeOK /\ ProcessShape /\ LocksHeld /\ LocksExclusive
  BY DEF InductiveInvariant
<1>2. proc[p] \in Process /\ Shape(proc[p]) /\ proc[p].pc = "authorized"
  BY <1>1, StateType DEF ProcessShape, Confirm, At
<1>3. s \in Process
  BY <1>2 DEF Process, Label
<1>4. /\ s.pc = "confirmed" /\ s.profile = proc[p].profile
      /\ s.endpoint = proc[p].endpoint /\ s.server = proc[p].server
      /\ s.dump = proc[p].dump /\ s.database = proc[p].database
  BY <1>2 DEF Process
<1>5. proc' \in [Procs -> Process] /\ proc'[p] = s /\ OthersKept(p)
  BY <1>1, <1>3, BecomeStep DEF Confirm
<1> HIDE DEF s
<1>6. DOMAIN config' = DOMAIN config
      /\ \A n \in DOMAIN config :
           config'[n] \in Entry /\ ~(config'[n].production /\ config'[n].push)
  <2>1. CASE UNCHANGED config
    BY <1>1, <2>1 DEF TypeOK
  <2>2. CASE ~UNCHANGED config
    BY <1>1, <2>2, SetPushType DEF Confirm
  <2> QED
    BY <2>1, <2>2
<1>7. TypeOK'
  BY <1>1, <1>5, <1>6 DEF TypeOK, Confirm
<1>8. ProcessShape'
  <2>1. Shape(s)
    BY <1>2, <1>4 DEF Shape, Choosing, Decided, Writing
  <2> QED
    BY <1>1, <1>5, <2>1 DEF ProcessShape, OthersKept
<1>9. locked' = locked
  BY DEF Confirm
<1>10. LocksHeld'
  BY <1>1, <1>4, <1>5, <1>9 DEF LocksHeld, OthersKept, Writing
<1>11. LocksExclusive'
  BY <1>1, <1>9 DEF LocksExclusive
<1> QED
  BY <1>7, <1>8, <1>10, <1>11 DEF InductiveInvariant

(* A new dump is recorded with the server the preflight has met.           *)
LEMMA PublishType ==
  ASSUME TypeOK, NEW m \in Metadata, Publish(m)
  PROVE  cached' \subseteq Metadata
  BY DEF TypeOK, Publish, Metadata

(* A push publishes its own dump.                                          *)
LEMMA FinishDumpStep ==
  ASSUME InductiveInvariant, NEW p \in Procs, NEW d \in Databases,
         FinishDump(p, d)
  PROVE  InductiveInvariant'
<1> DEFINE m == [profile |-> proc[p].source[1], server |-> proc[p].met,
                 database |-> d, origin |-> reach[proc[p].source[2]]]
           s == [proc[p] EXCEPT !.pc = "artifact", !.dump = m,
                                !.source = NoDump, !.met = NoServer]
<1>1. TypeOK /\ ProcessShape /\ LocksHeld /\ LocksExclusive
  BY DEF InductiveInvariant
<1>2. proc[p] \in Process /\ Shape(proc[p]) /\ proc[p].pc = "dumping"
  BY <1>1, StateType DEF ProcessShape, FinishDump, At
<1>3. m \in Metadata
  <2>1. proc[p].source \in Profiles \X Endpoints /\ proc[p].met \in Servers
    BY <1>2 DEF Shape
  <2>2. proc[p].source[1] \in Profiles /\ reach[proc[p].source[2]] \in Servers
    BY <1>1, <2>1 DEF TypeOK
  <2> QED
    BY <2>1, <2>2 DEF Metadata
<1>4. Publish(m) /\ locked' = locked /\ UNCHANGED <<config, active, reach, edits>>
  BY DEF FinishDump
<1>5. proc' = [Outdate({p}, Attesting) EXCEPT ![p] =
                 [@ EXCEPT !.pc = "artifact", !.dump = m,
                           !.source = NoDump, !.met = NoServer]]
  BY DEF FinishDump
<1> HIDE DEF m
<1>6. s \in Process
  BY <1>2, <1>3, ZenonT(60) DEF Process, Label
<1>7. /\ s.pc = "artifact" /\ s.profile = proc[p].profile /\ s.dump = m
      /\ s.endpoint = proc[p].endpoint /\ s.server = proc[p].server
  BY <1>2 DEF Process
<1>8. proc'[p] = s
  BY <1>1, <1>5 DEF Outdate, TypeOK
<1> HIDE DEF s
<1>9. \A q \in Procs : q # p => Outdated(q)
  BY <1>1, <1>5 DEF Outdate, Outdated, TypeOK
<1>10. proc' \in [Procs -> Process]
  <2>1. \A q \in Procs : proc'[q] \in Process
    <3>1. \A q \in Procs : [proc[q] EXCEPT !.outdated = TRUE] \in Process
      BY <1>1, StateType, ZenonT(60) DEF Process
    <3> QED
      BY <1>1, <1>6, <1>8, <1>9, <3>1, StateType DEF Outdated
  <2> QED
    BY <1>5, <2>1 DEF Outdate
<1>11. TypeOK'
  BY <1>1, <1>3, <1>4, <1>10, PublishType DEF TypeOK
<1>12. Shape(s) /\ s.pc \notin Writing
  BY <1>2, <1>3, <1>7 DEF Shape, Choosing, Decided, Writing
<1>13. \A q \in Procs : q # p =>
         /\ Shape(proc'[q])
         /\ proc'[q].pc = proc[q].pc
         /\ proc'[q].profile = proc[q].profile
         /\ proc'[q].database = proc[q].database
  BY <1>1, <1>9, OutdatedSame DEF ProcessShape
<1>14. ProcessShape'
  BY <1>8, <1>12, <1>13 DEF ProcessShape
<1>15. LocksHeld'
  BY <1>1, <1>4, <1>8, <1>12, <1>13 DEF LocksHeld
<1>16. LocksExclusive'
  BY <1>1, <1>4 DEF LocksExclusive
<1> QED
  BY <1>11, <1>14, <1>15, <1>16 DEF InductiveInvariant

-----------------------------------------------------------------------------
(* What others do meanwhile.                                               *)

(* A change that keeps the types and outdates pushes at most.              *)
LEMMA OthersKeep ==
  ASSUME InductiveInvariant, NEW before, proc' = Outdate({}, before),
         locked' = locked, proc' \in [Procs -> Process] => TypeOK'
  PROVE  InductiveInvariant'
<1>1. proc' \in [Procs -> Process] /\ \A q \in Procs : Outdated(q)
  BY OutdateStep
<1> QED
  BY <1>1, OutdatedKeeps DEF InductiveInvariant

(* A change that leaves the pushes alone.                                  *)
LEMMA PushesKept ==
  ASSUME InductiveInvariant, proc' = proc, locked' = locked, TypeOK'
  PROVE  InductiveInvariant'
<1>1. \A q \in Procs : Outdated(q)
  BY DEF Outdated
<1> QED
  BY <1>1, OutdatedKeeps DEF InductiveInvariant

(* The bound on edits.                                                     *)
LEMMA EditType ==
  ASSUME TypeOK, Edit
  PROVE  edits' \in 0..MaxEdits
  BY BoundsAssumption DEF TypeOK, Edit

LEMMA AddProfileStep ==
  ASSUME InductiveInvariant, NEW n \in Profiles, NEW e \in Endpoints,
         NEW b \in BOOLEAN, AddProfile(n, e, b)
  PROVE  InductiveInvariant'
<1>1. TypeOK
  BY DEF InductiveInvariant
<1> DEFINE entry == [endpoint |-> e, production |-> b, push |-> FALSE]
<1>2. entry \in Entry /\ ~(entry.production /\ entry.push)
  BY DEF Entry
<1>3. config' = [o \in DOMAIN config \cup {n} |->
                   IF o = n THEN entry ELSE config[o]]
  BY DEF AddProfile
<1> HIDE DEF entry
<1>4. DOMAIN config' = DOMAIN config \cup {n}
  BY <1>3
<1>5. \A o \in DOMAIN config' :
        config'[o] \in Entry /\ ~(config'[o].production /\ config'[o].push)
  BY <1>1, <1>2, <1>3 DEF TypeOK
<1>6. edits' \in 0..MaxEdits
  BY <1>1, EditType DEF AddProfile
<1>7. proc' \in [Procs -> Process] => TypeOK'
  BY <1>1, <1>4, <1>5, <1>6 DEF TypeOK, AddProfile
<1> QED
  BY <1>7, OthersKeep DEF AddProfile

LEMMA RemoveProfileStep ==
  ASSUME InductiveInvariant, NEW n \in Profiles, RemoveProfile(n)
  PROVE  InductiveInvariant'
<1>1. TypeOK
  BY DEF InductiveInvariant
<1>2. config' = [o \in DOMAIN config \ {n} |-> config[o]]
  BY DEF RemoveProfile
<1>3. DOMAIN config' = DOMAIN config \ {n}
  BY <1>2
<1>4. \A o \in DOMAIN config' :
        config'[o] \in Entry /\ ~(config'[o].production /\ config'[o].push)
  BY <1>1, <1>2 DEF TypeOK
<1>5. active' \in DOMAIN config' \cup {NoProfile}
  BY <1>1, <1>3 DEF TypeOK, RemoveProfile
<1>6. edits' \in 0..MaxEdits
  BY <1>1, EditType DEF RemoveProfile
<1>7. proc' \in [Procs -> Process] => TypeOK'
  BY <1>1, <1>3, <1>4, <1>5, <1>6 DEF TypeOK, RemoveProfile
<1> QED
  BY <1>7, OthersKeep DEF RemoveProfile

LEMMA UseProfileStep ==
  ASSUME InductiveInvariant, NEW n \in Profiles, UseProfile(n)
  PROVE  InductiveInvariant'
<1>1. TypeOK
  BY DEF InductiveInvariant
<1>2. edits' \in 0..MaxEdits
  BY <1>1, EditType DEF UseProfile
<1>3. TypeOK'
  BY <1>1, <1>2 DEF TypeOK, UseProfile
<1> QED
  BY <1>3, PushesKept DEF UseProfile

LEMMA AllowPushStep ==
  ASSUME InductiveInvariant, NEW n \in Profiles, AllowPush(n)
  PROVE  InductiveInvariant'
<1>1. TypeOK
  BY DEF InductiveInvariant
<1>2. edits' \in 0..MaxEdits
  BY <1>1, EditType DEF AllowPush
<1>3. /\ DOMAIN config' = DOMAIN config
      /\ \A o \in DOMAIN config :
           config'[o] \in Entry /\ ~(config'[o].production /\ config'[o].push)
  BY <1>1, SetPushType DEF AllowPush
<1>4. TypeOK'
  BY <1>1, <1>2, <1>3 DEF TypeOK, AllowPush
<1> QED
  BY <1>4, PushesKept DEF AllowPush

LEMMA DenyPushStep ==
  ASSUME InductiveInvariant, NEW n \in Profiles, DenyPush(n)
  PROVE  InductiveInvariant'
<1>1. TypeOK
  BY DEF InductiveInvariant
<1>2. edits' \in 0..MaxEdits
  BY <1>1, EditType DEF DenyPush
<1>3. /\ DOMAIN config' = DOMAIN config
      /\ \A o \in DOMAIN config :
           config'[o] \in Entry /\ ~(config'[o].production /\ config'[o].push)
  BY <1>1, SetPushType DEF DenyPush
<1>4. proc' \in [Procs -> Process] => TypeOK'
  BY <1>1, <1>2, <1>3 DEF TypeOK, DenyPush
<1> QED
  BY <1>4, OthersKeep DEF DenyPush

LEMMA DumpStep ==
  ASSUME InductiveInvariant, NEW d \in Databases, NEW met \in Servers,
         Dump(d, met)
  PROVE  InductiveInvariant'
<1> DEFINE m == [profile |-> active, server |-> met, database |-> d,
                 origin |-> reach[config[active].endpoint]]
<1>1. TypeOK
  BY DEF InductiveInvariant
<1>2. edits' \in 0..MaxEdits
  BY <1>1, EditType DEF Dump
<1>3. m \in Metadata
  <2>1. active \in DOMAIN config
    BY <1>1 DEF TypeOK, Dump
  <2>2. config[active].endpoint \in Endpoints
    BY <1>1, <2>1 DEF TypeOK, Entry
  <2> QED
    BY <1>1, <2>1, <2>2 DEF TypeOK, Metadata
<1>4. Publish(m)
  BY DEF Dump
<1>5. proc' \in [Procs -> Process] => TypeOK'
  BY <1>1, <1>2, <1>3, <1>4, PublishType DEF TypeOK, Dump
<1> QED
  BY <1>5, OthersKeep DEF Dump

LEMMA PruneStep ==
  ASSUME InductiveInvariant, NEW m \in cached, Prune(m)
  PROVE  InductiveInvariant'
<1>1. TypeOK
  BY DEF InductiveInvariant
<1>2. edits' \in 0..MaxEdits
  BY <1>1, EditType DEF Prune
<1>3. TypeOK'
  BY <1>1, <1>2 DEF TypeOK, Prune
<1> QED
  BY <1>3, PushesKept DEF Prune

LEMMA RepointStep ==
  ASSUME InductiveInvariant, NEW e \in Endpoints, NEW s \in Servers, Repoint(e, s)
  PROVE  InductiveInvariant'
<1>1. TypeOK
  BY DEF InductiveInvariant
<1>2. edits' \in 0..MaxEdits
  BY <1>1, EditType DEF Repoint
<1>3. TypeOK'
  BY <1>1, <1>2 DEF TypeOK, Repoint
<1> QED
  BY <1>3, PushesKept DEF Repoint

-----------------------------------------------------------------------------
LEMMA InitInvariant == Init => InductiveInvariant
<1> SUFFICES ASSUME Init
             PROVE  InductiveInvariant
  OBVIOUS
<1>1. TypeOK
  <2>1. proc \in [Procs -> Process]
    BY IdleState DEF Init
  <2>2. cached \subseteq Metadata
    BY DEF Init
  <2>3. PICK names \in SUBSET Profiles :
          /\ config \in [names -> {e \in Entry : ~(e.production /\ e.push)}]
          /\ active \in names
    BY DEF Init
  <2>4. /\ DOMAIN config \subseteq Profiles /\ active \in DOMAIN config
        /\ \A n \in DOMAIN config :
             config[n] \in Entry /\ ~(config[n].production /\ config[n].push)
    BY <2>3
  <2> QED
    BY <2>1, <2>2, <2>4, BoundsAssumption DEF Init, TypeOK
<1>2. ProcessShape
  BY IdleState DEF Init, ProcessShape
<1>3. LocksHeld /\ LocksExclusive
  BY DEF Init, LocksHeld, LocksExclusive, IdleProcess, Writing
<1> QED
  BY <1>1, <1>2, <1>3 DEF InductiveInvariant

LEMMA NextInvariant == InductiveInvariant /\ [Next]_vars => InductiveInvariant'
<1> SUFFICES ASSUME InductiveInvariant, [Next]_vars
             PROVE  InductiveInvariant'
  OBVIOUS
<1>1. CASE UNCHANGED vars
  <2>1. TypeOK'
    BY <1>1 DEF InductiveInvariant, TypeOK, vars
  <2> QED
    BY <1>1, <2>1, PushesKept DEF vars
<1>2. ASSUME NEW p \in Procs, PushStep(p)
      PROVE  InductiveInvariant'
  BY <1>2, ChooseProfileStep, VerifyStep, ProbeStep, GuardStep, ChooseDumpStep,
     StartDumpStep, AssessStep, FinishDumpStep, AuthorizeStep, ConfirmStep, LockStep,
     EnsureDatabaseStep, ImportStep, ReturnStep DEF PushStep
<1>3. CASE OthersStep
  BY <1>3, AddProfileStep, RemoveProfileStep, UseProfileStep, AllowPushStep,
     DenyPushStep, DumpStep, PruneStep, RepointStep DEF OthersStep
<1> QED
  BY <1>1, <1>2, <1>3 DEF Next

(* Every reachable state satisfies the inductive invariant: who decided    *)
(* keeps to its decision, and who writes holds its lock alone.             *)
THEOREM InvariantHolds == Spec => []InductiveInvariant
  BY InitInvariant, NextInvariant, PTL DEF Spec

(* Every variable keeps to its set of values, and no production profile    *)
(* ever accepts pushes.                                                    *)
THEOREM TypeCorrect == Spec => []TypeOK
<1>1. InductiveInvariant => TypeOK
  BY DEF InductiveInvariant
<1> QED
  BY <1>1, InvariantHolds, PTL

(* An import goes over the database its rows were taken from only if the   *)
(* source moved between preflight and mysqldump, wherever names, profiles  *)
(* and addresses lead to otherwise: authorize refuses the recorded server  *)
(* and the identity guard keeps the session on the attested one.           *)
THEOREM SourcesHold == Spec => []SourceNeverOverwritten
<1>1. InductiveInvariant => SourceNeverOverwritten
  <2> SUFFICES ASSUME InductiveInvariant, NEW p \in Procs, OverItsSource(p),
                      proc[p].dump.server = proc[p].dump.origin
               PROVE  FALSE
    BY DEF SourceNeverOverwritten
  <2>1. Shape(proc[p]) /\ proc[p].pc = "importing"
    BY DEF InductiveInvariant, ProcessShape, OverItsSource, At
  <2>2. proc[p].server = proc[p].dump.server
    BY <2>1 DEF Shape, OverItsSource
  <2>3. proc[p].database = proc[p].dump.database
    BY DEF OverItsSource
  <2> QED
    BY <2>1, <2>2, <2>3 DEF Shape, Decided, Writing
<1> QED
  BY <1>1, InvariantHolds, PTL

(* Two pushes never write into the same database of the same profile: the  *)
(* remote operation lock.                                                  *)
THEOREM WritersHold == Spec => []OneWriterPerProfile
<1>1. InductiveInvariant => OneWriterPerProfile
  <2> SUFFICES ASSUME InductiveInvariant, NEW p \in Procs, NEW q \in Procs, p # q,
                      proc[p].pc \in Writing, proc[q].pc \in Writing,
                      proc[p].profile = proc[q].profile,
                      proc[p].database = proc[q].database
               PROVE  FALSE
    BY DEF OneWriterPerProfile
  <2> DEFINE k == <<proc[p].profile, proc[p].database, p>>
             l == <<proc[q].profile, proc[q].database, q>>
  <2>1. k \in locked /\ l \in locked
    BY DEF InductiveInvariant, LocksHeld
  <2>2. k[1] = l[1] /\ k[2] = l[2] /\ k # l
    OBVIOUS
  <2> QED
    BY <2>1, <2>2 DEF InductiveInvariant, LocksExclusive
<1> QED
  BY <1>1, InvariantHolds, PTL

-----------------------------------------------------------------------------
(* A push that is not outdated writes into an unprotected destination.     *)
(* What such a push relies on (ViewsFit) is kept by its own steps, and     *)
(* every step of others either only makes the destination less protected   *)
(* or marks the push as outdated.                                          *)

(* A process about which the views say nothing.                            *)
LEMMA ViewEmpty ==
  ASSUME NEW p \in Procs, proc[p].pc \in Choosing \/ proc[p].outdated
  PROVE  ViewFits(p)
  BY DEF ViewFits, Choosing, Decided, Writing

(* The configuration accepts what it did, and maybe more.                  *)
Grown ==
  /\ DOMAIN config' = DOMAIN config
  /\ \A n \in DOMAIN config :
       /\ config'[n].endpoint = config[n].endpoint
       /\ config'[n].production = config[n].production
       /\ config[n].push => config'[n].push

LEMMA SameGrown ==
  ASSUME config' = config
  PROVE  Grown
  BY DEF Grown

(* Permission given to one profile.                                        *)
LEMMA PushGrown ==
  ASSUME TypeOK, NEW n \in DOMAIN config,
         config' = [config EXCEPT ![n].push = TRUE]
  PROVE  Grown /\ config'[n].push
<1>1. \A o \in DOMAIN config : config[o] \in Entry
  BY DEF TypeOK
<1>2. DOMAIN config' = DOMAIN config
  OBVIOUS
<1> DEFINE e == [config[n] EXCEPT !.push = TRUE]
<1>3. /\ e.endpoint = config[n].endpoint
      /\ e.production = config[n].production
      /\ e.push
  BY <1>1 DEF Entry
<1>4. config'[n] = e
  OBVIOUS
<1>5. \A o \in DOMAIN config : o # n => config'[o] = config[o]
  OBVIOUS
<1> HIDE DEF e
<1> QED
  BY <1>2, <1>3, <1>4, <1>5 DEF Grown

(* More acceptance means less protection.                                  *)
LEMMA GrownAccepts ==
  ASSUME Grown
  PROVE  /\ \A n : AcceptsPush(n) => AcceptsPush(n)'
         /\ Accepting \subseteq Accepting'
<1>1. \A n : AcceptsPush(n) => AcceptsPush(n)'
  BY DEF Grown, AcceptsPush
<1> QED
  BY <1>1 DEF Accepting

(* A push that does nothing keeps its view while the configuration grows   *)
(* and the cache does not, or while it has not scanned the cache yet.      *)
LEMMA ViewKept ==
  ASSUME NEW p \in Procs, ViewFits(p), Grown, proc'[p] = proc[p],
         cached' \subseteq cached \/ proc[p].pc \in Attesting
  PROVE  ViewFits(p)'
<1>1. CASE proc[p].pc \in Choosing \/ proc[p].outdated
  BY <1>1, ViewEmpty DEF ViewFits, Choosing, Decided, Writing
<1>2. CASE proc[p].pc \notin Choosing /\ ~proc[p].outdated
  <2> DEFINE s == proc[p]
  <2>1. /\ s.profile \in DOMAIN config
        /\ ~config[s.profile].production
        /\ config[s.profile].push \/ s.consented
        /\ ~ProtectedEndpoint(s.profile, s.endpoint)
    BY <1>2 DEF ViewFits
  <2>2. /\ s.profile \in DOMAIN config'
        /\ ~config'[s.profile].production
        /\ config'[s.profile].push \/ s.consented
    BY <2>1 DEF Grown
  <2> DEFINE n == s.profile
             e == s.endpoint
  <2>3. ~ProtectedEndpoint(n, e)'
    BY <2>1 DEF Grown, ProtectedEndpoint, AcceptsPush
  <2>4. s.pc \in {"verified", "probed"} => s.accepting \subseteq Accepting'
    BY <1>2, GrownAccepts DEF ViewFits
  <2>5. s.pc \in {"guarded", "loaded", "dumping"} \cup Decided =>
          \A m \in cached' : ~ (m.server = s.server /\ m.profile \notin Accepting')
    <3>1. s.pc \in {"guarded", "loaded", "dumping"} \cup Decided =>
            ~ProtectedServer(s.server, Accepting) /\ cached' \subseteq cached
      BY <1>2 DEF ViewFits, Attesting, Choosing, Decided, Writing
    <3> QED
      BY <3>1, GrownAccepts DEF ProtectedServer
  <2>6. s.pc = "artifact" =>
          \A m \in cached' :
            m.server = s.server /\ m.profile \notin Accepting' => m = s.dump
    <3>1. s.pc = "artifact" => cached' \subseteq cached
      BY DEF Attesting, Choosing
    <3> QED
      BY <1>2, <3>1, GrownAccepts DEF ViewFits
  <2>7. s.pc \in {"confirmed"} \cup Writing => AcceptsPush(n)'
    BY <1>2, GrownAccepts DEF ViewFits
  <2> QED
    BY <2>2, <2>3, <2>4, <2>5, <2>6, <2>7 DEF ViewFits, ProtectedServer
<1> QED
  BY <1>1, <1>2

(* A step of one push by which the configuration grows at most and the     *)
(* cache does not, keeps all views if it keeps that push's.                *)
LEMMA OwnStep ==
  ASSUME ViewsFit, NEW p \in Procs, OthersKept(p), Grown, cached' = cached,
         ViewFits(p)'
  PROVE  ViewsFit'
  BY ViewKept DEF ViewsFit, OthersKept

(* The same for a step that leaves the world alone.                        *)
LEMMA ViewAdvance ==
  ASSUME TypeOK, ViewsFit, NEW p \in Procs, NEW s \in Process,
         Become(p, s), UNCHANGED world,
         proc'[p] = s /\ UNCHANGED world => ViewFits(p)'
  PROVE  ViewsFit'
<1>1. proc'[p] = s /\ OthersKept(p)
  BY BecomeStep
<1>2. Grown /\ cached' = cached
  BY SameGrown DEF world
<1> QED
  BY <1>1, <1>2, OwnStep

(* A push returns, or begins.                                              *)
LEMMA ViewChoosing ==
  ASSUME NEW p \in Procs, proc'[p].pc \in Choosing
  PROVE  ViewFits(p)'
  BY DEF ViewFits, Choosing, Decided, Writing

-----------------------------------------------------------------------------
(* The steps of a push.                                                    *)

LEMMA ReturnView ==
  ASSUME InductiveInvariant, ViewsFit, NEW p \in Procs, Return(p)
  PROVE  ViewsFit'
<1>1. proc'[p] = IdleProcess /\ OthersKept(p)
  BY BecomeStep, IdleState DEF Return, InductiveInvariant
<1>2. ViewFits(p)'
  BY <1>1, ViewChoosing DEF IdleProcess, Choosing
<1> QED
  BY <1>1, <1>2, SameGrown, OwnStep DEF Return

LEMMA ChooseProfileView ==
  ASSUME InductiveInvariant, ViewsFit, NEW p \in Procs, NEW n \in Profiles,
         ChooseProfile(p, n)
  PROVE  ViewsFit'
<1> DEFINE s == [IdleProcess EXCEPT !.pc = "chosen", !.profile = n,
                                    !.consented = ~AcceptsPush(n)]
<1>1. s \in Process /\ s.pc = "chosen"
  <2>1. (~AcceptsPush(n)) \in {TRUE, FALSE}
    BY Zenon
  <2> QED
    BY <2>1 DEF IdleProcess, Process, Label, Attesting, Choosing
<1>2. Become(p, s) /\ UNCHANGED world
  BY DEF ChooseProfile
<1> HIDE DEF s
<1>3. proc'[p] = s => ViewFits(p)'
  BY <1>1, ViewChoosing DEF Choosing
<1> QED
  BY <1>1, <1>2, <1>3, ViewAdvance DEF InductiveInvariant

(* Verify checks what the view says of the destination.                    *)
LEMMA VerifyView ==
  ASSUME InductiveInvariant, ViewsFit, NEW p \in Procs, Verify(p)
  PROVE  ViewsFit'
<1> DEFINE n == proc[p].profile
           e == config[n].endpoint
           s == [proc[p] EXCEPT !.pc = "verified", !.endpoint = e,
                                !.accepting = Accepting]
<1>1. TypeOK /\ proc[p] \in Process
  BY StateType DEF InductiveInvariant
<1>2. e \in Endpoints
  BY <1>1 DEF Verify, TypeOK, Entry
<1>3. Accepting \in SUBSET Profiles
  BY DEF Accepting
<1>4. s \in Process
  BY <1>1, <1>2, <1>3, ZenonT(60) DEF Process, Label, Attesting
<1>5. /\ s.pc = "verified" /\ s.profile = n /\ s.endpoint = e
      /\ s.consented = proc[p].consented /\ s.accepting = Accepting
  BY <1>1 DEF Process
<1>6. Become(p, s) /\ UNCHANGED world
  BY DEF Verify
<1>7. /\ n \in DOMAIN config /\ ~config[n].production
      /\ config[n].push \/ proc[p].consented
      /\ ~ProtectedEndpoint(n, e)
  BY DEF Verify
<1> HIDE DEF s, n, e
<1>8. proc'[p] = s /\ UNCHANGED world => ViewFits(p)'
  BY <1>5, <1>7 DEF ViewFits, Decided, Writing, world, ProtectedEndpoint,
     AcceptsPush, Accepting
<1> QED
  BY <1>1, <1>4, <1>6, <1>8, ViewAdvance

LEMMA ProbeView ==
  ASSUME InductiveInvariant, ViewsFit, NEW p \in Procs, Probe(p)
  PROVE  ViewsFit'
<1> DEFINE s == [proc[p] EXCEPT !.pc = "probed",
                                !.server = reach[proc[p].endpoint]]
<1>1. /\ TypeOK /\ proc[p] \in Process /\ Shape(proc[p])
      /\ proc[p].pc = "verified" /\ ViewFits(p)
  BY StateType DEF InductiveInvariant, ProcessShape, Probe, At, ViewsFit
<1>2. reach[proc[p].endpoint] \in Servers
  BY <1>1 DEF TypeOK, Shape, Choosing
<1>3. s \in Process
  BY <1>1, <1>2, ZenonT(60) DEF Process, Label, Attesting
<1>4. /\ s.pc = "probed" /\ s.profile = proc[p].profile
      /\ s.endpoint = proc[p].endpoint /\ s.consented = proc[p].consented
      /\ s.accepting = proc[p].accepting /\ s.outdated = proc[p].outdated
  BY <1>1 DEF Process
<1>5. Become(p, s) /\ UNCHANGED world
  BY DEF Probe
<1> HIDE DEF s
<1>6. proc'[p] = s /\ UNCHANGED world => ViewFits(p)'
  BY <1>1, <1>4 DEF ViewFits, Choosing, Decided, Writing, world,
     ProtectedEndpoint, AcceptsPush, Accepting
<1> QED
  BY <1>1, <1>3, <1>5, <1>6, ViewAdvance

(* The profiles that accepted before the probe still do, so that the scan  *)
(* protects whatever a scan with the profiles of now would.                *)
LEMMA GuardView ==
  ASSUME InductiveInvariant, ViewsFit, NEW p \in Procs, Guard(p)
  PROVE  ViewsFit'
<1> DEFINE s == [proc[p] EXCEPT !.pc = "guarded", !.accepting = {}]
<1>1. /\ TypeOK /\ proc[p] \in Process /\ proc[p].pc = "probed" /\ ViewFits(p)
  BY StateType DEF InductiveInvariant, Guard, At, ViewsFit
<1>2. s \in Process
  BY <1>1 DEF Process, Label
<1>3. /\ s.pc = "guarded" /\ s.profile = proc[p].profile
      /\ s.endpoint = proc[p].endpoint /\ s.consented = proc[p].consented
      /\ s.server = proc[p].server /\ s.outdated = proc[p].outdated
  BY <1>1 DEF Process
<1>4. Become(p, s) /\ UNCHANGED world
  BY DEF Guard
<1> HIDE DEF s
<1>5. ~s.outdated => ~ProtectedServer(s.server, Accepting)
  BY <1>1, <1>3 DEF Guard, ViewFits, ProtectedServer
<1>6. proc'[p] = s /\ UNCHANGED world => ViewFits(p)'
  BY <1>1, <1>3, <1>5 DEF ViewFits, Choosing, Decided, Writing, world,
     ProtectedEndpoint, ProtectedServer, AcceptsPush, Accepting
<1> QED
  BY <1>1, <1>2, <1>4, <1>6, ViewAdvance

(* The view goes on with the push when it keeps its destination and none   *)
(* of the dumps but its own shows a protected owner.                       *)
Proceeds(p, s) ==
  /\ s.profile = proc[p].profile /\ s.endpoint = proc[p].endpoint
  /\ s.consented = proc[p].consented /\ s.server = proc[p].server
  /\ s.outdated = proc[p].outdated

LEMMA ViewProceeds ==
  ASSUME NEW p \in Procs, NEW s, ViewFits(p), proc[p].pc \notin Choosing,
         Proceeds(p, s), proc'[p] = s, s.pc \notin Attesting,
         UNCHANGED config,
         ~s.outdated => \A m \in cached' :
           m.server = s.server /\ m.profile \notin Accepting =>
             s.pc = "artifact" /\ m = s.dump,
         s.pc \in Writing => proc[p].pc \in {"confirmed"} \cup Writing,
         s.pc # "confirmed"
  PROVE  ViewFits(p)'
<1>1. CASE s.outdated
  BY <1>1 DEF ViewFits
<1>2. CASE ~s.outdated
  <2>1. /\ s.profile \in DOMAIN config
        /\ ~config[s.profile].production
        /\ config[s.profile].push \/ s.consented
        /\ ~ProtectedEndpoint(s.profile, s.endpoint)
        /\ s.pc \in Writing => AcceptsPush(s.profile)
    BY <1>2 DEF ViewFits, Proceeds
  <2>2. \A m \in cached' :
          m.server = s.server /\ m.profile \notin Accepting =>
            s.pc = "artifact" /\ m = s.dump
    BY <1>2
  <2>3. s.pc # "artifact" =>
          ~ \E m \in cached' : m.server = s.server /\ m.profile \notin Accepting
    BY <2>2
  <2>4. "artifact" \notin {"guarded", "loaded", "dumping"} \cup Decided
    BY DEF Decided, Writing
  <2>5. s.pc \notin {"verified", "probed"}
    BY DEF Attesting
  <2> QED
    BY <2>1, <2>2, <2>3, <2>4, <2>5 DEF ViewFits, ProtectedEndpoint,
       ProtectedServer, AcceptsPush, Accepting
<1> QED
  BY <1>1, <1>2

LEMMA ChooseDumpView ==
  ASSUME InductiveInvariant, ViewsFit, NEW p \in Procs, NEW m \in cached,
         ChooseDump(p, m)
  PROVE  ViewsFit'
<1> DEFINE s == [proc[p] EXCEPT !.pc = "artifact", !.dump = m]
<1>1. /\ TypeOK /\ proc[p] \in Process /\ proc[p].pc = "guarded" /\ ViewFits(p)
      /\ m \in Metadata
  BY StateType DEF InductiveInvariant, ChooseDump, At, ViewsFit, TypeOK
<1>2. s \in Process
  BY <1>1, ZenonT(60) DEF Process, Label
<1>3. s.pc = "artifact" /\ Proceeds(p, s)
  BY <1>1 DEF Process, Proceeds
<1>4. Become(p, s) /\ UNCHANGED world
  BY DEF ChooseDump
<1> HIDE DEF s
<1>5. ~s.outdated => \A o \in cached :
        ~ (o.server = s.server /\ o.profile \notin Accepting)
  BY <1>1, <1>3 DEF ViewFits, Proceeds, ProtectedServer
<1>6. proc'[p] = s /\ UNCHANGED world => ViewFits(p)'
  BY <1>1, <1>3, <1>5, ViewProceeds DEF Choosing, Attesting, Writing, world
<1> QED
  BY <1>1, <1>2, <1>4, <1>6, ViewAdvance

LEMMA StartDumpView ==
  ASSUME InductiveInvariant, ViewsFit, NEW p \in Procs, StartDump(p)
  PROVE  ViewsFit'
<1> DEFINE source == <<active, config[active].endpoint>>
           s == [proc[p] EXCEPT !.pc = "loaded", !.source = source]
<1>1. TypeOK /\ proc[p] \in Process /\ proc[p].pc = "guarded" /\ ViewFits(p)
  BY StateType DEF InductiveInvariant, StartDump, At, ViewsFit
<1>2. active \in DOMAIN config /\ active \in Profiles
  BY <1>1 DEF StartDump, TypeOK
<1>3. source \in Profiles \X Endpoints
  BY <1>1, <1>2 DEF TypeOK, Entry
<1> HIDE DEF source
<1>4. s \in Process
  BY <1>1, <1>3, ZenonT(60) DEF Process, Label
<1>5. s.pc = "loaded" /\ Proceeds(p, s)
  BY <1>1 DEF Process, Proceeds
<1>6. Become(p, s) /\ UNCHANGED world
  BY DEF StartDump, source
<1> HIDE DEF s
<1>7. ~s.outdated => \A o \in cached :
        ~ (o.server = s.server /\ o.profile \notin Accepting)
  BY <1>1, <1>5 DEF ViewFits, Proceeds, ProtectedServer
<1>8. proc'[p] = s /\ UNCHANGED world => ViewFits(p)'
  BY <1>1, <1>5, <1>7, ViewProceeds DEF Choosing, Attesting, Writing, world
<1> QED
  BY <1>1, <1>4, <1>6, <1>8, ViewAdvance

LEMMA AssessView ==
  ASSUME InductiveInvariant, ViewsFit, NEW p \in Procs, Assess(p)
  PROVE  ViewsFit'
<1> DEFINE s == [proc[p] EXCEPT !.pc = "dumping",
                                !.met = reach[proc[p].source[2]]]
<1>1. /\ TypeOK /\ proc[p] \in Process /\ Shape(proc[p])
      /\ proc[p].pc = "loaded" /\ ViewFits(p)
  BY StateType DEF InductiveInvariant, ProcessShape, Assess, At, ViewsFit
<1>2. proc[p].source \in Profiles \X Endpoints
  BY <1>1 DEF Shape
<1>3. reach[proc[p].source[2]] \in Servers
  BY <1>1, <1>2 DEF TypeOK
<1>4. s \in Process
  BY <1>1, <1>3, ZenonT(60) DEF Process, Label
<1>5. s.pc = "dumping" /\ Proceeds(p, s)
  BY <1>1 DEF Process, Proceeds
<1>6. Become(p, s) /\ UNCHANGED world
  BY DEF Assess
<1> HIDE DEF s
<1>7. ~s.outdated => \A o \in cached :
        ~ (o.server = s.server /\ o.profile \notin Accepting)
  BY <1>1, <1>5 DEF ViewFits, Proceeds, ProtectedServer
<1>8. proc'[p] = s /\ UNCHANGED world => ViewFits(p)'
  BY <1>1, <1>5, <1>7, ViewProceeds DEF Choosing, Attesting, Writing, world
<1> QED
  BY <1>1, <1>4, <1>6, <1>8, ViewAdvance

(* The one dump that may show a protected owner is the one at hand, and    *)
(* authorize refuses that.                                                 *)
LEMMA AuthorizeView ==
  ASSUME InductiveInvariant, ViewsFit, NEW p \in Procs, NEW d \in Databases,
         Authorize(p, d)
  PROVE  ViewsFit'
<1> DEFINE s == [proc[p] EXCEPT !.pc = "authorized", !.database = d]
<1>1. /\ TypeOK /\ proc[p] \in Process /\ Shape(proc[p])
      /\ proc[p].pc = "artifact" /\ ViewFits(p)
  BY StateType DEF InductiveInvariant, ProcessShape, Authorize, At, ViewsFit
<1>2. s \in Process
  BY <1>1, ZenonT(60) DEF Process, Label
<1>3. s.pc = "authorized" /\ Proceeds(p, s)
  BY <1>1 DEF Process, Proceeds
<1>4. Become(p, s) /\ UNCHANGED world
  BY DEF Authorize
<1>5. proc[p].server = proc[p].dump.server => proc[p].dump.profile \in Accepting
  <2>1. proc[p].dump.profile \in Profiles
    BY <1>1 DEF Shape, Metadata
  <2> QED
    BY <2>1 DEF Authorize, MayReceive, Accepting
<1> HIDE DEF s
<1>6. ~s.outdated => \A o \in cached :
        ~ (o.server = s.server /\ o.profile \notin Accepting)
  BY <1>1, <1>3, <1>5 DEF ViewFits, Proceeds
<1>7. proc'[p] = s /\ UNCHANGED world => ViewFits(p)'
  BY <1>1, <1>3, <1>6, ViewProceeds DEF Choosing, Attesting, Writing, world
<1> QED
  BY <1>1, <1>2, <1>4, <1>7, ViewAdvance

(* With the confirmation the destination accepts pushes.                   *)
LEMMA ConfirmedView ==
  ASSUME NEW p \in Procs, NEW s, ViewFits(p), proc[p].pc = "authorized",
         Proceeds(p, s), proc'[p] = s, s.pc = "confirmed", Grown,
         cached' = cached, proc[p].outdated \/ config'[s.profile].push
  PROVE  ViewFits(p)'
<1> DEFINE n == s.profile
           e == s.endpoint
<1>1. CASE s.outdated
  BY <1>1 DEF ViewFits
<1>2. CASE ~s.outdated
  <2>1. /\ n \in DOMAIN config /\ ~config[n].production
        /\ ~ProtectedEndpoint(n, e)
        /\ ~ProtectedServer(s.server, Accepting)
    BY <1>2 DEF ViewFits, Proceeds, Choosing, Decided
  <2>2. n \in DOMAIN config' /\ ~config'[n].production /\ config'[n].push
    BY <1>2, <2>1 DEF Grown, Proceeds
  <2>3. ~ProtectedEndpoint(n, e)'
    BY <2>1 DEF Grown, ProtectedEndpoint, AcceptsPush
  <2>4. \A m \in cached' : ~ (m.server = s.server /\ m.profile \notin Accepting')
    BY <2>1, GrownAccepts DEF ProtectedServer
  <2> QED
    BY <2>2, <2>3, <2>4 DEF ViewFits, AcceptsPush, ProtectedServer
<1> QED
  BY <1>1, <1>2

(* It did accept them, or the consent becomes part of the configuration.   *)
LEMMA ConfirmView ==
  ASSUME InductiveInvariant, ViewsFit, NEW p \in Procs, Confirm(p)
  PROVE  ViewsFit'
<1> DEFINE s == [proc[p] EXCEPT !.pc = "confirmed"]
<1>1. /\ TypeOK /\ proc[p] \in Process /\ proc[p].pc = "authorized"
      /\ ViewFits(p)
  BY StateType DEF InductiveInvariant, Confirm, At, ViewsFit
<1>2. s \in Process
  BY <1>1 DEF Process, Label
<1>3. s.pc = "confirmed" /\ Proceeds(p, s)
  BY <1>1 DEF Process, Proceeds
<1>4. proc'[p] = s /\ OthersKept(p)
  BY <1>1, <1>2, BecomeStep DEF Confirm
<1> HIDE DEF s
<1>5. Grown /\ (proc[p].outdated \/ config'[s.profile].push)
  <2>1. s.profile = proc[p].profile
    BY <1>3 DEF Proceeds
  <2>2. CASE proc[p].consented
    <3>1. proc[p].profile \in DOMAIN config
          /\ config' = [config EXCEPT ![proc[p].profile].push = TRUE]
      BY <2>2 DEF Confirm
    <3> QED
      BY <1>1, <2>1, <3>1, PushGrown
  <2>3. CASE ~proc[p].consented
    <3>1. config' = config
      BY <2>3 DEF Confirm
    <3>2. proc[p].outdated \/ config[proc[p].profile].push
      BY <1>1, <2>3 DEF ViewFits, Choosing
    <3> QED
      BY <2>1, <3>1, <3>2, SameGrown
  <2> QED
    BY <2>2, <2>3
<1>6. ViewFits(p)'
  BY <1>1, <1>3, <1>4, <1>5, ConfirmedView DEF Confirm
<1> QED
  BY <1>4, <1>5, <1>6, OwnStep DEF Confirm

(* The steps of a writer, from the confirmation to the import.             *)
LEMMA WriterProceeds ==
  ASSUME TypeOK, NEW p \in Procs, NEW s, ViewFits(p), Proceeds(p, s),
         proc'[p] = s, UNCHANGED <<config, cached>>, s.pc \in Writing,
         proc[p].pc \in {"confirmed"} \cup Writing
  PROVE  ViewFits(p)'
<1>1. ~s.outdated => \A m \in cached' :
        ~ (m.server = s.server /\ m.profile \notin Accepting)
  BY DEF ViewFits, Proceeds, Decided, ProtectedServer
<1> QED
  BY <1>1, ViewProceeds DEF Choosing, Attesting, Writing

LEMMA LockView ==
  ASSUME InductiveInvariant, ViewsFit, NEW p \in Procs, Lock(p)
  PROVE  ViewsFit'
<1> DEFINE s == [proc[p] EXCEPT !.pc = "locked"]
<1>1. TypeOK /\ proc[p] \in Process /\ proc[p].pc = "confirmed" /\ ViewFits(p)
  BY StateType DEF InductiveInvariant, Lock, At, ViewsFit
<1>2. s \in Process
  BY <1>1 DEF Process, Label
<1>3. s.pc = "locked" /\ Proceeds(p, s)
  BY <1>1 DEF Process, Proceeds
<1>4. proc'[p] = s /\ OthersKept(p)
  BY <1>1, <1>2, BecomeStep DEF Lock
<1> HIDE DEF s
<1>5. ViewFits(p)'
  BY <1>1, <1>3, <1>4, WriterProceeds DEF Lock, Writing
<1> QED
  BY <1>4, <1>5, SameGrown, OwnStep DEF Lock

LEMMA EnsureDatabaseView ==
  ASSUME InductiveInvariant, ViewsFit, NEW p \in Procs, EnsureDatabase(p)
  PROVE  ViewsFit'
<1> DEFINE s == [proc[p] EXCEPT !.pc = "ensured"]
<1>1. TypeOK /\ proc[p] \in Process /\ proc[p].pc = "locked" /\ ViewFits(p)
  BY StateType DEF InductiveInvariant, EnsureDatabase, At, ViewsFit
<1>2. s \in Process
  BY <1>1 DEF Process, Label
<1>3. s.pc = "ensured" /\ Proceeds(p, s)
  BY <1>1 DEF Process, Proceeds
<1>4. Become(p, s) /\ UNCHANGED world
  BY DEF EnsureDatabase
<1> HIDE DEF s
<1>5. proc'[p] = s /\ UNCHANGED world => ViewFits(p)'
  BY <1>1, <1>3, WriterProceeds DEF Writing, world
<1> QED
  BY <1>1, <1>2, <1>4, <1>5, ViewAdvance

LEMMA ImportView ==
  ASSUME InductiveInvariant, ViewsFit, NEW p \in Procs, Import(p)
  PROVE  ViewsFit'
<1> DEFINE s == [proc[p] EXCEPT !.pc = "importing",
                                !.session = reach[proc[p].endpoint]]
<1>1. /\ TypeOK /\ proc[p] \in Process /\ Shape(proc[p])
      /\ proc[p].pc = "ensured" /\ ViewFits(p)
  BY StateType DEF InductiveInvariant, ProcessShape, Import, At, ViewsFit
<1>2. reach[proc[p].endpoint] \in Servers
  BY <1>1 DEF TypeOK, Shape, Choosing
<1>3. s \in Process
  BY <1>1, <1>2 DEF Process, Label
<1>4. s.pc = "importing" /\ Proceeds(p, s)
  BY <1>1 DEF Process, Proceeds
<1>5. Become(p, s) /\ UNCHANGED world
  BY DEF Import
<1> HIDE DEF s
<1>6. proc'[p] = s /\ UNCHANGED world => ViewFits(p)'
  BY <1>1, <1>4, WriterProceeds DEF Writing, world
<1> QED
  BY <1>1, <1>3, <1>5, <1>6, ViewAdvance

-----------------------------------------------------------------------------
(* The steps that outdate other pushes.                                    *)

(* A push that has passed the labels before is outdated, another one stays *)
(* as it is; the views of those that stay are kept by assumption.          *)
LEMMA OutdateView ==
  ASSUME InductiveInvariant, NEW p \in Procs, NEW o, NEW before,
         proc'[p] = Outdate(o, before)[p], p \notin o,
         proc[p].pc \in before /\ proc'[p] = proc[p] => ViewFits(p)'
  PROVE  ViewFits(p)'
<1>1. proc[p] \in Process
  BY StateType DEF InductiveInvariant
<1>2. CASE proc[p].pc \in before
  BY <1>2 DEF Outdate
<1>3. CASE proc[p].pc \notin before
  <2>1. proc'[p].outdated
    BY <1>1, <1>3 DEF Outdate, Process
  <2> QED
    BY <2>1 DEF ViewFits
<1> QED
  BY <1>2, <1>3

(* A push publishes its dump: the one thing in the cache that may protect  *)
(* its server now.                                                         *)
LEMMA FinishDumpView ==
  ASSUME InductiveInvariant, ViewsFit, NEW p \in Procs, NEW d \in Databases,
         FinishDump(p, d)
  PROVE  ViewsFit'
<1> DEFINE m == [profile |-> proc[p].source[1], server |-> proc[p].met,
                 database |-> d, origin |-> reach[proc[p].source[2]]]
           s == [proc[p] EXCEPT !.pc = "artifact", !.dump = m,
                                !.source = NoDump, !.met = NoServer]
<1>1. /\ TypeOK /\ proc[p] \in Process /\ proc[p].pc = "dumping" /\ ViewFits(p)
  BY StateType DEF InductiveInvariant, FinishDump, At, ViewsFit
<1>2. Publish(m) /\ UNCHANGED <<config, active, reach, locked, edits>>
  BY DEF FinishDump
<1>3. proc' = [Outdate({p}, Attesting) EXCEPT ![p] =
                 [@ EXCEPT !.pc = "artifact", !.dump = m,
                           !.source = NoDump, !.met = NoServer]]
  BY DEF FinishDump
<1> HIDE DEF m
<1>4. s.pc = "artifact" /\ s.dump = m /\ Proceeds(p, s)
  BY <1>1 DEF Process, Proceeds
<1>5. proc'[p] = s
  BY <1>1, <1>3 DEF Outdate, TypeOK
<1> HIDE DEF s
<1>6. \A q \in Procs : q # p => proc'[q] = Outdate({p}, Attesting)[q]
  BY <1>1, <1>3 DEF Outdate, TypeOK
<1>7. Grown
  BY <1>2, SameGrown
<1>8. ViewFits(p)'
  <2>1. ~s.outdated => \A o \in cached' :
          o.server = s.server /\ o.profile \notin Accepting => o = s.dump
    BY <1>1, <1>2, <1>4 DEF ViewFits, Proceeds, ProtectedServer, Publish
  <2> QED
    BY <1>1, <1>2, <1>4, <1>5, <2>1, ViewProceeds
    DEF Choosing, Attesting, Writing
<1>9. ASSUME NEW q \in Procs, q # p
      PROVE  ViewFits(q)'
  <2>1. proc[q].pc \in Attesting /\ proc'[q] = proc[q] => ViewFits(q)'
    BY <1>7, ViewKept DEF ViewsFit
  <2> QED
    BY <1>6, <1>9, <2>1, OutdateView
<1> QED
  BY <1>8, <1>9 DEF ViewsFit

(* A dump of another command.                                              *)
LEMMA DumpView ==
  ASSUME InductiveInvariant, ViewsFit, NEW d \in Databases, NEW met \in Servers,
         Dump(d, met)
  PROVE  ViewsFit'
<1> SUFFICES ASSUME NEW p \in Procs
             PROVE  ViewFits(p)'
  BY DEF ViewsFit
<1>1. Grown
  BY SameGrown DEF Dump
<1>2. proc[p].pc \in Attesting /\ proc'[p] = proc[p] => ViewFits(p)'
  BY <1>1, ViewKept DEF ViewsFit
<1>3. proc'[p] = Outdate({}, Attesting)[p]
  BY DEF Dump
<1> QED
  BY <1>2, <1>3, OutdateView

(* A profile is added, removed or denied: whoever has read the             *)
(* configuration is outdated.                                              *)
LEMMA ConfigView ==
  ASSUME InductiveInvariant, proc' = Outdate({}, Choosing)
  PROVE  ViewsFit'
<1> SUFFICES ASSUME NEW p \in Procs
             PROVE  ViewFits(p)'
  BY DEF ViewsFit
<1>1. proc[p].pc \in Choosing /\ proc'[p] = proc[p] => ViewFits(p)'
  BY ViewChoosing
<1> QED
  BY <1>1, OutdateView

(* Whatever others do besides leaves the pushes and their views alone.     *)
LEMMA OthersView ==
  ASSUME ViewsFit, proc' = proc, Grown, cached' \subseteq cached
  PROVE  ViewsFit'
  BY ViewKept DEF ViewsFit

-----------------------------------------------------------------------------
LEMMA InitViews == Init => ViewsFit
<1> SUFFICES ASSUME Init, NEW p \in Procs
             PROVE  ViewFits(p)
  BY DEF ViewsFit
<1> QED
  BY ViewEmpty DEF Init, IdleProcess, Choosing

LEMMA NextViews ==
  InductiveInvariant /\ ViewsFit /\ [Next]_vars => ViewsFit'
<1> SUFFICES ASSUME InductiveInvariant, ViewsFit, [Next]_vars
             PROVE  ViewsFit'
  OBVIOUS
<1>1. CASE UNCHANGED vars
  BY <1>1, OthersView, SameGrown DEF vars
<1>2. ASSUME NEW p \in Procs, PushStep(p)
      PROVE  ViewsFit'
  BY <1>2, ChooseProfileView, VerifyView, ProbeView, GuardView, ChooseDumpView,
     StartDumpView, AssessView, FinishDumpView, AuthorizeView, ConfirmView,
     LockView, EnsureDatabaseView, ImportView, ReturnView DEF PushStep
<1>3. CASE OthersStep
  <2>1. ASSUME NEW n \in Profiles, NEW e \in Endpoints, NEW b \in BOOLEAN,
               AddProfile(n, e, b)
        PROVE  ViewsFit'
    BY <2>1, ConfigView DEF AddProfile
  <2>2. ASSUME NEW n \in Profiles, RemoveProfile(n) \/ DenyPush(n)
        PROVE  ViewsFit'
    BY <2>2, ConfigView DEF RemoveProfile, DenyPush
  <2>3. ASSUME NEW n \in Profiles, UseProfile(n)
        PROVE  ViewsFit'
    BY <2>3, OthersView, SameGrown DEF UseProfile
  <2>4. ASSUME NEW n \in Profiles, AllowPush(n)
        PROVE  ViewsFit'
    BY <2>4, OthersView, PushGrown DEF AllowPush, InductiveInvariant
  <2>5. ASSUME NEW m \in cached, Prune(m)
        PROVE  ViewsFit'
    BY <2>5, OthersView, SameGrown DEF Prune
  <2>6. ASSUME NEW e \in Endpoints, NEW s \in Servers, Repoint(e, s)
        PROVE  ViewsFit'
    BY <2>6, OthersView, SameGrown DEF Repoint
  <2> QED
    BY <1>3, <2>1, <2>2, <2>3, <2>4, <2>5, <2>6, DumpView DEF OthersStep
<1> QED
  BY <1>1, <1>2, <1>3 DEF Next

(* In every reachable state a push that is not outdated may rely on what   *)
(* the gate has found, and on the dump it has published or chosen.         *)
THEOREM ViewsHold == Spec => []ViewsFit
<1>1. InductiveInvariant /\ ViewsFit /\ [Next]_vars => ViewsFit'
  BY NextViews
<1> QED
  BY <1>1, InitViews, InvariantHolds, PTL DEF Spec

(* Unless others changed what the gate has already read, a push writes     *)
(* into a destination that accepts pushes and that no profile and no       *)
(* cached dump protects: verify, guard_probe and authorize together.       *)
THEOREM DestinationsHold == Spec => []DestinationUnprotected
<1>1. ViewsFit => DestinationUnprotected
  BY DEF ViewsFit, ViewFits, DestinationUnprotected, Writing, Decided, Choosing
<1> QED
  BY <1>1, ViewsHold, PTL
=============================================================================
