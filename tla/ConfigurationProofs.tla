------------------------ MODULE ConfigurationProofs ------------------------
(***************************************************************************)
(* Theorems about Configuration for any processes, names and keys: what a  *)
(* command makes of the document it loaded, the inductive invariant, that  *)
(* entries keep their credential, that no credential is left over, and     *)
(* that only `profile allow-push` grants pushes.                           *)
(***************************************************************************)
EXTENDS Configuration, TLAPS

LEMMA ProcessType ==
  ASSUME TypeOK, NEW p \in Procs
  PROVE  proc[p] \in Process
  BY DEF TypeOK

LEMMA DefaultType ==
  /\ DefaultConfig \in Config /\ Valid(DefaultConfig) /\ Distinct(DefaultConfig)
  /\ References(DefaultConfig) = {} /\ DefaultConfig.push = {}
  /\ DefaultConfig.version = 2
  BY NamesAssumption DEF DefaultConfig, Config, Valid, Distinct, References

LEMMA IdleType ==
  /\ IdleProcess \in Process
  /\ IdleProcess.pc = "idle" /\ IdleProcess.command = "none"
  /\ IdleProcess.loaded = DefaultConfig
  BY DefaultType DEF IdleProcess, Process, Command

(* A migration changes neither entries nor permissions.                    *)
LEMMA MigratedType ==
  ASSUME NEW c \in Config
  PROVE  /\ Migrated(c) \in Config /\ Migrated(c).version = 2
         /\ References(Migrated(c)) = References(c)
         /\ Distinct(Migrated(c)) <=> Distinct(c)
         /\ Valid(Migrated(c)) <=> Valid(c)
         /\ Migrated(c).push = c.push
<1> DEFINE d == Migrated(c)
<1>1. /\ d \in Config /\ d.version = 2 /\ d.profiles = c.profiles /\ d.push = c.push
      /\ d.active = c.active /\ d.targets = c.targets /\ d.default = c.default
  BY DEF Migrated, Config
<1> HIDE DEF d
<1>2. References(d) = References(c)
  BY <1>1 DEF References
<1>3. Distinct(d) <=> Distinct(c)
  BY <1>1 DEF Distinct
<1>4. Valid(d) <=> Valid(c)
  BY <1>1 DEF Valid
<1> QED
  BY <1>1, <1>2, <1>3, <1>4 DEF d

-----------------------------------------------------------------------------
(* What a command makes of its document, command by command.               *)
LEMMA DocumentCases ==
  ASSUME NEW p \in Procs
  PROVE  LET n == proc[p].name
             c == proc[p].loaded
             k == proc[p].key
         IN /\ proc[p].command = "add" =>
                 Document(p) = [c EXCEPT !.profiles[n] = k, !.active = n]
            /\ proc[p].command = "use" => Document(p) = [c EXCEPT !.active = n]
            /\ proc[p].command = "allow" => Document(p) = [c EXCEPT !.push = @ \cup {n}]
            /\ proc[p].command = "deny" => Document(p) = [c EXCEPT !.push = @ \ {n}]
            /\ proc[p].command = "remove" =>
                 Document(p) = [c EXCEPT !.profiles[n] = NoKey, !.push = @ \ {n},
                                         !.active = IF @ = n THEN NoName ELSE @]
            /\ proc[p].command = "setup" =>
                 Document(p) = [c EXCEPT !.targets[n] = k, !.default = n]
            /\ proc[p].command = "reset" => Document(p) = c
  BY Zenon DEF Document

(* When a process may save: a command, its name, what it found, its key.   *)
Ready(p) ==
  /\ proc[p] \in Process /\ ProcessShape(p)
  /\ proc[p].pc \in {"to save", "saving"}

LEMMA ReadyFacts ==
  ASSUME NEW p \in Procs, Ready(p)
  PROVE  LET s == proc[p]
             c == proc[p].loaded
         IN /\ c \in Config /\ Valid(c) /\ c.version = 2
            /\ s.command \in {"add", "use", "allow", "deny", "remove", "setup", "reset"}
            /\ s.command \in {"add", "setup"} => s.key \in Keys
            /\ s.command = "setup" => s.name \in Containers
            /\ s.command \notin {"setup", "reset"} => s.name \in Profiles
            /\ s.command = "add" => c.profiles[s.name] = NoKey
            /\ s.command \in {"use", "allow", "deny", "remove"} =>
                 c.profiles[s.name] # NoKey
<1>1. /\ proc[p].loaded \in Config /\ Valid(proc[p].loaded)
      /\ proc[p].loaded.version = 2 /\ proc[p].command \in Command \ {"none"}
  BY DEF Ready, ProcessShape, Process
<1>2. proc[p].command \notin {"reset"} => Applicable(p)
  BY DEF Ready, ProcessShape
<1>3. proc[p].command # "list"
  BY <1>2 DEF Applicable
<1>4. proc[p].command # "reset" => proc[p].name \in Arguments(proc[p].command)
  BY <1>1 DEF Ready, ProcessShape
<1>5. /\ proc[p].command = "setup" => proc[p].name \in Containers
      /\ proc[p].command \notin {"setup", "reset"} => proc[p].name \in Profiles
  BY <1>3, <1>4 DEF Arguments
<1>6. proc[p].command \in {"add", "setup"} => proc[p].key \in Keys
  BY DEF Ready, ProcessShape, AddsCredential
<1>7. /\ proc[p].command = "add" => proc[p].loaded.profiles[proc[p].name] = NoKey
      /\ proc[p].command \in {"use", "allow", "deny", "remove"} =>
           proc[p].loaded.profiles[proc[p].name] # NoKey
  BY <1>2 DEF Applicable
<1> QED
  BY <1>1, <1>3, <1>5, <1>6, <1>7 DEF Command

(* What a command leaves as it is, and what it changes.                    *)
Fields(p, c, d) ==
  LET n == proc[p].name
      k == proc[p].key
  IN /\ d \in Config /\ d.version = 2
     /\ d.profiles = IF proc[p].command = "add" THEN [c.profiles EXCEPT ![n] = k]
                     ELSE IF proc[p].command = "remove"
                     THEN [c.profiles EXCEPT ![n] = NoKey] ELSE c.profiles
     /\ d.targets = IF proc[p].command = "setup" THEN [c.targets EXCEPT ![n] = k]
                    ELSE c.targets
     /\ d.active = IF proc[p].command \in {"add", "use"} THEN n
                   ELSE IF proc[p].command = "remove" /\ c.active = n THEN NoName
                   ELSE c.active
     /\ d.default = IF proc[p].command = "setup" THEN n ELSE c.default
     /\ d.push = IF proc[p].command = "allow" THEN c.push \cup {n}
                 ELSE IF proc[p].command \in {"deny", "remove"} THEN c.push \ {n}
                 ELSE c.push

LEMMA DocumentFields ==
  ASSUME NEW p \in Procs, Ready(p)
  PROVE  Fields(p, proc[p].loaded, Document(p))
<1> DEFINE d == Document(p)
           n == proc[p].name
           k == proc[p].key
<1>1. PICK c \in Config : c = proc[p].loaded
  BY ReadyFacts
<1> SUFFICES Fields(p, c, d)
  BY <1>1
<1>2. /\ c.version = 2
      /\ c.profiles \in [Profiles -> Keys \cup {NoKey}] /\ c.push \subseteq Profiles
      /\ c.active \in Profiles \cup {NoName}
      /\ c.targets \in [Containers -> Keys \cup {NoKey}]
  BY <1>1, ReadyFacts DEF Config
<1>3. CASE proc[p].command = "add"
  <2>1. d = [c EXCEPT !.profiles[n] = k, !.active = n] /\ n \in Profiles /\ k \in Keys
    BY <1>1, <1>3, DocumentCases, ReadyFacts
  <2>2. PICK f \in [Profiles -> Keys \cup {NoKey}] : f = [c.profiles EXCEPT ![n] = k]
    BY <1>2, <2>1
  <2>3. d = [c EXCEPT !.profiles = f, !.active = n]
    BY <2>1, <2>2
  <2>4. /\ d \in Config /\ d.version = 2 /\ d.profiles = f /\ d.active = n
        /\ d.push = c.push /\ d.targets = c.targets /\ d.default = c.default
    <3>1. d \in Config
      BY <1>2, <2>1, <2>3, ZenonT(60) DEF Config
    <3>2. /\ d.version = c.version /\ d.profiles = f /\ d.active = n
          /\ d.push = c.push /\ d.targets = c.targets /\ d.default = c.default
      BY <2>3, <1>2 DEF Config
    <3> QED
      BY <1>2, <3>1, <3>2
  <2> HIDE DEF d
  <2> QED
    BY <1>3, <2>2, <2>4, ZenonT(60) DEF Fields
<1>4. CASE proc[p].command \in {"use", "allow", "deny"}
  <2>1. n \in Profiles /\ (proc[p].command = "use" => d = [c EXCEPT !.active = n])
        /\ (proc[p].command = "allow" => d = [c EXCEPT !.push = @ \cup {n}])
        /\ (proc[p].command = "deny" => d = [c EXCEPT !.push = @ \ {n}])
    BY <1>1, <1>4, DocumentCases, ReadyFacts
  <2>2. /\ d \in Config /\ d.version = 2 /\ d.profiles = c.profiles
        /\ d.targets = c.targets /\ d.default = c.default
        /\ d.active = (IF proc[p].command = "use" THEN n ELSE c.active)
        /\ d.push = (IF proc[p].command = "allow" THEN c.push \cup {n}
                     ELSE IF proc[p].command = "deny" THEN c.push \ {n} ELSE c.push)
    <3>1. PICK a \in Profiles \cup {NoName} :
            a = IF proc[p].command = "use" THEN n ELSE c.active
      BY <1>2, <2>1
    <3>2. PICK g \in SUBSET Profiles :
            g = IF proc[p].command = "allow" THEN c.push \cup {n}
                ELSE IF proc[p].command = "deny" THEN c.push \ {n} ELSE c.push
      BY <1>2, <2>1
    <3>3. d = [c EXCEPT !.active = a, !.push = g]
      <4>1. /\ [c EXCEPT !.active = n] = [c EXCEPT !.active = n, !.push = c.push]
            /\ \A h : [c EXCEPT !.push = h] = [c EXCEPT !.active = c.active, !.push = h]
        BY DEF Config
      <4> QED
        BY <1>4, <2>1, <3>1, <3>2, <4>1
    <3> HIDE DEF d
    <3>4. d \in Config
      BY <1>2, <3>1, <3>2, <3>3, ZenonT(60) DEF Config
    <3>5. /\ d.version = c.version /\ d.profiles = c.profiles
          /\ d.targets = c.targets /\ d.default = c.default /\ d.active = a /\ d.push = g
      BY <3>3 DEF Config
    <3> QED
      BY <1>2, <3>1, <3>2, <3>4, <3>5
  <2> HIDE DEF d
  <2> QED
    BY <1>4, <2>2, ZenonT(60) DEF Fields
<1>5. CASE proc[p].command = "remove"
  <2>1. /\ n \in Profiles
        /\ d = [c EXCEPT !.profiles[n] = NoKey, !.push = @ \ {n},
                         !.active = IF @ = n THEN NoName ELSE @]
    BY <1>1, <1>5, DocumentCases, ReadyFacts
  <2>2. PICK f \in [Profiles -> Keys \cup {NoKey}] : f = [c.profiles EXCEPT ![n] = NoKey]
    BY <1>2
  <2>3. PICK a \in Profiles \cup {NoName} : a = IF c.active = n THEN NoName ELSE c.active
    BY <1>2
  <2>4. d = [c EXCEPT !.profiles = f, !.push = c.push \ {n}, !.active = a]
    BY <2>1, <2>2, <2>3
  <2>5. /\ d \in Config /\ d.version = 2 /\ d.profiles = f /\ d.active = a
        /\ d.push = c.push \ {n} /\ d.targets = c.targets /\ d.default = c.default
    BY <1>2, <2>4, ZenonT(60) DEF Config
  <2> HIDE DEF d
  <2> QED
    BY <1>5, <2>2, <2>3, <2>5, ZenonT(60) DEF Fields
<1>6. CASE proc[p].command = "setup"
  <2>1. d = [c EXCEPT !.targets[n] = k, !.default = n] /\ n \in Containers /\ k \in Keys
    BY <1>1, <1>6, DocumentCases, ReadyFacts
  <2>2. PICK f \in [Containers -> Keys \cup {NoKey}] : f = [c.targets EXCEPT ![n] = k]
    BY <1>2, <2>1
  <2>3. d = [c EXCEPT !.targets = f, !.default = n]
    BY <2>1, <2>2
  <2>4. /\ d \in Config /\ d.version = 2 /\ d.profiles = c.profiles
        /\ d.active = c.active /\ d.push = c.push /\ d.targets = f /\ d.default = n
    BY <1>2, <2>1, <2>3 DEF Config
  <2> HIDE DEF d
  <2> QED
    BY <1>6, <2>2, <2>4, ZenonT(60) DEF Fields
<1>7. CASE proc[p].command = "reset"
  BY <1>1, <1>2, <1>7, DocumentCases DEF Fields
<1> QED
  BY <1>3, <1>4, <1>5, <1>6, <1>7, ReadyFacts

(* A document that lacks nothing before lacks nothing after the command.   *)
LEMMA DocumentType ==
  ASSUME NEW p \in Procs, Ready(p)
  PROVE  Document(p) \in Config /\ Valid(Document(p)) /\ Document(p).version = 2
<1> DEFINE n == proc[p].name
           k == proc[p].key
<1>1. PICK c \in Config : c = proc[p].loaded
  BY ReadyFacts
<1>2. PICK d \in Config : d = Document(p) /\ Fields(p, c, d)
  BY <1>1, DocumentFields DEF Fields
<1>3. /\ c.profiles \in [Profiles -> Keys \cup {NoKey}] /\ c.push \subseteq Profiles
      /\ c.active \in Profiles \cup {NoName} /\ c.default \in Containers \cup {NoName}
      /\ c.targets \in [Containers -> Keys \cup {NoKey}] /\ Valid(c)
  BY <1>1, ReadyFacts DEF Config
<1>4. /\ proc[p].command \in {"add", "setup"} => k \in Keys
      /\ proc[p].command = "setup" => n \in Containers
      /\ proc[p].command \notin {"setup", "reset"} => n \in Profiles
      /\ proc[p].command \in {"use", "allow", "deny", "remove"} => c.profiles[n] # NoKey
  BY <1>1, ReadyFacts
<1>5. d.active # NoName => d.profiles[d.active] # NoKey
  BY <1>2, <1>3, <1>4, NamesAssumption DEF Fields, Valid
<1>6. d.default # NoName => d.targets[d.default] # NoKey
  BY <1>2, <1>3, <1>4, NamesAssumption DEF Fields, Valid
<1>7. \A m \in d.push : d.profiles[m] # NoKey
  BY <1>2, <1>3, <1>4, NamesAssumption DEF Fields, Valid
<1> QED
  BY <1>2, <1>5, <1>6, <1>7 DEF Valid, Fields

(* What it refers to: what it referred to before, but for what the command *)
(* supersedes, and what the command adds.                                  *)
LEMMA DocumentReferences ==
  ASSUME NEW p \in Procs, Ready(p), Distinct(proc[p].loaded),
         AddsCredential(p) => proc[p].key \notin References(proc[p].loaded)
  PROVE  LET c == proc[p].loaded
             d == Document(p)
         IN /\ Distinct(d)
            /\ References(d) \subseteq References(c) \cup
                 (IF AddsCredential(p) THEN {proc[p].key} ELSE {})
            /\ References(c) \subseteq References(d) \cup {Superseded(p)}
            /\ AddsCredential(p) => proc[p].key \in References(d)
            /\ Superseded(p) # NoKey =>
                 Superseded(p) \in References(c) /\ Superseded(p) \notin References(d)
<1> DEFINE n == proc[p].name
           k == proc[p].key
<1>1. PICK c \in Config : c = proc[p].loaded
  BY ReadyFacts
<1>2. PICK d \in Config : d = Document(p) /\ Fields(p, c, d)
  BY <1>1, DocumentFields DEF Fields
<1>3. /\ c.profiles \in [Profiles -> Keys \cup {NoKey}]
      /\ c.targets \in [Containers -> Keys \cup {NoKey}] /\ Distinct(c)
      /\ AddsCredential(p) => k \notin References(c)
  BY <1>1 DEF Config
<1>4. CASE proc[p].command \in {"use", "allow", "deny", "reset"}
  <2>1. d.profiles = c.profiles /\ d.targets = c.targets
    BY <1>2, <1>4 DEF Fields
  <2>2. ~AddsCredential(p) /\ Superseded(p) = NoKey
    BY <1>4 DEF AddsCredential, Superseded
  <2> QED
    BY <1>1, <1>2, <1>3, <2>1, <2>2 DEF References, Distinct
<1>5. CASE proc[p].command = "add"
  <2>1. /\ d.profiles = [c.profiles EXCEPT ![n] = k] /\ d.targets = c.targets
        /\ n \in Profiles /\ k \in Keys /\ c.profiles[n] = NoKey
    BY <1>1, <1>2, <1>5, ReadyFacts DEF Fields
  <2>2. AddsCredential(p) /\ Superseded(p) = NoKey
    BY <1>5 DEF AddsCredential, Superseded
  <2>3. d.profiles[n] = k /\ \A m \in Profiles \ {n} : d.profiles[m] = c.profiles[m]
    BY <1>3, <2>1
  <2>4. Distinct(d)
    <3>1. \A m \in Profiles : c.profiles[m] # k
      BY <1>3, <2>2, NamesAssumption, <2>1 DEF References
    <3>2. \A m \in Containers : c.targets[m] # k
      BY <1>3, <2>2, NamesAssumption, <2>1 DEF References
    <3> QED
      BY <1>3, <2>1, <2>3, <3>1, <3>2 DEF Distinct
  <2>5. References(d) \subseteq References(c) \cup {k}
    BY <2>1, <2>3 DEF References
  <2>6. References(c) \subseteq References(d)
    BY <2>1, <2>3 DEF References
  <2>7. k \in References(d)
    BY <2>1, <2>3, NamesAssumption DEF References
  <2> QED
    BY <1>1, <1>2, <2>2, <2>4, <2>5, <2>6, <2>7
<1>6. CASE proc[p].command = "remove"
  <2>1. /\ d.profiles = [c.profiles EXCEPT ![n] = NoKey] /\ d.targets = c.targets
        /\ n \in Profiles
    BY <1>1, <1>2, <1>6, ReadyFacts DEF Fields
  <2>2. ~AddsCredential(p) /\ Superseded(p) = c.profiles[n]
    BY <1>1, <1>6 DEF AddsCredential, Superseded
  <2>3. d.profiles[n] = NoKey /\ \A m \in Profiles \ {n} : d.profiles[m] = c.profiles[m]
    BY <1>3, <2>1
  <2>4. Distinct(d)
    BY <1>3, <2>1, <2>3 DEF Distinct
  <2>5. References(d) \subseteq References(c)
    BY <2>1, <2>3 DEF References
  <2>6. References(c) \subseteq References(d) \cup {c.profiles[n]}
    BY <2>1, <2>3 DEF References
  <2>7. c.profiles[n] # NoKey => c.profiles[n] \in References(c)
    BY <2>1 DEF References
  <2>8. c.profiles[n] # NoKey => c.profiles[n] \notin References(d)
    BY <1>3, <2>1, <2>3 DEF References, Distinct
  <2> QED
    BY <1>1, <1>2, <2>2, <2>4, <2>5, <2>6, <2>7, <2>8
<1>7. CASE proc[p].command = "setup"
  <2>1. /\ d.targets = [c.targets EXCEPT ![n] = k] /\ d.profiles = c.profiles
        /\ n \in Containers /\ k \in Keys
    BY <1>1, <1>2, <1>7, ReadyFacts DEF Fields
  <2>2. AddsCredential(p) /\ Superseded(p) = c.targets[n]
    BY <1>1, <1>7 DEF AddsCredential, Superseded
  <2>3. d.targets[n] = k /\ \A m \in Containers \ {n} : d.targets[m] = c.targets[m]
    BY <1>3, <2>1
  <2>4. /\ k # NoKey
        /\ \A m \in Profiles : c.profiles[m] # k
        /\ \A m \in Containers : c.targets[m] # k
    BY <1>3, <2>1, <2>2, NamesAssumption DEF References
  <2>5. Distinct(d)
    BY <1>3, <2>1, <2>3, <2>4 DEF Distinct
  <2>6. References(d) \subseteq References(c) \cup {k}
    BY <2>1, <2>3 DEF References
  <2>7. References(c) \subseteq References(d) \cup {c.targets[n]}
    BY <2>1, <2>3 DEF References
  <2>8. k \in References(d)
    BY <2>1, <2>3, <2>4 DEF References
  <2>9. c.targets[n] # NoKey => c.targets[n] \in References(c)
    BY <2>1 DEF References
  <2>10. c.targets[n] # NoKey => c.targets[n] \notin References(d)
    BY <1>3, <2>1, <2>3, <2>4 DEF References, Distinct
  <2> QED
    BY <1>1, <1>2, <2>2, <2>5, <2>6, <2>7, <2>8, <2>9, <2>10
<1> QED
  BY <1>4, <1>5, <1>6, <1>7, ReadyFacts

LEMMA ReferencesAreKeys ==
  ASSUME NEW c \in Config
  PROVE  References(c) \subseteq Keys
  BY DEF References, Config

-----------------------------------------------------------------------------
(* No document was lost, and none half saved.                              *)
Whole == mishaps \cap {"overwrite", "unsynced"} = {}

(* What is said of a process depends on its own state only.                *)
LEMMA Unmoved ==
  ASSUME NEW q \in Procs, proc'[q] = proc[q]
  PROVE  /\ Pending(q)' <=> Pending(q)
         /\ Replaced(q)' <=> Replaced(q)
         /\ Superseded(q)' = Superseded(q)
         /\ ProcessShape(q)' <=> ProcessShape(q)
<1>1. Superseded(q)' = Superseded(q)
  BY DEF Superseded
<1>2. Pending(q)' <=> Pending(q)
  BY DEF Pending, AddsCredential
<1>3. Replaced(q)' <=> Replaced(q)
  BY <1>1 DEF Replaced
<1>4. Applicable(q)' <=> Applicable(q)
  BY DEF Applicable
<1> QED
  BY <1>1, <1>2, <1>3, <1>4 DEF ProcessShape, AddsCredential

(* A step of p that adds and deletes no credential: it is enough that p    *)
(* takes on none and lets none go unnoticed, and that the document, unless *)
(* one was lost, refers to nothing new.                                    *)
LEMMA MovesOver ==
  ASSUME InductiveInvariant, NEW p \in Procs, NEW s \in Process,
         proc' = [proc EXCEPT ![p] = s], UNCHANGED creds,
         disk' \in Config, Valid(disk'),
         Whole' => Distinct(disk') /\ References(disk') \subseteq References(disk),
         mishaps' = {} => References(disk') = References(disk),
         lock' \in Procs \cup {NoProc}, mishaps \subseteq mishaps', mishaps' \subseteq Mishap,
         ProcessShape(p)',
         Whole' /\ Pending(p)' =>
           /\ Pending(p) /\ s.key = proc[p].key
           /\ proc[p].pc = "rollback" => s.pc = "rollback",
         Whole' /\ Replaced(p)' => Replaced(p) /\ Superseded(p)' = Superseded(p),
         mishaps' = {} /\ Pending(p) => Pending(p)' /\ s.key = proc[p].key,
         mishaps' = {} /\ Replaced(p) => Replaced(p)' /\ Superseded(p)' = Superseded(p)
  PROVE  InductiveInvariant'
<1>1. TypeOK
  BY DEF InductiveInvariant
<1>2. proc'[p] = s /\ \A q \in Procs : q # p => proc'[q] = proc[q]
  BY <1>1 DEF TypeOK
<1>3. \A q \in Procs : q # p =>
        /\ Pending(q)' <=> Pending(q)
        /\ Replaced(q)' <=> Replaced(q)
        /\ Superseded(q)' = Superseded(q)
        /\ ProcessShape(q)' <=> ProcessShape(q)
  BY <1>2, Unmoved
<1>4. TypeOK'
  BY <1>1 DEF TypeOK
<1>5. (\A q \in Procs : ProcessShape(q))'
  BY <1>3 DEF InductiveInvariant
<1>6. Whole' => Whole
  BY DEF Whole
<1>7. ReferencesResolve'
  BY <1>6 DEF InductiveInvariant, ReferencesResolve, Whole
<1>8. Whole' => CredentialsOwned'
  <2> SUFFICES ASSUME Whole'
               PROVE  CredentialsOwned'
    OBVIOUS
  <2>1. CredentialsOwned
    BY <1>6 DEF InductiveInvariant, Whole
  <2>2. Distinct(disk') /\ References(disk') \subseteq References(disk)
    OBVIOUS
  <2>3. \A q \in Procs : Pending(q)' =>
          /\ Pending(q) /\ proc'[q].key = proc[q].key
          /\ proc[q].pc = "rollback" => proc'[q].pc = "rollback"
    BY <1>2, <1>3
  <2>4. \A q \in Procs : Replaced(q)' => Replaced(q) /\ Superseded(q)' = Superseded(q)
    BY <1>2, <1>3
  <2>5. \A q \in Procs : Pending(q)' =>
          /\ proc'[q].pc # "rollback" => proc'[q].key \in creds'
          /\ proc'[q].key \notin References(disk)'
          /\ \A r \in Procs : r # q /\ Pending(r)' => proc'[r].key # proc'[q].key
    BY <2>1, <2>2, <2>3 DEF CredentialsOwned
  <2>6. \A q \in Procs : Replaced(q)' =>
          /\ Superseded(q)' \notin References(disk)'
          /\ \A r \in Procs : Pending(r)' => proc'[r].key # Superseded(q)'
    BY <2>1, <2>2, <2>3, <2>4 DEF CredentialsOwned
  <2> QED
    BY <2>2, <2>5, <2>6 DEF CredentialsOwned
<1>9. mishaps' = {} => OrphansOwned'
  <2> SUFFICES ASSUME mishaps' = {}, NEW k \in creds', k \notin References(disk)'
               PROVE  \E q \in Procs : \/ Pending(q)' /\ k = proc'[q].key
                                       \/ Replaced(q)' /\ k = Superseded(q)'
    BY DEF OrphansOwned
  <2>1. k \in creds /\ k \notin References(disk)
    OBVIOUS
  <2>2. PICK q \in Procs : \/ Pending(q) /\ k = proc[q].key
                           \/ Replaced(q) /\ k = Superseded(q)
    BY <2>1 DEF InductiveInvariant, OrphansOwned
  <2>3. \/ Pending(q)' /\ k = proc'[q].key
        \/ Replaced(q)' /\ k = Superseded(q)'
    BY <1>2, <1>3, <2>2
  <2> QED
    BY <2>3
<1> QED
  BY <1>4, <1>5, <1>7, <1>8, <1>9 DEF InductiveInvariant, Whole

(* A step of p that leaves the document alone, too.                        *)
LEMMA Moves ==
  ASSUME InductiveInvariant, NEW p \in Procs, NEW s \in Process,
         proc' = [proc EXCEPT ![p] = s], UNCHANGED <<disk, creds>>,
         lock' \in Procs \cup {NoProc}, mishaps \subseteq mishaps', mishaps' \subseteq Mishap,
         ProcessShape(p)',
         Whole' /\ Pending(p)' =>
           /\ Pending(p) /\ s.key = proc[p].key
           /\ proc[p].pc = "rollback" => s.pc = "rollback",
         Whole' /\ Replaced(p)' => Replaced(p) /\ Superseded(p)' = Superseded(p),
         mishaps' = {} /\ Pending(p) => Pending(p)' /\ s.key = proc[p].key,
         mishaps' = {} /\ Replaced(p) => Replaced(p)' /\ Superseded(p)' = Superseded(p)
  PROVE  InductiveInvariant'
<1>1. disk' = disk /\ disk' \in Config /\ Valid(disk')
  BY DEF InductiveInvariant, TypeOK
<1>2. Whole' => Distinct(disk') /\ References(disk') = References(disk)
  BY <1>1 DEF InductiveInvariant, CredentialsOwned, Whole
<1>3. mishaps' = {} => References(disk') = References(disk)
  BY <1>1
<1> QED
  BY <1>1, <1>2, <1>3, MovesOver

(* A process that goes to another label, and what it keeps then.           *)
LEMMA Labelled ==
  ASSUME NEW p \in Procs, proc[p] \in Process, ProcessShape(p),
         NEW label \in {"loaded", "verified", "to save", "saving", "renamed",
                        "saved", "rollback"},
         proc'[p] = [proc[p] EXCEPT !.pc = label],
         label = "loaded" => proc[p].command # "reset",
         label # "loaded" /\ proc[p].command # "reset" => Applicable(p),
         label # "loaded" /\ proc[p].command = "reset" =>
           proc[p].loaded = DefaultConfig,
         label \in {"verified", "rollback"} => AddsCredential(p),
         AddsCredential(p) => label \in {"loaded", "verified"} \/ proc[p].key \in Keys,
         proc[p].pc # "idle"
  PROVE  /\ proc'[p] \in Process /\ proc'[p].pc = label
         /\ proc'[p].key = proc[p].key
         /\ ProcessShape(p)' /\ Superseded(p)' = Superseded(p)
         /\ AddsCredential(p)' <=> AddsCredential(p)
<1> DEFINE s == [proc[p] EXCEPT !.pc = label]
<1>0. proc'[p] = s
  OBVIOUS
<1>1. /\ s \in Process /\ s.pc = label /\ s.key = proc[p].key
      /\ s.command = proc[p].command /\ s.name = proc[p].name
      /\ s.loaded = proc[p].loaded
  BY DEF Process
<1> HIDE DEF s
<1>2. Superseded(p)' = Superseded(p)
  BY <1>0, <1>1 DEF Superseded
<1>3. Applicable(p)' <=> Applicable(p)
  BY <1>0, <1>1 DEF Applicable
<1>4. AddsCredential(p)' <=> AddsCredential(p)
  BY <1>0, <1>1 DEF AddsCredential
<1>5. ProcessShape(p)'
  BY <1>0, <1>1, <1>3, <1>4 DEF ProcessShape
<1> QED
  BY <1>0, <1>1, <1>2, <1>4, <1>5

(* Going from label to label, with whatever credential there is.           *)
LEMMA GoesTo ==
  ASSUME InductiveInvariant, NEW p \in Procs, proc[p].pc # "idle",
         NEW label \in {"loaded", "verified", "to save", "saving", "renamed",
                        "saved", "rollback"},
         Goto(p, label), UNCHANGED <<disk, creds>>,
         lock' \in Procs \cup {NoProc}, mishaps \subseteq mishaps', mishaps' \subseteq Mishap,
         label = "loaded" => proc[p].command # "reset",
         label # "loaded" /\ proc[p].command # "reset" => Applicable(p),
         label # "loaded" /\ proc[p].command = "reset" =>
           proc[p].loaded = DefaultConfig,
         label \in {"verified", "rollback"} => AddsCredential(p),
         AddsCredential(p) => label \in {"loaded", "verified"} \/ proc[p].key \in Keys,
         Whole' /\ label \in {"to save", "saving", "rollback"} /\ AddsCredential(p) =>
           proc[p].pc \in {"to save", "saving"},
         Whole' /\ label \in {"renamed", "saved"} => proc[p].pc \in {"renamed", "saved"},
         mishaps' = {} /\ Pending(p) => label \in {"to save", "saving", "rollback"},
         mishaps' = {} /\ Replaced(p) => label \in {"renamed", "saved"}
  PROVE  InductiveInvariant'
<1>1. TypeOK /\ proc[p] \in Process /\ ProcessShape(p)
  BY ProcessType DEF InductiveInvariant
<1>2. proc'[p] = [proc[p] EXCEPT !.pc = label]
  BY <1>1 DEF Goto, TypeOK
<1>3. /\ proc'[p] \in Process /\ proc'[p].pc = label /\ proc'[p].key = proc[p].key
      /\ ProcessShape(p)' /\ Superseded(p)' = Superseded(p)
      /\ AddsCredential(p)' <=> AddsCredential(p)
  BY <1>1, <1>2, Labelled
<1>4. proc' = [proc EXCEPT ![p] = proc'[p]]
  BY <1>1 DEF Goto, TypeOK
<1>5. Whole' /\ Pending(p)' =>
        /\ Pending(p) /\ proc'[p].key = proc[p].key
        /\ proc[p].pc = "rollback" => proc'[p].pc = "rollback"
  BY <1>3 DEF Pending
<1>6. Whole' /\ Replaced(p)' => Replaced(p) /\ Superseded(p)' = Superseded(p)
  BY <1>3 DEF Replaced
<1>7. mishaps' = {} /\ Pending(p) => Pending(p)' /\ proc'[p].key = proc[p].key
  BY <1>3 DEF Pending
<1>8. mishaps' = {} /\ Replaced(p) => Replaced(p)' /\ Superseded(p)' = Superseded(p)
  BY <1>3 DEF Replaced
<1> QED
  BY <1>3, <1>4, <1>5, <1>6, <1>7, <1>8, Moves

(* A process that returns has nothing.                                     *)
LEMMA Returned ==
  ASSUME TypeOK, NEW p \in Procs, Return(p)
  PROVE  ProcessShape(p)' /\ ~Pending(p)' /\ ~Replaced(p)'
<1>1. proc'[p] = IdleProcess
  BY DEF TypeOK, Return
<1> QED
  BY <1>1, IdleType, DefaultType
  DEF ProcessShape, Pending, Replaced, AddsCredential

(* ... and may, unless that leaves a credential behind.                    *)
LEMMA Returns ==
  ASSUME InductiveInvariant, NEW p \in Procs, Return(p), UNCHANGED <<disk, creds>>,
         lock' \in Procs \cup {NoProc}, mishaps \subseteq mishaps', mishaps' \subseteq Mishap,
         mishaps' = {} => ~Pending(p) /\ ~Replaced(p)
  PROVE  InductiveInvariant'
<1>1. ProcessShape(p)' /\ ~Pending(p)' /\ ~Replaced(p)'
  BY Returned DEF InductiveInvariant
<1> QED
  BY <1>1, IdleType, Moves DEF Return

-----------------------------------------------------------------------------
(* The steps of a command.                                                 *)

LEMMA LoadStep ==
  ASSUME InductiveInvariant, NEW p \in Procs,
         NEW command \in Command \ {"none", "reset"}, NEW n \in Arguments(command),
         Load(p, command, n)
  PROVE  InductiveInvariant'
<1> DEFINE s == [pc |-> IF disk.version = 1 THEN "migrating" ELSE "loaded",
                 command |-> command, name |-> n, key |-> NoKey,
                 loaded |-> Migrated(disk)]
<1>1. TypeOK /\ proc[p].pc = "idle" /\ disk \in Config /\ Valid(disk)
  BY DEF InductiveInvariant, TypeOK, Load, At
<1>2. /\ Migrated(disk) \in Config /\ Valid(Migrated(disk))
      /\ Migrated(disk).version = 2
  BY <1>1, MigratedType
<1>3. n \in Name \cup {NoName}
  BY DEF Arguments, Name
<1>4. s \in Process
  BY <1>2, <1>3 DEF Process
<1>5. /\ s.pc \in {"migrating", "loaded"} /\ s.command = command /\ s.name = n
      /\ s.loaded = Migrated(disk)
  OBVIOUS
<1>6. proc' = [proc EXCEPT ![p] = s]
  BY DEF Load
<1>7. proc'[p] = s
  BY <1>1, <1>6 DEF TypeOK
<1> HIDE DEF s
<1>8. ProcessShape(p)' /\ ~Pending(p)' /\ ~Replaced(p)'
  BY <1>2, <1>5, <1>7 DEF ProcessShape, Pending, Replaced
<1>9. ~Pending(p) /\ ~Replaced(p)
  BY <1>1 DEF Pending, Replaced
<1>10. UNCHANGED <<disk, creds, lock, mishaps>>
  BY DEF Load
<1>11. lock' \in Procs \cup {NoProc} /\ mishaps \subseteq mishaps' /\ mishaps' \subseteq Mishap
  BY <1>1, <1>10 DEF TypeOK
<1> QED
  BY <1>4, <1>6, <1>8, <1>9, <1>10, <1>11, Moves

LEMMA ProceedStep ==
  ASSUME InductiveInvariant, NEW p \in Procs, Proceed(p)
  PROVE  InductiveInvariant'
<1>1. /\ TypeOK /\ proc[p].pc = "loaded" /\ proc[p] \in Process /\ ProcessShape(p)
      /\ UNCHANGED <<disk, creds, lock, mishaps>>
  BY ProcessType DEF InductiveInvariant, Proceed, At
<1>2. ~Pending(p) /\ ~Replaced(p)
  BY <1>1 DEF Pending, Replaced
<1>3. lock' \in Procs \cup {NoProc} /\ mishaps \subseteq mishaps' /\ mishaps' \subseteq Mishap
  BY <1>1 DEF TypeOK
<1>4. CASE Return(p)
  BY <1>1, <1>2, <1>3, <1>4, Returns
<1>5. ASSUME NEW label \in {"verified", "to save"}, Applicable(p), Goto(p, label),
             label = "verified" <=> AddsCredential(p)
      PROVE  InductiveInvariant'
  <2>1. proc[p].command # "reset"
    BY <1>1 DEF ProcessShape
  <2>2. /\ label \in {"verified", "rollback"} => AddsCredential(p)
        /\ label \in {"to save", "saving", "rollback"} => ~AddsCredential(p)
    BY <1>5
  <2> QED
    BY <1>1, <1>2, <1>3, <1>5, <2>1, <2>2, GoesTo
<1> QED
  BY <1>4, <1>5 DEF Proceed

(* What a process at these labels has.                                     *)
LEMMA Decided ==
  ASSUME InductiveInvariant, NEW p \in Procs,
         proc[p].pc \in {"to save", "saving", "renamed", "saved"}
  PROVE  /\ proc[p].command # "reset" => Applicable(p)
         /\ proc[p].command = "reset" => proc[p].loaded = DefaultConfig
         /\ AddsCredential(p) => proc[p].key \in Keys
  BY DEF InductiveInvariant, ProcessShape

(* Nothing was saved, or the document may be half saved: a command that    *)
(* has added a credential goes to delete it.                               *)
LEMMA SaveFailsStep ==
  ASSUME InductiveInvariant, NEW p \in Procs, SaveFails(p),
         proc[p].pc \in {"to save", "saving"},
         UNCHANGED <<disk, creds, mishaps>>, lock' \in Procs \cup {NoProc}
  PROVE  InductiveInvariant'
<1>1. mishaps \subseteq mishaps' /\ mishaps' \subseteq Mishap
  BY DEF InductiveInvariant, TypeOK
<1>2. CASE ~AddsCredential(p)
  BY <1>1, <1>2, Returns DEF SaveFails, Pending, Replaced
<1>3. CASE AddsCredential(p)
  <2>1. ~Replaced(p) /\ Goto(p, "rollback")
    BY <1>3 DEF Replaced, SaveFails
  <2> QED
    BY <1>1, <1>3, <2>1, Decided, GoesTo
<1> QED
  BY <1>2, <1>3

LEMMA LockConfigStep ==
  ASSUME InductiveInvariant, NEW p \in Procs, LockConfig(p)
  PROVE  InductiveInvariant'
<1>1. /\ proc[p].pc = "to save" /\ UNCHANGED <<disk, creds, mishaps>>
      /\ lock' \in Procs \cup {NoProc} /\ mishaps' \subseteq Mishap
  BY DEF LockConfig, At, InductiveInvariant, TypeOK
<1>2. CASE SaveFails(p)
  BY <1>1, <1>2, SaveFailsStep
<1>3. CASE Goto(p, "saving")
  <2>1. ~Replaced(p)
    BY <1>1 DEF Replaced
  <2> QED
    BY <1>1, <1>3, <2>1, Decided, GoesTo
<1> QED
  BY <1>2, <1>3 DEF LockConfig

LEMMA SyncConfigStep ==
  ASSUME InductiveInvariant, NEW p \in Procs, SyncConfig(p)
  PROVE  InductiveInvariant'
<1>1. /\ proc[p].pc = "renamed" /\ UNCHANGED <<disk, creds>> /\ ~Pending(p)
      /\ lock' \in Procs \cup {NoProc}
      /\ mishaps \subseteq mishaps' /\ mishaps' \subseteq Mishap
  BY DEF SyncConfig, At, InductiveInvariant, TypeOK, Pending, Mishap
<1>2. CASE Goto(p, "saved") /\ UNCHANGED mishaps
  BY <1>1, <1>2, Decided, GoesTo
<1>3. CASE SaveFails(p) /\ mishaps' = mishaps \cup {"unsynced"}
  <2>1. ~Whole' /\ mishaps' # {}
    BY <1>3 DEF Whole
  <2>2. CASE ~AddsCredential(p)
    BY <1>1, <1>3, <2>1, <2>2, Returns DEF SaveFails
  <2>3. CASE AddsCredential(p)
    BY <1>1, <1>3, <2>1, <2>3, Decided, GoesTo DEF SaveFails
  <2> QED
    BY <2>2, <2>3
<1> QED
  BY <1>2, <1>3 DEF SyncConfig

(* What a command supersedes is what its document referred to.             *)
LEMMA SupersededLoaded ==
  ASSUME InductiveInvariant, NEW q \in Procs, Replaced(q)
  PROVE  Superseded(q) \in References(proc[q].loaded)
<1>1. ProcessShape(q) /\ Superseded(q) # NoKey /\ proc[q].pc \in {"renamed", "saved"}
  BY DEF InductiveInvariant, Replaced
<1>2. proc[q].command = "remove" => proc[q].name \in Profiles
  BY <1>1 DEF ProcessShape, Arguments
<1>3. proc[q].command = "setup" => proc[q].name \in Containers
  BY <1>1 DEF ProcessShape, Arguments
<1>4. proc[q].command \in {"remove", "setup"}
  BY <1>1 DEF Superseded
<1> QED
  BY <1>1, <1>2, <1>3, <1>4 DEF Superseded, References

(* The other processes keep what is said of them.                          *)
LEMMA OthersUnmoved ==
  ASSUME TypeOK, NEW p \in Procs, NEW s, proc' = [proc EXCEPT ![p] = s]
  PROVE  /\ proc'[p] = s
         /\ \A q \in Procs : q # p =>
              /\ proc'[q] = proc[q]
              /\ Pending(q)' <=> Pending(q)
              /\ Replaced(q)' <=> Replaced(q)
              /\ Superseded(q)' = Superseded(q)
              /\ ProcessShape(q)' <=> ProcessShape(q)
<1>1. proc'[p] = s /\ \A q \in Procs : q # p => proc'[q] = proc[q]
  BY DEF TypeOK
<1> QED
  BY <1>1, Unmoved

LEMMA SetCredentialStep ==
  ASSUME InductiveInvariant, NEW p \in Procs, SetCredential(p)
  PROVE  InductiveInvariant'
<1>1. /\ TypeOK /\ ReferencesResolve /\ proc[p].pc = "verified"
      /\ proc[p] \in Process /\ ProcessShape(p)
      /\ UNCHANGED <<disk, lock, mishaps>> /\ ~Pending(p) /\ ~Replaced(p)
      /\ lock' \in Procs \cup {NoProc} /\ mishaps \subseteq mishaps' /\ mishaps' \subseteq Mishap
  BY ProcessType DEF InductiveInvariant, TypeOK, SetCredential, At, Pending, Replaced
<1>2. CASE Return(p) /\ UNCHANGED creds
  BY <1>1, <1>2, Returns
<1>3. ASSUME NEW k \in Keys, Fresh(k), creds' = creds \cup {k},
             proc' = [proc EXCEPT ![p].pc = "to save", ![p].key = k]
      PROVE  InductiveInvariant'
  <2> DEFINE s == [proc[p] EXCEPT !.pc = "to save", !.key = k]
  <2>1. proc' = [proc EXCEPT ![p] = s]
    BY <1>1, <1>3 DEF TypeOK
  <2>2. /\ s \in Process /\ s.pc = "to save" /\ s.key = k /\ s.loaded = proc[p].loaded
        /\ s.command = proc[p].command /\ s.name = proc[p].name
    BY <1>1 DEF Process
  <2> HIDE DEF s
  <2>3. /\ proc'[p] = s
        /\ \A q \in Procs : q # p =>
             /\ proc'[q] = proc[q]
             /\ Pending(q)' <=> Pending(q)
             /\ Replaced(q)' <=> Replaced(q)
             /\ Superseded(q)' = Superseded(q)
             /\ ProcessShape(q)' <=> ProcessShape(q)
    BY <1>1, <2>1, OthersUnmoved
  <2>4. /\ Applicable(p)' <=> Applicable(p)
        /\ AddsCredential(p)' <=> AddsCredential(p)
    BY <2>2, <2>3 DEF Applicable, AddsCredential
  <2>5. ProcessShape(p)' /\ Pending(p)' /\ ~Replaced(p)'
    BY <1>1, <2>2, <2>3, <2>4 DEF ProcessShape, Pending, Replaced
  <2>6. TypeOK'
    BY <1>1, <1>3, <2>1, <2>2 DEF TypeOK
  <2>7. ReferencesResolve'
    BY <1>1, <1>3 DEF ReferencesResolve, References
  <2>8. (\A q \in Procs : ProcessShape(q))'
    BY <2>3, <2>5 DEF InductiveInvariant
  <2>9. /\ k \notin creds \cup References(disk)
        /\ \A q \in Procs : k # proc[q].key /\ k \notin References(proc[q].loaded)
    BY <1>3 DEF Fresh
  <2>10. Whole' => CredentialsOwned'
    <3> SUFFICES ASSUME Whole'
                 PROVE  CredentialsOwned'
      OBVIOUS
    <3>1. CredentialsOwned
      BY <1>1 DEF InductiveInvariant, Whole
    <3>2. Distinct(disk)' /\ References(disk)' = References(disk)
      BY <1>1, <3>1 DEF CredentialsOwned, Distinct, References
    <3>3. \A q \in Procs : Pending(q)' =>
            \/ q = p /\ proc'[q].key = k
            \/ /\ q # p /\ Pending(q) /\ proc'[q] = proc[q] /\ proc[q].key # k
               /\ proc[q].pc # "rollback" => proc[q].key \in creds
               /\ proc[q].key \notin References(disk)
      BY <2>2, <2>3, <2>9, <3>1 DEF CredentialsOwned
    <3>6. \A q, r \in Procs : Pending(q) /\ Pending(r) /\ r # q => proc[r].key # proc[q].key
      BY <3>1 DEF CredentialsOwned
    <3>7. \A q \in Procs : Pending(q)' =>
            /\ proc'[q].pc # "rollback" => proc'[q].key \in creds'
            /\ proc'[q].key \notin References(disk)'
            /\ \A r \in Procs : r # q /\ Pending(r)' => proc'[r].key # proc'[q].key
      <4>1. \A q \in Procs : Pending(q)' =>
              (proc'[q].pc # "rollback" => proc'[q].key \in creds')
        <5>1. creds' = creds \cup {k}
          BY <1>3
        <5> QED
          BY <5>1, <3>3
      <4>2. \A q \in Procs : Pending(q)' => proc'[q].key \notin References(disk)'
        BY <2>9, <3>2, <3>3
      <4>3. \A q, r \in Procs :
              Pending(q)' /\ Pending(r)' /\ r # q => proc'[r].key # proc'[q].key
        BY <3>3, <3>6
      <4> QED
        BY <4>1, <4>2, <4>3
    <3>4. \A q \in Procs : Replaced(q) => k # Superseded(q)
      BY <2>9, SupersededLoaded
    <3>5. \A q \in Procs : Replaced(q)' =>
            /\ Superseded(q)' \notin References(disk)'
            /\ \A r \in Procs : Pending(r)' => proc'[r].key # Superseded(q)'
      BY <2>2, <2>3, <2>5, <3>1, <3>2, <3>4, ZenonT(60) DEF CredentialsOwned
    <3> QED
      BY <3>2, <3>5, <3>7 DEF CredentialsOwned
  <2>11. mishaps' = {} => OrphansOwned'
    <3> SUFFICES ASSUME mishaps' = {}, NEW l \in creds', l \notin References(disk)'
                 PROVE  \E q \in Procs : \/ Pending(q)' /\ l = proc'[q].key
                                         \/ Replaced(q)' /\ l = Superseded(q)'
      BY DEF OrphansOwned
    <3>1. CASE l = k
      BY <2>2, <2>3, <2>5, <3>1
    <3>2. CASE l # k
      <4>1. l \in creds /\ l \notin References(disk)
        BY <1>1, <1>3, <3>2 DEF References
      <4>2. PICK q \in Procs : \/ Pending(q) /\ l = proc[q].key
                               \/ Replaced(q) /\ l = Superseded(q)
        BY <1>1, <4>1 DEF InductiveInvariant, OrphansOwned
      <4>3. q # p
        BY <1>1, <4>2
      <4> QED
        BY <2>3, <4>2, <4>3
    <3> QED
      BY <3>1, <3>2
  <2> QED
    BY <2>6, <2>7, <2>8, <2>10, <2>11 DEF InductiveInvariant, Whole
<1> QED
  BY <1>2, <1>3 DEF SetCredential

(* A migration is nothing but a new version, unless the file has changed.  *)
LEMMA SaveMigratedStep ==
  ASSUME InductiveInvariant, NEW p \in Procs, SaveMigrated(p)
  PROVE  InductiveInvariant'
<1>1. /\ TypeOK /\ proc[p].pc = "migrating" /\ proc[p] \in Process /\ ProcessShape(p)
      /\ UNCHANGED <<lock, creds>> /\ ~Pending(p) /\ ~Replaced(p)
      /\ proc[p].command # "reset" /\ Goto(p, "loaded")
      /\ lock' \in Procs \cup {NoProc}
  BY ProcessType
  DEF InductiveInvariant, TypeOK, SaveMigrated, At, Pending, Replaced, ProcessShape
<1>2. CASE UNCHANGED <<disk, mishaps>>
  BY <1>1, <1>2, GoesTo DEF TypeOK
<1>3. CASE Replace(p, proc[p].loaded)
  <2>1. PICK c \in Config : c = proc[p].loaded /\ Valid(c)
    BY <1>1 DEF Process, ProcessShape
  <2>2. /\ disk' = c /\ mishaps \subseteq mishaps' /\ mishaps' \subseteq Mishap
        /\ Whole' => Migrated(disk) = c
    BY <1>1, <1>3, <2>1 DEF Replace, TypeOK, Mishap, Whole
  <2>3. Whole' => Distinct(disk) /\ Whole
    BY <2>2 DEF InductiveInvariant, CredentialsOwned, Whole
  <2>4. Whole' => Distinct(disk') /\ References(disk') = References(disk)
    BY <1>1, <2>2, <2>3, MigratedType DEF TypeOK
  <2>5. mishaps' = {} => References(disk') = References(disk)
    BY <2>4 DEF Whole
  <2>6. /\ proc'[p] = [proc[p] EXCEPT !.pc = "loaded"]
        /\ proc' = [proc EXCEPT ![p] = proc'[p]]
    BY <1>1 DEF Goto, TypeOK
  <2>7. proc'[p] \in Process /\ proc'[p].pc = "loaded" /\ ProcessShape(p)'
    BY <1>1, <2>6, Labelled
  <2>8. ~Pending(p)' /\ ~Replaced(p)'
    BY <2>7 DEF Pending, Replaced
  <2> QED
    BY <1>1, <2>1, <2>2, <2>4, <2>5, <2>6, <2>7, <2>8, MovesOver
<1> QED
  BY <1>2, <1>3 DEF SaveMigrated

(* The new document refers to nothing; what the old one did is left over.  *)
LEMMA BeginResetStep ==
  ASSUME InductiveInvariant, NEW p \in Procs, BeginReset(p)
  PROVE  InductiveInvariant'
<1> DEFINE s == [IdleProcess EXCEPT !.pc = "to save", !.command = "reset"]
<1>1. /\ TypeOK /\ proc[p].pc = "idle" /\ UNCHANGED <<lock, creds>>
      /\ ~Pending(p) /\ ~Replaced(p) /\ lock' \in Procs \cup {NoProc}
      /\ mishaps \subseteq mishaps' /\ mishaps' \subseteq Mishap /\ mishaps' # {}
  BY DEF InductiveInvariant, TypeOK, BeginReset, At, Pending, Replaced, Mishap
<1>2. disk' = DefaultConfig /\ proc' = [proc EXCEPT ![p] = s]
  BY DEF BeginReset
<1>3. /\ s \in Process /\ s.pc = "to save" /\ s.command = "reset"
      /\ s.loaded = DefaultConfig
  BY DefaultType, IdleType DEF IdleProcess, Process, Command
<1> HIDE DEF s
<1>4. proc'[p] = s
  BY <1>1, <1>2 DEF TypeOK
<1>5. ProcessShape(p)' /\ ~Pending(p)' /\ ~Replaced(p)'
  BY <1>3, <1>4, DefaultType DEF ProcessShape, Pending, Replaced, AddsCredential
<1> QED
  BY <1>1, <1>2, <1>3, <1>5, DefaultType, MovesOver

LEMMA CrashStep ==
  ASSUME InductiveInvariant, NEW p \in Procs, Crash(p)
  PROVE  InductiveInvariant'
<1>1. /\ Return(p) /\ UNCHANGED <<disk, creds>> /\ mishaps' # {}
      /\ lock' \in Procs \cup {NoProc} /\ mishaps \subseteq mishaps'
      /\ mishaps' \subseteq Mishap
  BY DEF InductiveInvariant, TypeOK, Crash, Mishap
<1> QED
  BY <1>1, Returns

(* A credential that p alone knows and the document does not is deleted.   *)
LEMMA Deletes ==
  ASSUME InductiveInvariant, NEW p \in Procs, NEW k \in Keys, DeleteCredential(p, k),
         Whole => k \notin References(disk),
         Whole => \A q \in Procs : q # p /\ Pending(q) => proc[q].key # k,
         Pending(p) => k = proc[p].key,
         Replaced(p) => k = Superseded(p)
  PROVE  InductiveInvariant'
<1>1. TypeOK /\ Return(p) /\ UNCHANGED <<disk, lock>> /\ lock' \in Procs \cup {NoProc}
  BY DEF InductiveInvariant, TypeOK, DeleteCredential
<1>2. CASE UNCHANGED creds /\ mishaps' = mishaps \cup {"leak"}
  BY <1>1, <1>2, Returns DEF TypeOK, Mishap
<1>3. CASE creds' = creds \ {k} /\ UNCHANGED mishaps
  <2>1. ProcessShape(p)' /\ ~Pending(p)' /\ ~Replaced(p)'
    BY <1>1, Returned
  <2>2. \A q \in Procs : q # p =>
          /\ proc'[q] = proc[q]
          /\ Pending(q)' <=> Pending(q)
          /\ Replaced(q)' <=> Replaced(q)
          /\ Superseded(q)' = Superseded(q)
          /\ ProcessShape(q)' <=> ProcessShape(q)
    BY <1>1, OthersUnmoved DEF Return
  <2>3. TypeOK'
    BY <1>1, <1>3, IdleType DEF TypeOK, Return
  <2>4. (\A q \in Procs : ProcessShape(q))'
    BY <2>1, <2>2 DEF InductiveInvariant
  <2>5. ReferencesResolve'
    BY <1>1, <1>3 DEF InductiveInvariant, ReferencesResolve, References, Whole
  <2>6. Whole' => CredentialsOwned'
    <3> SUFFICES ASSUME Whole'
                 PROVE  CredentialsOwned'
      OBVIOUS
    <3>1. CredentialsOwned /\ Whole
      BY <1>3 DEF InductiveInvariant, Whole
    <3>2. Distinct(disk)' /\ References(disk)' = References(disk)
      BY <1>1, <3>1 DEF CredentialsOwned, Distinct, References
    <3>3. \A q \in Procs : Pending(q)' =>
            q # p /\ Pending(q) /\ proc'[q] = proc[q] /\ proc[q].key # k
      BY <2>1, <2>2, <3>1
    <3>4. \A q \in Procs : Replaced(q)' => Replaced(q) /\ Superseded(q)' = Superseded(q)
      BY <2>1, <2>2
    <3>5. \A q \in Procs : Pending(q)' =>
            /\ proc'[q].pc # "rollback" => proc'[q].key \in creds'
            /\ proc'[q].key \notin References(disk)'
            /\ \A r \in Procs : r # q /\ Pending(r)' => proc'[r].key # proc'[q].key
      BY <1>3, <3>1, <3>2, <3>3 DEF CredentialsOwned
    <3>6. \A q \in Procs : Replaced(q)' =>
            /\ Superseded(q)' \notin References(disk)'
            /\ \A r \in Procs : Pending(r)' => proc'[r].key # Superseded(q)'
      BY <3>1, <3>2, <3>3, <3>4 DEF CredentialsOwned
    <3> QED
      BY <3>2, <3>5, <3>6 DEF CredentialsOwned
  <2>7. mishaps' = {} => OrphansOwned'
    <3> SUFFICES ASSUME mishaps' = {}, NEW l \in creds', l \notin References(disk)'
                 PROVE  \E q \in Procs : \/ Pending(q)' /\ l = proc'[q].key
                                         \/ Replaced(q)' /\ l = Superseded(q)'
      BY DEF OrphansOwned
    <3>1. l \in creds /\ l # k /\ l \notin References(disk)
      BY <1>1, <1>3 DEF References
    <3>2. PICK q \in Procs : \/ Pending(q) /\ l = proc[q].key
                             \/ Replaced(q) /\ l = Superseded(q)
      BY <1>3, <3>1 DEF InductiveInvariant, OrphansOwned
    <3>3. q # p
      BY <3>1, <3>2
    <3> QED
      BY <2>2, <3>2, <3>3
  <2> QED
    BY <2>3, <2>4, <2>5, <2>6, <2>7 DEF InductiveInvariant, Whole
<1> QED
  BY <1>2, <1>3 DEF DeleteCredential

LEMMA RollbackStep ==
  ASSUME InductiveInvariant, NEW p \in Procs, Rollback(p)
  PROVE  InductiveInvariant'
<1>1. proc[p].pc = "rollback" /\ ProcessShape(p) /\ DeleteCredential(p, proc[p].key)
  BY DEF InductiveInvariant, Rollback, At
<1>2. AddsCredential(p) /\ proc[p].key \in Keys
  BY <1>1 DEF ProcessShape
<1>3. Pending(p) /\ ~Replaced(p)
  BY <1>1, <1>2 DEF Pending, Replaced
<1>4. Whole => CredentialsOwned
  BY DEF InductiveInvariant, Whole
<1>5. Whole => proc[p].key \notin References(disk)
  BY <1>3, <1>4 DEF CredentialsOwned
<1>6. Whole => \A q \in Procs : q # p /\ Pending(q) => proc[q].key # proc[p].key
  BY <1>3, <1>4 DEF CredentialsOwned
<1> QED
  BY <1>1, <1>2, <1>3, <1>5, <1>6, Deletes

LEMMA CleanupStep ==
  ASSUME InductiveInvariant, NEW p \in Procs, Cleanup(p)
  PROVE  InductiveInvariant'
<1>1. /\ TypeOK /\ proc[p].pc = "saved" /\ proc[p] \in Process
  BY ProcessType DEF InductiveInvariant, Cleanup, At
<1>2. ~Pending(p) /\ (Superseded(p) # NoKey => Replaced(p))
  BY <1>1 DEF Pending, Replaced
<1>3. CASE Superseded(p) = NoKey
  <2>1. ~Replaced(p) /\ Return(p) /\ UNCHANGED <<disk, lock, creds, mishaps>>
    BY <1>3 DEF Cleanup, Replaced
  <2> QED
    BY <1>1, <1>2, <2>1, Returns DEF TypeOK
<1>4. CASE Superseded(p) # NoKey
  <2>1. Replaced(p) /\ DeleteCredential(p, Superseded(p))
    BY <1>2, <1>4 DEF Cleanup
  <2>2. Superseded(p) \in Keys
    BY <1>1, <2>1, SupersededLoaded, ReferencesAreKeys DEF Process
  <2>3. Whole => CredentialsOwned
    BY DEF InductiveInvariant, Whole
  <2>4. Whole => Superseded(p) \notin References(disk)
    BY <2>1, <2>3 DEF CredentialsOwned
  <2>5. Whole => \A q \in Procs : q # p /\ Pending(q) => proc[q].key # Superseded(p)
    BY <2>1, <2>3 DEF CredentialsOwned
  <2> QED
    BY <1>2, <2>1, <2>2, <2>4, <2>5, Deletes
<1> QED
  BY <1>3, <1>4

(* The rename.  Unless the file has changed since the load, the document   *)
(* it replaces is the one the command loaded, so the new one refers to     *)
(* what the old one did, but for the key added and the key superseded.     *)
LEMMA RenameConfigStep ==
  ASSUME InductiveInvariant, NEW p \in Procs, RenameConfig(p)
  PROVE  InductiveInvariant'
<1>1. /\ TypeOK /\ proc[p].pc = "saving" /\ proc[p] \in Process /\ ProcessShape(p)
      /\ UNCHANGED creds /\ lock \in Procs \cup {NoProc} /\ ~Replaced(p)
      /\ AddsCredential(p) <=> Pending(p)
  BY ProcessType
  DEF InductiveInvariant, TypeOK, RenameConfig, At, Pending, Replaced
<1>2. CASE lock' = NoProc /\ SaveFails(p) /\ UNCHANGED <<disk, mishaps>>
  BY <1>1, <1>2, SaveFailsStep
<1>3. CASE Replace(p, Document(p)) /\ Goto(p, "renamed") /\ UNCHANGED lock
  <2>1. Ready(p)
    BY <1>1 DEF Ready
  <2>2. PICK d \in Config : d = Document(p) /\ Valid(d)
    BY <2>1, DocumentType
  <2>3. /\ disk' = d /\ mishaps \subseteq mishaps' /\ mishaps' \subseteq Mishap
        /\ Whole' => Migrated(disk) = proc[p].loaded
    BY <1>1, <1>3, <2>2 DEF Replace, TypeOK, Mishap, Whole
  <2>4. /\ proc'[p] = [proc[p] EXCEPT !.pc = "renamed"]
        /\ proc' = [proc EXCEPT ![p] = proc'[p]]
    BY <1>1, <1>3 DEF Goto, TypeOK
  <2>5. /\ proc'[p] \in Process /\ proc'[p].pc = "renamed" /\ ProcessShape(p)'
        /\ Superseded(p)' = Superseded(p)
    BY <1>1, <2>4, Decided, Labelled
  <2>6. ~Pending(p)' /\ (Replaced(p)' <=> Superseded(p) # NoKey)
    BY <2>5 DEF Pending, Replaced
  <2>7. \A q \in Procs : q # p =>
          /\ proc'[q] = proc[q]
          /\ Pending(q)' <=> Pending(q)
          /\ Replaced(q)' <=> Replaced(q)
          /\ Superseded(q)' = Superseded(q)
          /\ ProcessShape(q)' <=> ProcessShape(q)
    BY <1>1, <2>4, OthersUnmoved
  <2>8. TypeOK'
    BY <1>1, <1>3, <2>2, <2>3, <2>4, <2>5 DEF TypeOK
  <2>9. (\A q \in Procs : ProcessShape(q))'
    BY <2>5, <2>7 DEF InductiveInvariant
  <2>10. Whole' =>
           /\ CredentialsOwned /\ References(disk) \subseteq creds
           /\ Distinct(d)
           /\ References(d) \subseteq References(disk) \cup
                (IF Pending(p) THEN {proc[p].key} ELSE {})
           /\ References(disk) \subseteq References(d) \cup {Superseded(p)}
           /\ Pending(p) => proc[p].key \in References(d) /\ proc[p].key \in creds
           /\ Superseded(p) # NoKey =>
                Superseded(p) \in References(disk) /\ Superseded(p) \notin References(d)
    <3> SUFFICES ASSUME Whole'
                 PROVE  <2>10!2
      OBVIOUS
    <3>1. CredentialsOwned /\ References(disk) \subseteq creds
      BY <2>3 DEF InductiveInvariant, ReferencesResolve, Whole
    <3>2. /\ Distinct(proc[p].loaded)
          /\ References(proc[p].loaded) = References(disk)
      BY <1>1, <2>3, <3>1, MigratedType DEF TypeOK, CredentialsOwned
    <3>3. Pending(p) => proc[p].key \notin References(disk) /\ proc[p].key \in creds
      BY <1>1, <3>1 DEF CredentialsOwned
    <3> QED
      BY <1>1, <2>1, <2>2, <3>1, <3>2, <3>3, DocumentReferences
  <2>11. References(disk)' = References(d) /\ (Distinct(disk)' <=> Distinct(d))
    BY <2>3 DEF References, Distinct
  <2>12. ReferencesResolve'
    BY <1>1, <2>10, <2>11 DEF ReferencesResolve, Whole
  <2>13. Whole' => CredentialsOwned'
    <3> SUFFICES ASSUME Whole'
                 PROVE  CredentialsOwned'
      OBVIOUS
    <3>1. \A q \in Procs : Pending(q)' =>
            /\ Pending(q) /\ proc'[q] = proc[q]
            /\ proc[q].pc # "rollback" => proc[q].key \in creds
            /\ proc[q].key \notin References(disk)
            /\ Pending(p) => proc[q].key # proc[p].key
      BY <2>6, <2>7, <2>10 DEF CredentialsOwned
    <3>2. \A q, r \in Procs :
            Pending(q) /\ Pending(r) /\ r # q => proc[r].key # proc[q].key
      BY <2>10 DEF CredentialsOwned
    <3>3. \A q \in Procs : Pending(q)' => proc'[q].key \notin References(d)
      BY <2>10, <3>1
    <3>4. \A q \in Procs : Pending(q)' =>
            /\ proc'[q].pc # "rollback" => proc'[q].key \in creds'
            /\ proc'[q].key \notin References(disk)'
            /\ \A r \in Procs : r # q /\ Pending(r)' => proc'[r].key # proc'[q].key
      BY <1>1, <2>11, <3>1, <3>2, <3>3
    <3>5. \A q \in Procs : Replaced(q) =>
            /\ Superseded(q) \notin References(disk)
            /\ \A r \in Procs : Pending(r) => proc[r].key # Superseded(q)
      BY <2>10 DEF CredentialsOwned
    <3>6. ASSUME NEW q \in Procs, Replaced(q)'
          PROVE  /\ Superseded(q)' \notin References(d)
                 /\ \A r \in Procs : Pending(r)' => proc'[r].key # Superseded(q)'
      <4>1. CASE q = p
        BY <2>5, <2>6, <2>10, <3>1, <3>6, <4>1
      <4>2. CASE q # p
        BY <2>7, <2>10, <3>1, <3>5, <3>6, <4>2
      <4> QED
        BY <4>1, <4>2
    <3> QED
      BY <2>10, <2>11, <3>4, <3>6 DEF CredentialsOwned
  <2>14. mishaps' = {} => OrphansOwned'
    <3> SUFFICES ASSUME mishaps' = {}, NEW k \in creds', k \notin References(disk)'
                 PROVE  \E q \in Procs : \/ Pending(q)' /\ k = proc'[q].key
                                         \/ Replaced(q)' /\ k = Superseded(q)'
      BY DEF OrphansOwned
    <3>1. Whole' /\ mishaps = {} /\ k \in creds /\ k \notin References(d)
      BY <1>1, <2>3, <2>11 DEF Whole
    <3>2. k # NoKey
      BY <1>1, <3>1, NamesAssumption DEF TypeOK
    <3>3. CASE k \in References(disk)
      BY <2>5, <2>6, <2>10, <3>1, <3>2, <3>3
    <3>4. CASE k \notin References(disk)
      <4>1. PICK q \in Procs : \/ Pending(q) /\ k = proc[q].key
                               \/ Replaced(q) /\ k = Superseded(q)
        BY <3>1, <3>4 DEF InductiveInvariant, OrphansOwned
      <4>2. q # p
        BY <1>1, <2>10, <3>1, <4>1
      <4> QED
        BY <2>7, <4>1, <4>2
    <3> QED
      BY <3>3, <3>4
  <2> QED
    BY <2>8, <2>9, <2>12, <2>13, <2>14 DEF InductiveInvariant, Whole
<1> QED
  BY <1>2, <1>3 DEF RenameConfig

-----------------------------------------------------------------------------
(* The inductive invariant, and what follows from it.                      *)

LEMMA InitInvariant == Init => InductiveInvariant
<1> SUFFICES ASSUME Init
             PROVE  InductiveInvariant
  OBVIOUS
<1>1. /\ disk \in Config /\ Valid(disk) /\ Distinct(disk) /\ References(disk) = {}
      /\ creds = {} /\ mishaps = {} /\ lock = NoProc
  <2>1. PICK v \in {1, 2} : disk = [DefaultConfig EXCEPT !.version = v]
    BY DEF Init
  <2>2. /\ disk \in Config /\ disk.profiles = DefaultConfig.profiles
        /\ disk.targets = DefaultConfig.targets /\ disk.active = DefaultConfig.active
        /\ disk.default = DefaultConfig.default /\ disk.push = DefaultConfig.push
    BY <2>1, DefaultType DEF Config
  <2> QED
    BY <2>2, DefaultType DEF Init, Valid, Distinct, References
<1>2. \A p \in Procs : proc[p] = IdleProcess
  BY DEF Init
<1>3. \A p \in Procs : ProcessShape(p) /\ ~Pending(p) /\ ~Replaced(p)
  BY <1>2, IdleType, DefaultType
  DEF ProcessShape, Pending, Replaced, AddsCredential
<1>4. TypeOK
  BY <1>1, IdleType DEF Init, TypeOK
<1>5. ReferencesResolve /\ OrphansOwned
  BY <1>1 DEF ReferencesResolve, OrphansOwned
<1>6. CredentialsOwned
  BY <1>1, <1>3 DEF CredentialsOwned
<1> QED
  BY <1>3, <1>4, <1>5, <1>6 DEF InductiveInvariant

LEMMA NextInvariant == InductiveInvariant /\ [Next]_vars => InductiveInvariant'
<1> SUFFICES ASSUME InductiveInvariant, [Next]_vars
             PROVE  InductiveInvariant'
  OBVIOUS
<1>1. CASE UNCHANGED vars
  <2>1. /\ UNCHANGED <<disk, lock, creds, proc, mishaps>>
        /\ References(disk)' = References(disk) /\ (Distinct(disk)' <=> Distinct(disk))
    BY <1>1 DEF vars, References, Distinct
  <2>2. \A q \in Procs :
          /\ proc'[q] = proc[q]
          /\ Pending(q)' <=> Pending(q)
          /\ Replaced(q)' <=> Replaced(q)
          /\ Superseded(q)' = Superseded(q)
          /\ ProcessShape(q)' <=> ProcessShape(q)
    BY <2>1, Unmoved
  <2>3. TypeOK' /\ ReferencesResolve' /\ (\A q \in Procs : ProcessShape(q))'
    BY <2>1, <2>2 DEF InductiveInvariant, TypeOK, ReferencesResolve
  <2>4. CredentialsOwned => CredentialsOwned'
    BY <2>1, <2>2 DEF CredentialsOwned
  <2>5. OrphansOwned => OrphansOwned'
    BY <2>1, <2>2 DEF OrphansOwned
  <2> QED
    BY <2>1, <2>3, <2>4, <2>5 DEF InductiveInvariant
<1>2. ASSUME NEW p \in Procs,
             NEW command \in Command \ {"none", "reset"}, NEW n \in Arguments(command),
             Load(p, command, n)
      PROVE  InductiveInvariant'
  BY <1>2, LoadStep
<1>3. ASSUME NEW p \in Procs, SaveMigrated(p)
      PROVE  InductiveInvariant'
  BY <1>3, SaveMigratedStep
<1>4. ASSUME NEW p \in Procs, Proceed(p)
      PROVE  InductiveInvariant'
  BY <1>4, ProceedStep
<1>5. ASSUME NEW p \in Procs, SetCredential(p)
      PROVE  InductiveInvariant'
  BY <1>5, SetCredentialStep
<1>6. ASSUME NEW p \in Procs, BeginReset(p)
      PROVE  InductiveInvariant'
  BY <1>6, BeginResetStep
<1>7. ASSUME NEW p \in Procs, LockConfig(p)
      PROVE  InductiveInvariant'
  BY <1>7, LockConfigStep
<1>8. ASSUME NEW p \in Procs, RenameConfig(p)
      PROVE  InductiveInvariant'
  BY <1>8, RenameConfigStep
<1>9. ASSUME NEW p \in Procs, SyncConfig(p)
      PROVE  InductiveInvariant'
  BY <1>9, SyncConfigStep
<1>10. ASSUME NEW p \in Procs, Rollback(p)
       PROVE  InductiveInvariant'
  BY <1>10, RollbackStep
<1>11. ASSUME NEW p \in Procs, Cleanup(p)
       PROVE  InductiveInvariant'
  BY <1>11, CleanupStep
<1>12. ASSUME NEW p \in Procs, Crash(p)
       PROVE  InductiveInvariant'
  BY <1>12, CrashStep
<1> QED
  BY <1>1, <1>2, <1>3, <1>4, <1>5, <1>6, <1>7, <1>8, <1>9, <1>10, <1>11, <1>12 DEF Next

(* In every reachable state, whoever has crashed or failed: what each      *)
(* process relies on holds, and each credential is a document's entry or a *)
(* command's (config.rs, credential_transaction.rs, profile_service.rs).   *)
THEOREM InvariantHolds == Spec => []InductiveInvariant
  BY InitInvariant, NextInvariant, PTL DEF Spec

(* The variables keep their types, and no command makes a document that    *)
(* AppConfig::validate would refuse to load.                               *)
THEOREM TypeCorrect == Spec => []TypeOK
<1>1. InductiveInvariant => TypeOK
  BY DEF InductiveInvariant
<1> QED
  BY <1>1, InvariantHolds, PTL

(* However many processes add, remove and replace entries and crash, an    *)
(* entry has its credential, unless a save overwrote a document its        *)
(* command had not seen or failed after the rename.                        *)
THEOREM ReferencesHold == Spec => []ReferencesResolve
<1>1. InductiveInvariant => ReferencesResolve
  BY DEF InductiveInvariant
<1> QED
  BY <1>1, InvariantHolds, PTL

(* While nothing has gone wrong, a credential that no entry refers to      *)
(* belongs to a command under way: rollback and cleanup miss none.         *)
THEOREM OrphansHold == Spec => []NoOrphanCredential
<1>1. InductiveInvariant => NoOrphanCredential
  <2> SUFFICES ASSUME InductiveInvariant, mishaps = {},
                      NEW k \in creds \ References(disk)
               PROVE  \E p \in Procs :
                        k = proc[p].key \/ k \in References(proc[p].loaded)
    BY DEF NoOrphanCredential
  <2>1. PICK p \in Procs : \/ Pending(p) /\ k = proc[p].key
                           \/ Replaced(p) /\ k = Superseded(p)
    BY DEF InductiveInvariant, OrphansOwned
  <2> QED
    BY <2>1, SupersededLoaded
<1> QED
  BY <1>1, InvariantHolds, PTL

(* No command but `profile allow-push` makes a profile a push destination, *)
(* migrations, resets and failures included, unless a save overwrote a     *)
(* document that its command had not seen.                                 *)
THEOREM PushHolds == Spec => PushGrantedByAllow
<1> DEFINE Grants ==
      \A n \in Profiles : n \in disk'.push \ disk.push =>
        \/ "overwrite" \in mishaps'
        \/ \E p \in Procs : proc[p].command = "allow" /\ proc[p].name = n
<1>1. InductiveInvariant /\ [Next]_vars => [Grants]_vars
  <2> SUFFICES ASSUME InductiveInvariant, Next
               PROVE  Grants
    OBVIOUS
  <2>1. disk \in Config /\ Migrated(disk).push = disk.push
    BY MigratedType DEF InductiveInvariant, TypeOK
  <2>2. ASSUME disk' = disk
        PROVE  Grants
    BY <2>2
  <2>3. ASSUME NEW p \in Procs, SaveMigrated(p)
        PROVE  Grants
    <3>1. CASE Replace(p, proc[p].loaded)
      <4>1. /\ disk' = proc[p].loaded
            /\ "overwrite" \in mishaps' \/ Migrated(disk) = proc[p].loaded
        BY <3>1 DEF Replace
      <4> QED
        BY <2>1, <4>1
    <3> QED
      BY <2>2, <2>3, <3>1 DEF SaveMigrated
  <2>4. ASSUME NEW p \in Procs, BeginReset(p)
        PROVE  Grants
    BY <2>4, DefaultType DEF BeginReset
  <2>5. ASSUME NEW p \in Procs, RenameConfig(p)
        PROVE  Grants
    <3>1. CASE Replace(p, Document(p))
      <4>1. Ready(p)
        BY <2>5, ProcessType DEF InductiveInvariant, RenameConfig, At, Ready
      <4>2. /\ disk' = Document(p)
            /\ "overwrite" \in mishaps' \/ Migrated(disk) = proc[p].loaded
        BY <3>1 DEF Replace
      <4>3. /\ proc[p].command = "allow" \/ Document(p).push \subseteq proc[p].loaded.push
            /\ Document(p).push \subseteq proc[p].loaded.push \cup {proc[p].name}
        BY <4>1, DocumentFields DEF Fields
      <4> QED
        BY <2>1, <4>2, <4>3
    <3> QED
      BY <2>2, <2>5, <3>1 DEF RenameConfig
  <2>6. ASSUME NEW p \in Procs,
               \/ \E command \in Command \ {"none", "reset"} :
                    \E n \in Arguments(command) : Load(p, command, n)
               \/ Proceed(p) \/ SetCredential(p) \/ LockConfig(p) \/ SyncConfig(p)
               \/ Rollback(p) \/ Cleanup(p) \/ Crash(p)
        PROVE  disk' = disk
    BY <2>6
    DEF Load, Proceed, SetCredential, LockConfig, SyncConfig, Rollback, Cleanup,
        DeleteCredential, Crash
  <2> QED
    BY <2>2, <2>3, <2>4, <2>5, <2>6 DEF Next
<1>2. [][Grants]_vars => PushGrantedByAllow
  BY PTL DEF PushGrantedByAllow
<1> QED
  BY <1>1, <1>2, InvariantHolds, PTL DEF Spec

-----------------------------------------------------------------------------
(* The configuration keeps the promise of ProfileBook.  What has gone      *)
(* wrong is never forgotten.                                               *)
LEMMA MishapsStay ==
  ASSUME [Next]_vars
  PROVE  mishaps \subseteq mishaps'
<1>1. ASSUME NEW p \in Procs, NEW c, Replace(p, c)
      PROVE  mishaps \subseteq mishaps'
  BY <1>1 DEF Replace
<1>2. ASSUME NEW p \in Procs, NEW k, DeleteCredential(p, k)
      PROVE  mishaps \subseteq mishaps'
  BY <1>2 DEF DeleteCredential
<1>3. ASSUME NEW p \in Procs, SaveMigrated(p) \/ RenameConfig(p)
      PROVE  mishaps \subseteq mishaps'
  BY <1>1, <1>3 DEF SaveMigrated, RenameConfig
<1>4. ASSUME NEW p \in Procs, Rollback(p) \/ Cleanup(p)
      PROVE  mishaps \subseteq mishaps'
  BY <1>2, <1>4 DEF Rollback, Cleanup
<1>5. ASSUME NEW p \in Procs,
             \/ \E command \in Command \ {"none", "reset"} :
                  \E n \in Arguments(command) : Load(p, command, n)
             \/ Proceed(p) \/ SetCredential(p) \/ LockConfig(p)
             \/ BeginReset(p) \/ SyncConfig(p) \/ Crash(p)
      PROVE  mishaps \subseteq mishaps'
  BY <1>5 DEF Load, Proceed, SetCredential, LockConfig, BeginReset, SyncConfig, Crash
<1>6. CASE UNCHANGED vars
  BY <1>6 DEF vars
<1> QED
  BY <1>3, <1>4, <1>5, <1>6 DEF Next

(* The names that two documents with the same entries hold are the same.   *)
LEMMA MigratedNames ==
  ASSUME NEW c \in Config
  PROVE  LET d == Migrated(c)
         IN /\ ProfilesOf(d) = ProfilesOf(c) /\ TargetsOf(d) = TargetsOf(c)
            /\ d.push = c.push /\ d.active = c.active /\ d.default = c.default
<1> DEFINE d == Migrated(c)
<1>1. /\ d.profiles = c.profiles /\ d.targets = c.targets
      /\ d.push = c.push /\ d.active = c.active /\ d.default = c.default
  BY DEF Migrated, Config
<1> HIDE DEF d
<1>2. ProfilesOf(d) = ProfilesOf(c) /\ TargetsOf(d) = TargetsOf(c)
  BY <1>1 DEF ProfilesOf, TargetsOf
<1> QED
  BY <1>1, <1>2 DEF d

(* The names in the document a command saves.                              *)
LEMMA DocumentNames ==
  ASSUME NEW p \in Procs, Ready(p)
  PROVE  LET c == proc[p].loaded
             d == Document(p)
             n == proc[p].name
         IN /\ ProfilesOf(d) = IF proc[p].command = "add" THEN ProfilesOf(c) \cup {n}
                               ELSE IF proc[p].command = "remove"
                               THEN ProfilesOf(c) \ {n} ELSE ProfilesOf(c)
            /\ TargetsOf(d) = IF proc[p].command = "setup" THEN TargetsOf(c) \cup {n}
                              ELSE TargetsOf(c)
<1> DEFINE n == proc[p].name
           k == proc[p].key
<1>1. PICK c \in Config : c = proc[p].loaded
  BY ReadyFacts
<1>2. PICK d \in Config : d = Document(p) /\ Fields(p, c, d)
  BY <1>1, DocumentFields DEF Fields
<1>3. /\ c.profiles \in [Profiles -> Keys \cup {NoKey}]
      /\ c.targets \in [Containers -> Keys \cup {NoKey}]
  BY DEF Config
<1>4. ProfilesOf(d) = IF proc[p].command = "add" THEN ProfilesOf(c) \cup {n}
                      ELSE IF proc[p].command = "remove"
                      THEN ProfilesOf(c) \ {n} ELSE ProfilesOf(c)
  <2>1. CASE proc[p].command = "add"
    <3>1. d.profiles = [c.profiles EXCEPT ![n] = k] /\ n \in Profiles /\ k # NoKey
      BY <1>1, <1>2, <2>1, ReadyFacts, NamesAssumption DEF Fields
    <3> QED
      BY <1>3, <2>1, <3>1 DEF ProfilesOf
  <2>2. CASE proc[p].command = "remove"
    <3>1. d.profiles = [c.profiles EXCEPT ![n] = NoKey] /\ n \in Profiles
      BY <1>1, <1>2, <2>2, ReadyFacts DEF Fields
    <3> QED
      BY <1>3, <2>2, <3>1 DEF ProfilesOf
  <2>3. CASE proc[p].command \notin {"add", "remove"}
    BY <1>2, <2>3 DEF Fields, ProfilesOf
  <2> QED
    BY <2>1, <2>2, <2>3
<1>5. TargetsOf(d) = IF proc[p].command = "setup" THEN TargetsOf(c) \cup {n}
                     ELSE TargetsOf(c)
  <2>1. CASE proc[p].command = "setup"
    <3>1. d.targets = [c.targets EXCEPT ![n] = k] /\ n \in Containers /\ k # NoKey
      BY <1>1, <1>2, <2>1, ReadyFacts, NamesAssumption DEF Fields
    <3> QED
      BY <1>3, <2>1, <3>1 DEF TargetsOf
  <2>2. CASE proc[p].command # "setup"
    BY <1>2, <2>2 DEF Fields, TargetsOf
  <2> QED
    BY <2>1, <2>2
<1> QED
  BY <1>1, <1>2, <1>4, <1>5

(* What every step of a sound configuration has in common: each entry has  *)
(* its credential before and after.                                        *)
LEMMA SoundStep ==
  ASSUME InductiveInvariant, InductiveInvariant', [Next]_vars, Sound'
  PROVE  /\ Sound = TRUE /\ Sound' = TRUE
         /\ Usable = ProfilesOf(disk) \cup TargetsOf(disk)
         /\ Usable' = ProfilesOf(disk') \cup TargetsOf(disk')
<1>1. Sound
  BY MishapsStay DEF Sound
<1>2. References(disk) \subseteq creds
  BY <1>1 DEF InductiveInvariant, ReferencesResolve, Sound
<1>3. References(disk') \subseteq creds'
  BY DEF InductiveInvariant, ReferencesResolve, Sound, References
<1>4. Usable = ProfilesOf(disk) \cup TargetsOf(disk)
  BY <1>2 DEF Usable, ProfilesOf, TargetsOf, References
<1>5. Usable' = ProfilesOf(disk') \cup TargetsOf(disk')
  BY <1>3 DEF Usable, ProfilesOf, TargetsOf, References
<1>6. Sound = TRUE /\ Sound' = TRUE
  BY <1>1, Zenon DEF Sound
<1> QED
  BY <1>4, <1>5, <1>6

(* A document that changes no name changes nothing the promise sees.       *)
LEMMA BookStutter ==
  ASSUME InductiveInvariant, InductiveInvariant', [Next]_vars, Sound',
         ProfilesOf(disk') = ProfilesOf(disk), TargetsOf(disk') = TargetsOf(disk),
         disk'.push = disk.push, disk'.active = disk.active,
         disk'.default = disk.default
  PROVE  UNCHANGED Book!vars
<1>1. ProfilesOf(disk)' = ProfilesOf(disk) /\ TargetsOf(disk)' = TargetsOf(disk)
  BY DEF ProfilesOf, TargetsOf
<1> QED
  BY <1>1, SoundStep DEF Book!vars, Book!names

(* A saved document is the command on the document as it was.              *)
LEMMA BookSave ==
  ASSUME InductiveInvariant, InductiveInvariant', [Next]_vars, Sound',
         NEW p \in Procs, At(p, "saving"), Replace(p, Document(p))
  PROVE  Book!Next \/ UNCHANGED Book!vars
<1> DEFINE n == proc[p].name
<1>1. Ready(p) /\ disk \in Config
  BY ProcessType DEF InductiveInvariant, TypeOK, At, Ready
<1>2. PICK c \in Config :
        c = proc[p].loaded /\ c = Migrated(disk) /\ Fields(p, c, disk')
  BY <1>1, DocumentFields, MigratedType DEF Replace, Sound
<1>3. /\ ProfilesOf(disk) = ProfilesOf(c) /\ TargetsOf(disk) = TargetsOf(c)
      /\ disk.push = c.push /\ disk.active = c.active /\ disk.default = c.default
  BY <1>1, <1>2, MigratedNames
<1>4. /\ proc[p].command \in {"add", "use", "allow", "deny", "remove", "setup", "reset"}
      /\ proc[p].command = "setup" => n \in Containers
      /\ proc[p].command \notin {"setup", "reset"} => n \in Profiles
      /\ proc[p].command = "add" => n \notin ProfilesOf(disk)
      /\ proc[p].command \in {"use", "allow", "deny", "remove"} => n \in ProfilesOf(disk)
  BY <1>1, <1>2, <1>3, ReadyFacts DEF ProfilesOf
<1>5. /\ ProfilesOf(disk)' = ProfilesOf(disk') /\ TargetsOf(disk)' = TargetsOf(disk')
      /\ disk' = Document(p)
  BY DEF ProfilesOf, TargetsOf, Replace
<1>6. /\ ProfilesOf(disk)' = IF proc[p].command = "add" THEN ProfilesOf(disk) \cup {n}
                             ELSE IF proc[p].command = "remove"
                             THEN ProfilesOf(disk) \ {n} ELSE ProfilesOf(disk)
      /\ TargetsOf(disk)' = IF proc[p].command = "setup" THEN TargetsOf(disk) \cup {n}
                            ELSE TargetsOf(disk)
  BY <1>1, <1>2, <1>3, <1>5, DocumentNames
<1>7. /\ disk'.active = IF proc[p].command \in {"add", "use"} THEN n
                        ELSE IF proc[p].command = "remove" /\ disk.active = n THEN NoName
                        ELSE disk.active
      /\ disk'.default = IF proc[p].command = "setup" THEN n ELSE disk.default
      /\ disk'.push = IF proc[p].command = "allow" THEN disk.push \cup {n}
                      ELSE IF proc[p].command \in {"deny", "remove"} THEN disk.push \ {n}
                      ELSE disk.push
  BY <1>2, <1>3 DEF Fields
<1>8. /\ Sound' = Sound /\ Usable = ProfilesOf(disk) \cup TargetsOf(disk)
      /\ Usable' = ProfilesOf(disk)' \cup TargetsOf(disk)'
  BY <1>5, SoundStep
<1>9. CASE proc[p].command = "add"
  <2>1. Book!Add(n)
    BY <1>4, <1>6, <1>7, <1>8, <1>9 DEF Book!Add
  <2> QED
    BY <1>4, <1>9, <2>1 DEF Book!Next
<1>10. CASE proc[p].command = "use"
  <2>1. Book!Use(n)
    BY <1>4, <1>6, <1>7, <1>8, <1>10 DEF Book!Use
  <2> QED
    BY <1>4, <1>10, <2>1 DEF Book!Next
<1>11. CASE proc[p].command = "allow"
  <2>1. Book!Allow(n)
    BY <1>4, <1>6, <1>7, <1>8, <1>11 DEF Book!Allow
  <2> QED
    BY <1>4, <1>11, <2>1 DEF Book!Next
<1>12. CASE proc[p].command = "deny"
  <2>1. Book!Deny(n)
    BY <1>4, <1>6, <1>7, <1>8, <1>12 DEF Book!Deny
  <2> QED
    BY <1>4, <1>12, <2>1 DEF Book!Next
<1>13. CASE proc[p].command = "remove"
  <2>1. n \notin TargetsOf(disk)
    BY <1>4, <1>13, NamesAssumption DEF TargetsOf
  <2>2. Book!Remove(n)
    BY <1>4, <1>6, <1>7, <1>8, <1>13, <2>1 DEF Book!Remove
  <2> QED
    BY <1>4, <1>13, <2>2 DEF Book!Next
<1>14. CASE proc[p].command = "setup"
  <2>1. Book!Setup(n)
    BY <1>4, <1>6, <1>7, <1>8, <1>14 DEF Book!Setup
  <2> QED
    BY <1>4, <1>14, <2>1 DEF Book!Next
<1>15. CASE proc[p].command = "reset"
  <2>1. UNCHANGED Book!vars
    BY <1>5, <1>6, <1>7, <1>15, BookStutter
  <2> QED
    BY <2>1
<1> QED
  BY <1>4, <1>9, <1>10, <1>11, <1>12, <1>13, <1>14, <1>15

LEMMA BookReset ==
  ASSUME InductiveInvariant, InductiveInvariant', [Next]_vars, Sound',
         disk' = DefaultConfig
  PROVE  Book!Next
<1>1. /\ ProfilesOf(disk)' = {} /\ TargetsOf(disk)' = {}
      /\ disk'.push = {} /\ disk'.active = NoName /\ disk'.default = NoName
  BY DEF ProfilesOf, TargetsOf, DefaultConfig
<1>2. Usable' = {} /\ Sound' = Sound
  BY <1>1, SoundStep DEF ProfilesOf, TargetsOf
<1>3. Book!Reset
  BY <1>1, <1>2 DEF Book!Reset, Book!Empty
<1> QED
  BY <1>3 DEF Book!Next

LEMMA BookSpoil ==
  ASSUME InductiveInvariant', ~Sound'
  PROVE  Book!Next
<1>1. Sound' = FALSE
  BY Zenon DEF Sound
<1>2. disk' \in Config
  BY DEF InductiveInvariant, TypeOK
<1>3. /\ disk'.push \in SUBSET Profiles /\ disk'.active \in Profiles \cup {NoName}
      /\ disk'.default \in Containers \cup {NoName}
  BY <1>2 DEF Config
<1>4. /\ ProfilesOf(disk)' \in SUBSET Profiles /\ TargetsOf(disk)' \in SUBSET Containers
      /\ Usable' \in SUBSET (Profiles \cup Containers)
  BY DEF ProfilesOf, TargetsOf, Usable
<1>5. Book!Spoil
  BY <1>1, <1>3, <1>4 DEF Book!Spoil
<1> QED
  BY <1>5 DEF Book!Next

LEMMA BookNext ==
  ASSUME InductiveInvariant, InductiveInvariant', [Next]_vars
  PROVE  Book!Next \/ UNCHANGED Book!vars
<1>1. CASE ~Sound'
  BY <1>1, BookSpoil
<1> SUFFICES ASSUME Sound'
             PROVE  Book!Next \/ UNCHANGED Book!vars
  BY <1>1
<1>2. CASE disk' = disk
  BY <1>2, BookStutter
<1>3. ASSUME NEW p \in Procs, SaveMigrated(p)
      PROVE  Book!Next \/ UNCHANGED Book!vars
  <2>1. CASE Replace(p, proc[p].loaded)
    <3>1. disk \in Config /\ disk' = Migrated(disk)
      BY <2>1 DEF Replace, Sound, InductiveInvariant, TypeOK
    <3> QED
      BY <3>1, MigratedNames, BookStutter
  <2> QED
    BY <1>2, <1>3, <2>1 DEF SaveMigrated
<1>4. ASSUME NEW p \in Procs, BeginReset(p)
      PROVE  Book!Next
  BY <1>4, BookReset DEF BeginReset
<1>5. ASSUME NEW p \in Procs, RenameConfig(p)
      PROVE  Book!Next \/ UNCHANGED Book!vars
  BY <1>2, <1>5, BookSave DEF RenameConfig
<1>6. ASSUME NEW p \in Procs,
             \/ \E command \in Command \ {"none", "reset"} :
                  \E n \in Arguments(command) : Load(p, command, n)
             \/ Proceed(p) \/ SetCredential(p) \/ LockConfig(p) \/ SyncConfig(p)
             \/ Rollback(p) \/ Cleanup(p) \/ Crash(p)
      PROVE  disk' = disk
  BY <1>6
  DEF Load, Proceed, SetCredential, LockConfig, SyncConfig, Rollback, Cleanup,
      DeleteCredential, Crash
<1>7. CASE UNCHANGED vars
  BY <1>2, <1>7 DEF vars
<1> QED
  BY <1>2, <1>3, <1>4, <1>5, <1>6, <1>7 DEF Next

LEMMA BookInit ==
  ASSUME Init
  PROVE  Book!Init
<1>1. PICK v \in {1, 2} : disk = [DefaultConfig EXCEPT !.version = v]
  BY DEF Init
<1>2. /\ disk.profiles = [n \in Profiles |-> NoKey] /\ disk.push = {}
      /\ disk.active = NoName /\ disk.default = NoName
      /\ disk.targets = [n \in Containers |-> NoKey]
  BY <1>1 DEF DefaultConfig
<1>3. ProfilesOf(disk) = {} /\ TargetsOf(disk) = {}
  BY <1>2 DEF ProfilesOf, TargetsOf
<1>4. Usable = {}
  BY <1>3 DEF Usable
<1>5. Sound = TRUE
  BY Zenon DEF Init, Sound
<1> QED
  BY <1>2, <1>3, <1>4, <1>5 DEF Book!Init, Book!Empty

(* Every behaviour of the commands that change the configuration is one of *)
(* ProfileBook: loads, saves, rollbacks and cleanups of any number of      *)
(* processes amount to whole commands one after the other, with each       *)
(* credential coming and going with its entry, until a save overwrites     *)
(* what its command had not seen or fails after its rename.                *)
THEOREM ConfigurationKeepsBook == Spec => KeepsBook
<1>1. Init => Book!Init
  BY BookInit
<1>2. InductiveInvariant /\ InductiveInvariant' /\ [Next]_vars
        => [Book!Next]_(Book!vars)
  BY BookNext
<1> QED
  BY <1>1, <1>2, InvariantHolds, PTL DEF Spec, KeepsBook, Book!Spec

(* Whatever keeps the promise of ProfileBook has, until the promise is     *)
(* off, a credential for each name it holds, and refers to no other name.  *)
THEOREM BookIsComplete == Book!Spec => []Book!Complete
<1>1. Book!Init => Book!Complete
  BY DEF Book!Init, Book!Empty, Book!Complete
<1>2. Book!Complete /\ [Book!Next]_(Book!vars) => Book!Complete'
  <2> SUFFICES ASSUME Book!Complete, [Book!Next]_(Book!vars)
               PROVE  Book!Complete'
    OBVIOUS
  <2>1. CASE UNCHANGED Book!vars
    BY <2>1 DEF Book!Complete, Book!vars, Book!names
  <2>2. ASSUME NEW n \in Profiles, Book!Add(n)
        PROVE  Book!Complete'
    BY <2>2 DEF Book!Complete, Book!Add
  <2>3. ASSUME NEW n \in Profiles, Book!Use(n) \/ Book!Allow(n) \/ Book!Deny(n)
        PROVE  Book!Complete'
    BY <2>3 DEF Book!Complete, Book!Use, Book!Allow, Book!Deny
  <2>4. ASSUME NEW n \in Profiles, Book!Remove(n)
        PROVE  Book!Complete'
    <3>1. n \notin TargetsOf(disk)
      BY NamesAssumption DEF TargetsOf
    <3> QED
      BY <2>4, <3>1 DEF Book!Complete, Book!Remove
  <2>5. ASSUME NEW n \in Containers, Book!Setup(n)
        PROVE  Book!Complete'
    BY <2>5 DEF Book!Complete, Book!Setup
  <2>6. CASE Book!Reset
    BY <2>6 DEF Book!Complete, Book!Reset, Book!Empty
  <2>7. CASE Book!Spoil
    BY <2>7 DEF Book!Complete, Book!Spoil
  <2> QED
    BY <2>1, <2>2, <2>3, <2>4, <2>5, <2>6, <2>7 DEF Book!Next
<1> QED
  BY <1>1, <1>2, PTL DEF Book!Spec
=============================================================================
