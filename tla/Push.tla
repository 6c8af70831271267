-------------------------------- MODULE Push --------------------------------
(***************************************************************************)
(* `reprodb push`: which remote server and database a dump may be imported *)
(* into (remote_target_gate.rs, push_service.rs,                           *)
(* remote_import_executor.rs).  The gate loads the configuration and scans *)
(* the cache at several moments, the user answers in between, and other    *)
(* reprodb commands, DNS and endpoints change meanwhile.  A command that   *)
(* changes the configuration is one step here; Configuration models how it *)
(* loads and saves.                                                        *)
(***************************************************************************)
EXTENDS Naturals, FiniteSets

CONSTANTS
  Procs,      \* reprodb processes that push
  Profiles,   \* names of source profiles
  Endpoints,  \* host and port, all spellings of this machine being one
  Servers,    \* MySQL servers, each with its @@server_uuid
  Databases,  \* names of databases
  MaxCached,  \* bound on the dumps in the cache
  MaxEdits,   \* bound on what others change
  NoProfile, NoEndpoint, NoServer, NoDatabase, NoDump

ASSUME BoundsAssumption == MaxCached \in Nat /\ MaxEdits \in Nat
ASSUME NoProfileAssumption == NoProfile \notin Profiles

VARIABLES
  config,  \* the profiles of the configuration document
  active,  \* active_profile
  reach,   \* reach[e]: the server that answers at endpoint e
  cached,  \* the complete dumps of the cache
  locked,  \* remote operation locks: profile, database and holder
  proc,    \* proc[p]: how far p's push is and what it goes by
  edits    \* number of changes so far

vars == <<config, active, reach, cached, locked, proc, edits>>
world == <<config, active, reach, cached, locked, edits>>

Entry == [endpoint: Endpoints, production: BOOLEAN, push: BOOLEAN]

(* A dump: what its metadata records, and origin, the server its rows came *)
(* from, which no code can read.                                           *)
Metadata == [profile: Profiles, server: Servers, database: Databases,
             origin: Servers]

(* Before the gate has read the configuration, and before it has scanned   *)
(* the cache.                                                              *)
Choosing == {"idle", "chosen"}
Attesting == Choosing \cup {"verified", "probed"}

Label == Attesting \cup
         {"guarded", "loaded", "dumping", "artifact", "authorized",
          "confirmed", "locked", "ensured", "importing"}

Process == [pc: Label,
            profile: Profiles \cup {NoProfile},     \* the destination
            consented: BOOLEAN,                     \* allowed in this run only
            endpoint: Endpoints \cup {NoEndpoint},  \* where it connects to
            server: Servers \cup {NoServer},        \* the attested identity
            accepting: SUBSET Profiles,             \* those verify found
            source: (Profiles \X Endpoints) \cup {NoDump},  \* being dumped
            met: Servers \cup {NoServer},  \* who answered its preflight
            dump: Metadata \cup {NoDump},
            database: Databases \cup {NoDatabase},  \* the destination's
            session: Servers \cup {NoServer},       \* who receives statements
            outdated: BOOLEAN]  \* history: others changed what the gate read

IdleProcess ==
  [pc |-> "idle", profile |-> NoProfile, consented |-> FALSE,
   endpoint |-> NoEndpoint, server |-> NoServer, accepting |-> {},
   source |-> NoDump, met |-> NoServer, dump |-> NoDump,
   database |-> NoDatabase, session |-> NoServer, outdated |-> FALSE]

(* A production profile never accepts pushes: AppConfig::validate. *)
TypeOK ==
  /\ DOMAIN config \subseteq Profiles
  /\ \A n \in DOMAIN config :
       config[n] \in Entry /\ ~(config[n].production /\ config[n].push)
  /\ active \in DOMAIN config \cup {NoProfile}
  /\ reach \in [Endpoints -> Servers]
  /\ cached \subseteq Metadata
  /\ locked \subseteq Profiles \X Databases \X Procs
  /\ proc \in [Procs -> Process]
  /\ edits \in 0..MaxEdits

(* Any configuration, any place the endpoints lead to, and at most one     *)
(* dump, whose preflight met the server it came from.                      *)
Init ==
  /\ \E names \in SUBSET Profiles :
       /\ config \in [names -> {e \in Entry : ~(e.production /\ e.push)}]
       /\ active \in names
  /\ reach \in [Endpoints -> Servers]
  /\ cached \in {{}} \cup {{m} : m \in {d \in Metadata : d.server = d.origin}}
  /\ locked = {}
  /\ proc = [p \in Procs |-> IdleProcess]
  /\ edits = 0

-----------------------------------------------------------------------------
(* What the gate decides from.                                             *)

AcceptsPush(n) ==
  n \in DOMAIN config /\ config[n].push /\ ~config[n].production

Accepting == {n \in Profiles : AcceptsPush(n)}

(* Another profile reaches the same place without accepting pushes. *)
ProtectedEndpoint(n, e) ==
  \E o \in DOMAIN config \ {n} : ~AcceptsPush(o) /\ config[o].endpoint = e

(* A cached dump shows that the server belongs to a profile that is not    *)
(* among the accepting ones, be it configured or removed.                  *)
ProtectedServer(s, accepting) ==
  \E m \in cached : m.server = s /\ m.profile \notin accepting

Eligible(n) ==
  /\ ~config[n].production
  /\ AcceptsPush(n) \/ n # active
  /\ ~ProtectedEndpoint(n, config[n].endpoint)

-----------------------------------------------------------------------------
(* The steps of PushService::push.                                         *)

At(p, label) == proc[p].pc = label

Become(p, s) == proc' = [proc EXCEPT ![p] = s]

(* Processes that have passed the labels before, but for those that know. *)
Outdate(knowing, before) ==
  [q \in Procs |-> IF q \in knowing \/ proc[q].pc \in before THEN proc[q]
                   ELSE [proc[q] EXCEPT !.outdated = TRUE]]

(* An error, a declined question, or the end: the lock is dropped. *)
Return(p) ==
  /\ ~At(p, "idle")
  /\ Become(p, IdleProcess)
  /\ locked' = {l \in locked : l[3] # p}
  /\ UNCHANGED <<config, active, reach, cached, edits>>

(* eligible_profiles; the user consents to one that was never allowed. *)
ChooseProfile(p, n) ==
  /\ At(p, "idle")
  /\ n \in DOMAIN config
  /\ Eligible(n)
  /\ Become(p, [IdleProcess EXCEPT !.pc = "chosen", !.profile = n,
                                   !.consented = ~AcceptsPush(n)])
  /\ UNCHANGED world

(* What verify checks on the configuration, which it loads again. *)
Verify(p) ==
  LET n == proc[p].profile
  IN /\ At(p, "chosen")
     /\ n \in DOMAIN config
     /\ ~config[n].production
     /\ config[n].push \/ proc[p].consented
     /\ ~ProtectedEndpoint(n, config[n].endpoint)
     /\ Become(p, [proc[p] EXCEPT !.pc = "verified",
                                  !.endpoint = config[n].endpoint,
                                  !.accepting = Accepting])
     /\ UNCHANGED world

Probe(p) ==
  /\ At(p, "verified")
  /\ Become(p, [proc[p] EXCEPT !.pc = "probed",
                               !.server = reach[proc[p].endpoint]])
  /\ UNCHANGED world

(* The cache is scanned after the probe, with the profiles from before it. *)
Guard(p) ==
  /\ At(p, "probed")
  /\ ~ProtectedServer(proc[p].server, proc[p].accepting)
  /\ Become(p, [proc[p] EXCEPT !.pc = "guarded", !.accepting = {}])
  /\ UNCHANGED world

(* An existing dump, validated by its identifier. *)
ChooseDump(p, m) ==
  /\ At(p, "guarded")
  /\ m \in cached
  /\ Become(p, [proc[p] EXCEPT !.pc = "artifact", !.dump = m])
  /\ UNCHANGED world

(* A fresh one, of the profile that is active by now. *)
StartDump(p) ==
  /\ At(p, "guarded")
  /\ active # NoProfile
  /\ Become(p, [proc[p] EXCEPT !.pc = "loaded",
                               !.source = <<active, config[active].endpoint>>])
  /\ UNCHANGED world

(* The preflight connects, and what it met is what the metadata will say.  *)
Assess(p) ==
  /\ At(p, "loaded")
  /\ Become(p, [proc[p] EXCEPT !.pc = "dumping",
                               !.met = reach[proc[p].source[2]]])
  /\ UNCHANGED world

Publish(m) ==
  /\ Cardinality(cached \cup {m}) <= MaxCached
  /\ cached' = cached \cup {m}

(* mysqldump connects by name again, and compares nothing. *)
FinishDump(p, d) ==
  LET m == [profile |-> proc[p].source[1], server |-> proc[p].met,
            database |-> d, origin |-> reach[proc[p].source[2]]]
  IN /\ At(p, "dumping")
     /\ Publish(m)
     /\ proc' = [Outdate({p}, Attesting) EXCEPT ![p] =
                   [@ EXCEPT !.pc = "artifact", !.dump = m,
                             !.source = NoDump, !.met = NoServer]]
     /\ UNCHANGED <<config, active, reach, locked, edits>>

(* Mutant: only the very database of the dump is refused. *)
MayReceive_OnlyOtherDatabase(s, d, m) == s = m.server => d # m.database

(* The server a dump came from receives it only if the dump's profile      *)
(* accepts pushes, and never in the same database.                         *)
MayReceive(s, d, m) ==
  s = m.server => AcceptsPush(m.profile) /\ d # m.database

(* Versions are refused or accepted here too; a refusal is a Return.  The  *)
(* moment is that of source_accepts_push: what authorize decides, after a  *)
(* question about the version, it decides from what was read by then.      *)
Authorize(p, d) ==
  /\ At(p, "artifact")
  /\ MayReceive(proc[p].server, d, proc[p].dump)
  /\ Become(p, [proc[p] EXCEPT !.pc = "authorized", !.database = d])
  /\ UNCHANGED world

(* The plan is confirmed, and a consent becomes part of the configuration. *)
Confirm(p) ==
  LET n == proc[p].profile
  IN /\ At(p, "authorized")
     /\ \/ ~proc[p].consented /\ UNCHANGED config
        \/ /\ proc[p].consented
           /\ n \in DOMAIN config
           /\ ~config[n].production
           /\ config' = [config EXCEPT ![n].push = TRUE]
     /\ Become(p, [proc[p] EXCEPT !.pc = "confirmed"])
     /\ UNCHANGED <<active, reach, cached, locked, edits>>

(* Mutant: the lock is taken whoever has it. *)
Lock_Shared(p) ==
  /\ At(p, "confirmed")
  /\ locked' = locked \cup {<<proc[p].profile, proc[p].database, p>>}
  /\ Become(p, [proc[p] EXCEPT !.pc = "locked"])
  /\ UNCHANGED <<config, active, reach, cached, edits>>

(* The lock is one of the profile's name and the database. *)
Lock(p) ==
  LET n == proc[p].profile
      d == proc[p].database
  IN /\ At(p, "confirmed")
     /\ \A l \in locked : <<l[1], l[2]>> # <<n, d>>
     /\ locked' = locked \cup {<<n, d, p>>}
     /\ Become(p, [proc[p] EXCEPT !.pc = "locked"])
     /\ UNCHANGED <<config, active, reach, cached, edits>>

(* Mutant: the identity is not checked again. *)
GuardedSession_Unchecked(p) == TRUE

(* Every session begins with a statement that fails on another server. *)
GuardedSession(p) == reach[proc[p].endpoint] = proc[p].server

(* CREATE DATABASE IF NOT EXISTS, in a session of its own. *)
EnsureDatabase(p) ==
  /\ At(p, "locked")
  /\ GuardedSession(p)
  /\ Become(p, [proc[p] EXCEPT !.pc = "ensured"])
  /\ UNCHANGED world

Import(p) ==
  /\ At(p, "ensured")
  /\ GuardedSession(p)
  /\ Become(p, [proc[p] EXCEPT !.pc = "importing",
                               !.session = reach[proc[p].endpoint]])
  /\ UNCHANGED world

-----------------------------------------------------------------------------
(* What other commands, and the network, do meanwhile.                     *)

Edit ==
  /\ edits < MaxEdits
  /\ edits' = edits + 1

(* `profile add`: the new profile becomes active and accepts no pushes. *)
AddProfile(n, e, production) ==
  /\ Edit
  /\ n \notin DOMAIN config
  /\ config' = [o \in DOMAIN config \cup {n} |->
                  IF o = n THEN [endpoint |-> e, production |-> production,
                                 push |-> FALSE]
                  ELSE config[o]]
  /\ active' = n
  /\ proc' = Outdate({}, Choosing)
  /\ UNCHANGED <<reach, cached, locked>>

RemoveProfile(n) ==
  /\ Edit
  /\ n \in DOMAIN config
  /\ config' = [o \in DOMAIN config \ {n} |-> config[o]]
  /\ active' = IF active = n THEN NoProfile ELSE active
  /\ proc' = Outdate({}, Choosing)
  /\ UNCHANGED <<reach, cached, locked>>

UseProfile(n) ==
  /\ Edit
  /\ n \in DOMAIN config \ {active}
  /\ active' = n
  /\ UNCHANGED <<config, reach, cached, locked, proc>>

AllowPush(n) ==
  /\ Edit
  /\ n \in DOMAIN config
  /\ ~config[n].production
  /\ config' = [config EXCEPT ![n].push = TRUE]
  /\ UNCHANGED <<active, reach, cached, locked, proc>>

DenyPush(n) ==
  /\ Edit
  /\ n \in DOMAIN config
  /\ config' = [config EXCEPT ![n].push = FALSE]
  /\ proc' = Outdate({}, Choosing)
  /\ UNCHANGED <<active, reach, cached, locked>>

(* `dump` of the active profile.  Its preflight was earlier, when another  *)
(* server may have answered at the address.                                *)
Dump(d, met) ==
  /\ Edit
  /\ active # NoProfile
  /\ Publish([profile |-> active, server |-> met, database |-> d,
              origin |-> reach[config[active].endpoint]])
  /\ proc' = Outdate({}, Attesting)
  /\ UNCHANGED <<config, active, reach, locked>>

(* `cache prune`, which skips the dump a push has leased. *)
Prune(m) ==
  /\ Edit
  /\ m \in cached
  /\ \A p \in Procs : proc[p].dump # m
  /\ cached' = cached \ {m}
  /\ UNCHANGED <<config, active, reach, locked, proc>>

(* A name or an address leads to another server. *)
Repoint(e, s) ==
  /\ Edit
  /\ reach[e] # s
  /\ reach' = [reach EXCEPT ![e] = s]
  /\ UNCHANGED <<config, active, cached, locked, proc>>

PushStep(p) ==
  \/ \E n \in Profiles : ChooseProfile(p, n)
  \/ Verify(p) \/ Probe(p) \/ Guard(p)
  \/ \E m \in cached : ChooseDump(p, m)
  \/ StartDump(p) \/ Assess(p)
  \/ \E d \in Databases : FinishDump(p, d)
  \/ \E d \in Databases : Authorize(p, d)
  \/ Confirm(p) \/ Lock(p) \/ EnsureDatabase(p) \/ Import(p)
  \/ Return(p)

OthersStep ==
  \/ \E n \in Profiles :
       \/ \E e \in Endpoints, b \in BOOLEAN : AddProfile(n, e, b)
       \/ RemoveProfile(n) \/ UseProfile(n) \/ AllowPush(n) \/ DenyPush(n)
  \/ \E d \in Databases, s \in Servers : Dump(d, s)
  \/ \E m \in cached : Prune(m)
  \/ \E e \in Endpoints, s \in Servers : Repoint(e, s)

Next == (\E p \in Procs : PushStep(p)) \/ OthersStep

Spec == Init /\ [][Next]_vars

-----------------------------------------------------------------------------
(* Properties.                                                             *)

(* No dump is imported over the database its rows were taken from,         *)
(* whatever the profiles, names and addresses lead to by the time the      *)
(* import starts: authorize compares what verify attested, and the session *)
(* attests it again (server_identity_guard).                               *)
OverItsSource(p) ==
  /\ At(p, "importing")
  /\ proc[p].session = proc[p].dump.origin
  /\ proc[p].database = proc[p].dump.database

(* docs/push-command.md says so of every dump.  A dump is taken in two     *)
(* connections, and the code compares the first one.                       *)
OriginNeverOverwritten == \A p \in Procs : ~OverItsSource(p)

(* It is so unless the address of the source moved within those two: then  *)
(* the metadata records a server the rows did not come from.               *)
SourceNeverOverwritten ==
  \A p \in Procs :
    OverItsSource(p) => proc[p].dump.server # proc[p].dump.origin

Writing == {"locked", "ensured", "importing"}

(* Unless others changed what the gate has already read, a push that       *)
(* writes has a destination that accepts pushes and that no profile or     *)
(* cached dump protects, the dump included that the push itself has made   *)
(* of a server it had taken for unprotected.                               *)
DestinationUnprotected ==
  \A p \in Procs : proc[p].pc \in Writing /\ ~proc[p].outdated =>
    /\ AcceptsPush(proc[p].profile)
    /\ ~ProtectedEndpoint(proc[p].profile, proc[p].endpoint)
    /\ ~ProtectedServer(proc[p].server, Accepting)

(* Two pushes write into one database only through different profiles.     *)
OneWriterPerProfile ==
  \A p, q \in Procs :
    p # q /\ {proc[p].pc, proc[q].pc} \subseteq Writing =>
      <<proc[p].profile, proc[p].database>> # <<proc[q].profile, proc[q].database>>

(* What a push has at hand at each of its labels; an authorized one does   *)
(* not aim at the database of its dump, and its import session is on the   *)
(* attested server.                                                        *)
Decided == {"authorized", "confirmed"} \cup Writing

Shape(s) ==
  /\ s.pc # "idle" => s.profile \in Profiles
  /\ s.pc \notin Choosing => s.endpoint \in Endpoints
  /\ s.pc \notin Choosing \cup {"verified"} => s.server \in Servers
  /\ s.pc \in {"loaded", "dumping"} => s.source \in Profiles \X Endpoints
  /\ s.pc = "dumping" => s.met \in Servers
  /\ s.pc \in Decided \cup {"artifact"} => s.dump \in Metadata
  /\ s.pc \in Decided =>
       /\ s.database \in Databases
       /\ s.server = s.dump.server => s.database # s.dump.database
  /\ s.pc = "importing" => s.session = s.server

ProcessShape == \A p \in Procs : Shape(proc[p])

(* Who writes holds the lock of its destination, and holds it alone.       *)
LocksHeld ==
  \A p \in Procs : proc[p].pc \in Writing =>
    <<proc[p].profile, proc[p].database, p>> \in locked

LocksExclusive ==
  \A k, l \in locked : k[1] = l[1] /\ k[2] = l[2] => k = l

(* The invariant the theorems of PushProofs rest on.                       *)
InductiveInvariant == TypeOK /\ ProcessShape /\ LocksHeld /\ LocksExclusive

(* What a push that is not outdated may rely on at each label: the profile *)
(* it found eligible still is; those verify found accepting still accept;  *)
(* from the guard on no dump but the one at hand shows a protected owner   *)
(* of the server; and from the confirmation on the destination accepts.    *)
ViewFits(p) ==
  LET s == proc[p]
  IN ~s.outdated =>
       /\ s.pc \notin Choosing =>
            /\ s.profile \in DOMAIN config
            /\ ~config[s.profile].production
            /\ config[s.profile].push \/ s.consented
            /\ ~ProtectedEndpoint(s.profile, s.endpoint)
       /\ s.pc \in {"verified", "probed"} => s.accepting \subseteq Accepting
       /\ s.pc \in {"guarded", "loaded", "dumping"} \cup Decided =>
            ~ProtectedServer(s.server, Accepting)
       /\ s.pc = "artifact" =>
            \A m \in cached :
              m.server = s.server /\ m.profile \notin Accepting => m = s.dump
       /\ s.pc \in {"confirmed"} \cup Writing => AcceptsPush(s.profile)

ViewsFit == \A p \in Procs : ViewFits(p)
=============================================================================
