---------------------------- MODULE CommandLine ----------------------------
(***************************************************************************)
(* The commands, from their arguments to the exit code (main.rs, lib.rs,   *)
(* cli/, and the services in the order in which each command calls them).  *)
(* A run asks the world through MysqlClient step by step; between two      *)
(* steps the world may change and the user press Ctrl+C.  What the steps   *)
(* of a dump, a restore and a push do inside is the subject of the other   *)
(* modules: here they succeed or fail, in this order, with this error.     *)
(***************************************************************************)
EXTENDS Doctor, ExitCodes

CONSTANTS
  Scripts,        \* the command lines run one after the other: [name, flags, tty]
  MaxInterrupts   \* how often the user presses Ctrl+C

Streams == {"in", "out", "err"}       \* those that are a terminal
Terminal == Streams

(* Commands: --target, --database, --profile and --dump-id name things that *)
(* exist; "bad" is an argument that a value object refuses; "complete" is  *)
(* all that --non-interactive asks for, "fresh" is --fresh.                *)
Options ==
  [preview       |-> {},
   list          |-> {"bad"},
   dump          |-> {"bad"},
   restore       |-> {"bad", "dump id"},
   pull          |-> {"bad", "named", "fresh"},
   push          |-> {"bad", "yes", "profile", "fresh", "dump id", "downgrade"},
   setup         |-> {"reset", "non-interactive", "complete", "yes"},
   add           |-> {"bad", "taken", "non-interactive", "complete"},
   remove        |-> {"bad", "yes"},
   prune         |-> {"bad", "yes"},
   doctor        |-> {}]

Names == DOMAIN Options

(* clap's conflicts_with and requires. *)
Parses(line) ==
  /\ line.name \in Names
  /\ line.flags \subseteq Options[line.name]
  /\ line.tty \subseteq Streams
  /\ ~({"fresh", "dump id"} \subseteq line.flags)
  /\ line.name \in {"setup", "add"} /\ {"complete", "yes"} \cap line.flags # {}
       => "non-interactive" \in line.flags

(* What clap accepts. *)
Lines ==
  {line \in [name: Names, flags: SUBSET UNION {Options[n] : n \in Names},
             tty: SUBSET Streams] : Parses(line)}

ASSUME ScriptsAssumption == Scripts \subseteq Seq(Lines)
ASSUME MaxInterruptsAssumption == MaxInterrupts \in Nat

VARIABLES
  run,          \* the command that runs, or the last one that ran
  script,       \* the command lines to come
  interrupts,   \* how often Ctrl+C was pressed
  repaired      \* history: what a setup or profile add has just verified

vars == <<world, doctor, changes, run, script, interrupts, repaired>>

(* What a run may leave behind. *)
Effects ==
  {"configuration reset", "container started", "target saved", "profile saved",
   "profile removed", "image pulled", "dump created", "database dropped",
   "database imported", "push allowed", "remote created", "remote imported",
   "dumps pruned"}

Destructive ==
  {"database dropped", "database imported", "remote created", "remote imported"}

(* The service calls, in the order of the commands. *)
Stages ==
  {"idle", "ended",
   "catalog", "read",                                        \* database list
   "create", "assess", "export", "publish",                  \* dump
   "choose", "validate", "gate", "attest", "engine",
   "recreate", "import",                                     \* restore
   "select", "look up", "database",                          \* pull
   "eligible", "consent", "destination", "choice", "artifact", "downgrade",
   "confirm", "lock", "ensure", "write",                     \* push
   "reset", "discover", "start", "replace", "configure",     \* setup
   "available", "collect", "add",                            \* profile add
   "ask", "remove",                                          \* profile remove
   "plan", "agree", "prune",                                 \* cache prune
   "doctor"}

NoLine == [name |-> "preview", flags |-> {}, tty |-> Terminal]

NoRun == [pc |-> "idle", line |-> NoLine, why |-> Ok, done |-> {},
          steady |-> TRUE, interrupted |-> FALSE]

(* What AppError wraps: the layers, each with its errors. *)
Errors ==
  ({"client"} \X ClientErrors) \cup ({"profile"} \X ProfileErrors)
  \cup ({"setup"} \X SetupErrors) \cup ({"discovery"} \X DiscoveryErrors)
  \cup ({"catalog"} \X CatalogErrors) \cup ({"dump"} \X DumpErrors)
  \cup ({"restore"} \X RestoreErrors) \cup ({"local target"} \X LocalTargetErrors)
  \cup ({"executor"} \X ExecutorErrors) \cup ({"pull"} \X PullErrors)
  \cup ({"push"} \X PushErrors) \cup ({"remote target"} \X RemoteTargetErrors)
  \cup ({"remote"} \X RemoteErrors) \cup ({"doctor"} \X Kinds)
  \cup ({"prompt"} \X PromptErrors)
  \cup {<<"value", "invalid">>, <<"prune", "NonInteractivePrune">>}

TypeOK ==
  /\ DoctorTypeOK
  /\ run.pc \in Stages /\ Parses(run.line)
  /\ run.done \subseteq Effects
  /\ run.steady \in BOOLEAN /\ run.interrupted \in BOOLEAN
  /\ run.why = Ok \/ (run.why \in Errors /\ Category(run.why) \in Categories)
  /\ interrupts \in 0 .. MaxInterrupts
  /\ repaired \in {"nothing", "source", "target", "container"}

Init ==
  /\ WorldInit
  /\ doctor = NoDoctor
  /\ changes = 0
  /\ run = NoRun
  /\ script \in Scripts
  /\ interrupts = 0
  /\ repaired = "nothing"

-----------------------------------------------------------------------------
(* A step of a run.                                                        *)

Running(stage) == run.pc = stage
Flag(f) == f \in run.line.flags

End(why) == run' = [run EXCEPT !.pc = "ended", !.why = why]

(* The step fails with an error of its layer, or the run goes on. *)
Try(layer, error, next) ==
  IF error = "ok" THEN run' = [run EXCEPT !.pc = next]
  ELSE End(<<layer, error>>)

(* ... and leaves something behind. *)
Leave(effects, next) ==
  run' = [run EXCEPT !.pc = next, !.done = @ \cup effects,
                     !.why = IF next = "ended" THEN Ok ELSE @]

Quietly == UNCHANGED <<doctor, changes, script, interrupts, repaired>>

(* ConfigRepository::load, and what is asked of the configuration then. *)
Load == When(Unreadable(world), "Config")

(* AnyConfiguration: a step that loads may save what the load migrates. *)
Loading(layer, errors, next) ==
  /\ Try(layer, First(<<Load>> \o errors), next)
  /\ world' \in Migrations(world)
  /\ Quietly

Looking(layer, errors, next) ==
  /\ Try(layer, First(errors), next)
  /\ UNCHANGED world
  /\ Quietly

(* is_interactive; the selectors of pull look at stdout instead. *)
Interactive == {"in", "err"} \subseteq run.line.tty
PullInteractive == {"in", "out"} \subseteq run.line.tty

(* dialoguer draws on stderr, and refuses to when that is no terminal. *)
Prompt == When("err" \notin run.line.tty, "Unavailable")

-----------------------------------------------------------------------------
(* database list.                                                          *)

(* DatabaseCatalogService::list. *)
ListDatabases ==
  /\ Running("catalog")
  /\ Loading("catalog",
       <<When(~HasProfile(world) \/ ~HasContext(world), "NoActiveProfile"),
         When(Bad(world, "source", "no key"), "Credential")>>, "read")

ReadDatabases ==
  /\ Running("read")
  /\ Looking("catalog", <<ReadCatalog(world)>>, "ended")

-----------------------------------------------------------------------------
(* dump, also for `pull` on a miss and for `push --fresh`.                 *)

(* DumpService::create, up to the lock of the source. *)
CreateDump ==
  /\ Running("create")
  /\ Loading("dump",
       <<When(~HasProfile(world), "NoActiveProfile"),
         When(~HasContext(world), "DockerContextMissing"),
         When(Bad(world, "source", "no key"), "Credential"),
         When(Bad(world, "cache", "locked"), "Lock")>>, "assess")

(* The preflight, and the policy. *)
Assess ==
  LET e == AssessSource(world)
  IN /\ Running("assess")
     /\ IF e \in ClientErrors THEN Looking("client", <<e>>, "export")
        ELSE Looking("dump", <<e, DumpPolicy(world)>>, "export")

(* classify_failure of the dump executor. *)
DumpFailure(e) ==
  CASE e = "ok" -> "ok"
    [] e = "AuthenticationFailed"     -> "Authentication"
    [] e = "SourceNetworkUnavailable" -> "SourceUnavailable"
    [] OTHER -> "Unknown"

(* DockerMysqlDumpExecutor::execute. *)
Export ==
  /\ Running("export")
  /\ IF OptionFile(world) # "ok" /\ ~run.interrupted
     THEN Looking("client", <<OptionFile(world)>>, "publish")
     ELSE Looking("dump",
       <<When(run.interrupted, "Interrupted"),
         When(Bad(world, "docker", "missing"), "Start"),
         When(Bad(world, "docker", "down"), "DockerUnavailable"),
         DumpFailure(Probe(world, "source"))>>, "publish")

(* stage.publish; then on with the command that wanted the dump. *)
Publish ==
  /\ Running("publish")
  /\ world' = world \ {<<"cache", "empty">>, <<"cache", "corrupt">>}
  /\ Leave({"dump created"},
           CASE run.line.name = "dump" -> "ended"
             [] run.line.name = "pull" -> "database"
             [] run.line.name = "push" -> "artifact")
  /\ Quietly

-----------------------------------------------------------------------------
(* restore, also for `pull`.                                               *)

(* dump_choices lists what has metadata; CliRestoreDumpSelector::select. *)
ChooseDump ==
  /\ Running("choose")
  /\ Looking("restore",
       <<When(Bad(world, "cache", "empty"), "NoCandidates"),
         When(~Interactive, "Unavailable"), Prompt>>, "validate")

(* validate_by_id. *)
Sound(w) == ~Bad(w, "cache", "empty") /\ ~Bad(w, "cache", "corrupt")

ValidateDump ==
  /\ Running("validate")
  /\ Looking("restore", <<When(~Sound(world), "Artifact")>>, "gate")

(* LocalTargetGate::verify_named, up to the credential. *)
LoadTarget ==
  /\ Running("gate")
  /\ Loading("local target",
       <<When(~HasTarget(world), "NotConfigured"),
         When(~HasContext(world), "RuntimeContextMissing"),
         When(Bad(world, "target", "no key"), "Credential")>>, "attest")

(* The attestation, and what the gate makes of it. *)
AttestTarget ==
  /\ Running("attest")
  /\ Looking("local target",
       <<Attest(world),
         When(Bad(world, "target", "other vendor"), "UnsupportedVendor")>>, "engine")

(* versions_are_restore_compatible, for a dump of the configured source. *)
Older(part) == Bad(world, part, "8.0") /\ ~Bad(world, "source", "8.0")

(* RestoreEngine::restore, up to the first statement. *)
StartRestore ==
  /\ Running("engine")
  /\ Looking("restore",
       <<When(Older("target"), "VersionMismatch"),
         When(Bad(world, "cache", "locked"), "Lock")>>, "recreate")

(* classify_failure of the restore executor. *)
RestoreFailure(e, unavailable) ==
  CASE e = "ok" -> "ok"
    [] e = "AuthenticationFailed"     -> "Authentication"
    [] e = "SourceNetworkUnavailable" -> unavailable
    [] OTHER -> "Unknown"

(* Mutant: the cancellation is only looked at while a client runs. *)
Execution_NotCancelled(part, unavailable) ==
  First(<<OptionFile(world),
          When(Bad(world, "docker", "missing"), "Start"),
          When(Bad(world, "docker", "down"), "DockerUnavailable"),
          RestoreFailure(Probe(world, part), unavailable)>>)

(* What an executor runs into, in this order. *)
Execution(part, unavailable) ==
  First(<<When(run.interrupted, "Interrupted"),
          OptionFile(world),
          When(Bad(world, "docker", "missing"), "Start"),
          When(Bad(world, "docker", "down"), "DockerUnavailable"),
          RestoreFailure(Probe(world, part), unavailable)>>)

(* The client fails while it is connected. *)
Begun(e) == e \in {"TargetUnavailable", "DestinationUnavailable", "Unknown"}

(* A statement or an import.  When its client fails the server may have    *)
(* done it, or a part of it.                                               *)
Execute(layer, e, effect, next) ==
  /\ \/ e = "ok" /\ Leave({effect}, next)
     \/ /\ e # "ok"
        /\ \E partly \in IF Begun(e) THEN {{}, {effect}} ELSE {{}} :
             run' = [run EXCEPT !.pc = "ended", !.why = <<layer, e>>,
                                !.done = @ \cup partly]
  /\ UNCHANGED world
  /\ Quietly

RecreateDatabase ==
  /\ Running("recreate")
  /\ Execute("executor", Execution("target", "TargetUnavailable"),
             "database dropped", "import")

ImportDump ==
  /\ Running("import")
  /\ Execute("executor", Execution("target", "TargetUnavailable"),
             "database imported", "ended")

-----------------------------------------------------------------------------
(* pull.                                                                   *)

(* CliPullTargetSelector::select prompts when there is a choice. *)
SelectTarget ==
  /\ Running("select")
  /\ Loading("pull",
       <<When(~HasProfile(world), "NoActiveProfile"),
         When(~HasTarget(world), "TargetSelection"),
         When(/\ ~Flag("named")
              /\ PullInteractive
              /\ Bad(world, "target", "second")
              /\ Prompt # "ok", "TargetSelection")>>, "look up")

(* lookup_by_database: a dump that is there may be stale. *)
LookUp ==
  /\ Running("look up")
  /\ \E next \in {"create"} \cup
                 IF Sound(world) /\ ~Flag("fresh") THEN {"database"} ELSE {} :
       Looking("pull", <<>>, next)

(* CliPullDatabaseSelector::select, after the dump. *)
SelectDatabase ==
  /\ Running("database")
  /\ Looking("pull",
       <<When(~Flag("named") /\ PullInteractive /\ Prompt # "ok",
              "DatabaseSelection")>>, "validate")

-----------------------------------------------------------------------------
(* push.                                                                   *)

(* A question that is answered, and what a "no" leads to. *)
Answer(next) == {next, "ended"}

(* eligible_profiles, and CliPushSelector::profile. *)
ChooseDestination ==
  /\ Running("eligible")
  /\ world' \in Migrations(world)
  /\ IF Load # "ok" THEN End(<<"remote target", Load>>)
     ELSE Try("push",
            First(<<When(Empty(world) \/ Bad(world, "destination", "none"),
                         "NoEligibleProfile"),
                    When(~Flag("yes") /\ ~Interactive, "Unavailable"),
                    When(~Flag("profile") /\ ~Interactive, "Unavailable")>>),
            IF Bad(world, "destination", "never allowed")
            THEN "consent" ELSE "destination")
  /\ Quietly

(* CliPushSelector::allow_push. *)
AskConsent ==
  /\ Running("consent")
  /\ \E next \in Answer("destination") :
       Looking("push", <<When(~Interactive, "Unavailable")>>, next)

(* RemoteTargetGate::verify. *)
VerifyDestination ==
  LET configured == First(<<Load,
                            When(~HasContext(world), "DockerContextMissing"),
                            When(Bad(world, "destination", "no key"), "Credential")>>)
      probed == ProbeDestination(world)
      accepted ==
        First(<<When(~Encrypted(world, "destination"), "TlsRequiredButNotNegotiated"),
                When(MariaDb(world, "destination"), "UnsupportedVendor"),
                When(Reported(world, "destination") # Configured(world, "destination"),
                     "UnsupportedServerSeries")>>)
  IN /\ Running("destination")
     /\ world' \in Migrations(world)
     /\ IF configured = "ok" /\ probed # "ok" THEN End(<<"client", probed>>)
        ELSE Try("remote target", First(<<configured, accepted>>), "choice")
     /\ Quietly

(* CliPushSelector::dump. *)
ChoosePushDump ==
  LET absent == Bad(world, "cache", "empty")
  IN /\ Running("choice")
     /\ \E next \in IF Flag("fresh") THEN {"create"}
                    ELSE IF Flag("dump id") THEN {"artifact"}
                    ELSE {"create"} \cup (IF absent THEN {} ELSE {"artifact"}) :
          Looking("push",
            <<When(Flag("dump id") /\ absent, "UnknownDump"),
              When(~Flag("fresh") /\ ~Flag("dump id") /\ ~Interactive,
                   "Unavailable")>>, next)

ValidatePushDump ==
  /\ Running("artifact")
  /\ Looking("push", <<When(~Sound(world), "Artifact")>>, "downgrade")

(* source_accepts_push, and CliPushSelector::accept_downgrade. *)
AskDowngrade ==
  LET asks == Older("destination") /\ ~Flag("downgrade")
  IN /\ Running("downgrade")
     /\ world' \in Migrations(world)
     /\ \E next \in IF asks THEN Answer("confirm") ELSE {"confirm"} :
          IF Load # "ok" THEN End(<<"remote target", Load>>)
          ELSE Try("push", When(asks /\ ~Interactive, "Unavailable"), next)
     /\ Quietly

(* CliPushSelector::confirm, then RemoteTargetGate::allow_push. *)
ConfirmPush ==
  LET consented == Bad(world, "destination", "never allowed")
  IN /\ Running("confirm")
     /\ \/ /\ ~Flag("yes")
           /\ Looking("push", <<When(~Interactive, "Unavailable")>>, "ended")
        \/ /\ Flag("yes") \/ Interactive
           /\ IF consented
              THEN /\ IF Load = "ok" THEN Leave({"push allowed"}, "lock")
                      ELSE End(<<"remote target", Load>>)
                   /\ world' = IF Load = "ok"
                               THEN world \ {<<"destination", "never allowed">>}
                               ELSE world
              ELSE run' = [run EXCEPT !.pc = "lock"] /\ UNCHANGED world
           /\ Quietly

LockDestination ==
  /\ Running("lock")
  /\ Looking("push", <<When(Bad(world, "cache", "locked"), "Lock")>>, "ensure")

(* DockerMysqlRemoteImportExecutor. *)
EnsureDatabase ==
  /\ Running("ensure")
  /\ Execute("remote", Execution("destination", "DestinationUnavailable"),
             "remote created", "write")

ImportRemote ==
  /\ Running("write")
  /\ Execute("remote", Execution("destination", "DestinationUnavailable"),
             "remote imported", "ended")

-----------------------------------------------------------------------------
(* setup.                                                                  *)

Nothing ==
  {<<"source", "none">>, <<"target", "none">>, <<"destination", "none">>,
   <<"config", "no context">>}

(* The document that is saved over none, or over an empty one. *)
Present(w) == IF Empty(w) THEN (w \ {<<"config", "absent">>}) \cup Nothing ELSE w

(* The first verification decides on the context. *)
WithContext(w) ==
  IF HasContext(w) THEN w
  ELSE w \ {<<"config", "no context">>, <<"docker", "other context">>}

(* ConfigRepository::reset. *)
ResetConfiguration ==
  /\ Running("reset")
  /\ world' = (world \ ({"config"} \X {"absent", "unreadable", "old schema"}))
              \cup Nothing
  /\ Leave({"configuration reset"}, "discover")
  /\ doctor' = [doctor EXCEPT !.steady = FALSE]
  /\ repaired' = "nothing"
  /\ UNCHANGED <<changes, script, interrupts>>

(* discover, and the selection of a candidate. *)
DiscoverTargets ==
  /\ Running("discover")
  /\ IF Discover(world) # "ok"
     THEN Looking("discovery", <<Discover(world)>>, "start")
     ELSE IF Bad(world, "docker", "no containers")
     THEN Looking("setup", <<"NoCandidates">>, "start")
     ELSE Looking("prompt",
            <<IF Flag("non-interactive")
              THEN When(~Flag("complete"), "IncompleteNonInteractive")
              ELSE Prompt>>, "start")

(* A stopped container is started, if the user wants it. *)
StartContainer ==
  LET stopped == Bad(world, "target", "stopped")
  IN /\ Running("start")
     /\ \/ /\ stopped
           /\ Looking("prompt",
                <<When(Flag("non-interactive"), "NonInteractiveTargetNotRunning"),
                  Prompt>>, "ended")
        \/ /\ stopped
           /\ ~Flag("non-interactive") /\ Prompt = "ok"
           /\ world' = world \ {<<"target", "stopped">>}
           /\ Leave({"container started"}, "replace")
           /\ doctor' = [doctor EXCEPT !.steady = FALSE]
           /\ UNCHANGED <<changes, script, interrupts, repaired>>
        \/ ~stopped /\ Looking("prompt", <<>>, "replace")

(* has_target_named, confirm_target_replacement, and the input. *)
ReplaceTarget ==
  /\ Running("replace")
  /\ world' \in Migrations(world)
  /\ \E next \in IF HasTarget(world) /\ ~Flag("non-interactive")
                 THEN Answer("configure") ELSE {"configure"} :
       IF Load # "ok" THEN End(<<"setup", Load>>)
       ELSE Try("prompt",
              First(<<IF Flag("non-interactive")
                      THEN When(HasTarget(world) /\ ~Flag("yes"),
                                "IncompleteNonInteractive")
                      ELSE Prompt>>), next)
  /\ Quietly

(* The password that is typed may be the right one. *)
Typed(part) == {world, world \ {<<part, "rejects">>}}

(* SetupService::configure, for the container as it was discovered. *)
ConfigureTarget ==
  /\ Running("configure")
  /\ \E typed \in Typed("target") :
       LET found == typed \ {<<"target", "recreated">>}
           e == First(<<Load,
                        When(/\ HasContext(world)
                             /\ Bad(world, "docker", "other context"),
                             "InvalidField"),
                        VerifyTarget(found, TRUE)>>)
           asked == e \notin {"Config", "InvalidField"}
           pulled == IF asked THEN PulledBy(Awaited(found), "target") ELSE {}
           saved == WithContext(Present(Awaited(found)))
                      \ {<<"target", "none">>, <<"target", "no key">>}
       IN /\ run' = [run EXCEPT
                       !.pc = "ended",
                       !.why = IF e = "ok" THEN Ok ELSE <<"setup", e>>,
                       !.done = @ \cup (IF pulled = {} THEN {} ELSE {"image pulled"})
                                  \cup (IF e = "ok" THEN {"target saved"} ELSE {})]
          /\ world' = (IF e = "ok" THEN saved ELSE world) \ pulled
          /\ doctor' = [doctor EXCEPT !.steady = FALSE]
          /\ repaired' = IF e # "ok" THEN repaired
                         ELSE IF run.steady THEN "target" ELSE "container"
  /\ UNCHANGED <<changes, script, interrupts>>

-----------------------------------------------------------------------------
(* profile add and remove.                                                 *)

(* ensure_name_available. *)
NameAvailable ==
  /\ Running("available")
  /\ Loading("profile", <<When(Flag("taken") /\ ~Empty(world), "AlreadyExists")>>,
             "collect")

(* collect_new_profile, collect_new_profile_non_interactive. *)
CollectProfile ==
  /\ Running("collect")
  /\ Looking("prompt",
       <<IF Flag("non-interactive")
         THEN When(~Flag("complete"), "IncompleteNonInteractive")
         ELSE Prompt>>, "add")

(* Mutant: the series of the profile that is replaced is kept. *)
Recorded_Kept(w) == w

(* The series is the one that was detected. *)
Recorded(w) ==
  LET series == {<<"source", "8.0">>}
  IN IF ~Bad(w, "source", "moved") THEN w
     ELSE IF Bad(w, "source", "8.0") THEN w \ ({<<"source", "moved">>} \cup series)
     ELSE (w \ {<<"source", "moved">>}) \cup series

(* ProfileService::add, which makes the profile the active one. *)
AddProfile ==
  /\ Running("add")
  /\ \E typed \in Typed("source") :
       LET verified == VerifySource(typed, TRUE)
           e == First(<<Load,
                        verified,
                        When(RequiresTls(typed, "source") /\ ~Encrypted(typed, "source"),
                             "TlsRequiredButNotNegotiated"),
                        When(/\ HasContext(world)
                             /\ Bad(world, "docker", "other context"),
                             "InvalidField")>>)
           pulled == IF Load = "ok" THEN PulledBy(typed, "source") ELSE {}
           saved == Recorded(WithContext(Present(typed)))
                      \ {<<"source", "none">>, <<"source", "no key">>}
       IN /\ run' = [run EXCEPT
                       !.pc = "ended",
                       !.why = IF e = "ok" THEN Ok ELSE <<"profile", e>>,
                       !.done = @ \cup (IF pulled = {} THEN {} ELSE {"image pulled"})
                                  \cup (IF e = "ok" THEN {"profile saved"} ELSE {})]
          /\ world' = (IF e = "ok" THEN saved ELSE world) \ pulled
          /\ doctor' = [doctor EXCEPT !.steady = FALSE]
          /\ repaired' = IF e = "ok" THEN "source" ELSE repaired
  /\ UNCHANGED <<changes, script, interrupts>>

(* confirm_profile_removal. *)
AskRemoval ==
  /\ Running("ask")
  /\ \E next \in IF Flag("yes") THEN {"remove"} ELSE Answer("remove") :
       Looking("prompt", <<IF Flag("yes") THEN "ok" ELSE Prompt>>, next)

(* ProfileService::remove, of the active profile. *)
RemoveProfile ==
  LET e == First(<<Load, When(~HasProfile(world), "NotFound")>>)
  IN /\ Running("remove")
     /\ IF e # "ok"
        THEN /\ End(<<"profile", e>>)
             /\ UNCHANGED <<world, doctor, repaired>>
        ELSE /\ Leave({"profile removed"}, "ended")
             /\ world' = (world \ {<<"source", "no key">>})
                         \cup {<<"source", "none">>}
             /\ doctor' = [doctor EXCEPT !.steady = FALSE]
             /\ repaired' = IF repaired = "source" THEN "nothing" ELSE repaired
     /\ UNCHANGED <<changes, script, interrupts>>

-----------------------------------------------------------------------------
(* cache prune.                                                            *)

(* Mutant: the plan is carried out before the question. *)
PlanPrune_Eager ==
  /\ Running("plan")
  /\ Leave({"dumps pruned"}, "agree")
  /\ UNCHANGED world
  /\ Quietly

(* plan_prune: nothing may be old enough. *)
PlanPrune ==
  /\ Running("plan")
  /\ \E next \in {"ended"} \cup
                 IF Bad(world, "cache", "empty") THEN {} ELSE {"agree"} :
       Looking("cache", <<>>, next)

AgreePrune ==
  /\ Running("agree")
  /\ \E next \in IF Flag("yes") THEN {"prune"} ELSE Answer("prune") :
       Looking("prune",
         <<IF Flag("yes") THEN "ok" ELSE When(~Interactive, "NonInteractivePrune")>>,
         next)

(* execute_prune skips what is leased; what goes may be all there was. *)
ExecutePrune ==
  /\ Running("prune")
  /\ world' \in {world, world \cup {<<"cache", "empty">>}}
  /\ Leave({"dumps pruned"}, "ended")
  /\ Quietly

-----------------------------------------------------------------------------
(* doctor, and the commands themselves.                                    *)

RunDoctor ==
  /\ Running("doctor")
  /\ DoctorStep
  /\ run' = IF doctor'.pc # "done" THEN run
            ELSE LET kind == FirstFailureKind(doctor'.report)
                 IN [run EXCEPT !.pc = "ended",
                                !.why = IF kind = "ok" THEN Ok ELSE <<"doctor", kind>>]
  /\ UNCHANGED <<script, interrupts, repaired>>

(* execute_with_cancellation: the first step of each command. *)
Entry(line) ==
  CASE line.name = "preview" -> "ended"
    [] line.name = "list"    -> "catalog"
    [] line.name = "dump"    -> "create"
    [] line.name = "restore" -> IF "dump id" \in line.flags THEN "validate" ELSE "choose"
    [] line.name = "pull"    -> "select"
    [] line.name = "push"    -> "eligible"
    [] line.name = "setup"   -> IF "reset" \in line.flags THEN "reset" ELSE "discover"
    [] line.name = "add"     -> "available"
    [] line.name = "remove"  -> "ask"
    [] line.name = "prune"   -> "plan"
    [] line.name = "doctor"  -> "doctor"

(* Arguments are checked before anything is loaded. *)
Start ==
  LET line == Head(script)
      bad == "bad" \in line.flags
  IN /\ run.pc \in {"idle", "ended"}
     /\ script # <<>>
     /\ script' = Tail(script)
     /\ run' = [NoRun EXCEPT !.line = line,
                             !.pc = IF bad THEN "ended" ELSE Entry(line),
                             !.why = IF bad THEN <<"value", "invalid">> ELSE Ok]
     /\ doctor' = IF line.name = "doctor" THEN [NoDoctor EXCEPT !.pc = "load"]
                  ELSE doctor
     /\ UNCHANGED <<world, changes, interrupts, repaired>>

(* supervise_execution: the token is cancelled, and the run awaited. *)
CtrlC ==
  /\ run.pc \notin {"idle", "ended"}
  /\ ~run.interrupted
  /\ interrupts < MaxInterrupts
  /\ interrupts' = interrupts + 1
  /\ run' = [run EXCEPT !.interrupted = TRUE]
  /\ UNCHANGED <<world, doctor, changes, script, repaired>>

Environment ==
  /\ Change
  /\ run' = [run EXCEPT !.steady = FALSE]
  /\ repaired' = "nothing"
  /\ UNCHANGED <<script, interrupts>>

Next ==
  \/ Start
  \/ CtrlC
  \/ Environment
  \/ ListDatabases \/ ReadDatabases
  \/ CreateDump \/ Assess \/ Export \/ Publish
  \/ ChooseDump \/ ValidateDump \/ LoadTarget \/ AttestTarget
  \/ StartRestore \/ RecreateDatabase \/ ImportDump
  \/ SelectTarget \/ LookUp \/ SelectDatabase
  \/ ChooseDestination \/ AskConsent \/ VerifyDestination
  \/ ChoosePushDump \/ ValidatePushDump \/ AskDowngrade \/ ConfirmPush
  \/ LockDestination \/ EnsureDatabase \/ ImportRemote
  \/ ResetConfiguration \/ DiscoverTargets \/ StartContainer
  \/ ReplaceTarget \/ ConfigureTarget
  \/ NameAvailable \/ CollectProfile \/ AddProfile
  \/ AskRemoval \/ RemoveProfile
  \/ PlanPrune \/ AgreePrune \/ ExecutePrune
  \/ RunDoctor

Spec == Init /\ [][Next]_vars

(* AppError::exit_code, as main returns it. *)
Exit ==
  IF run.interrupted THEN ExitCode["Interrupted"]
  ELSE IF run.why = Ok THEN 0 ELSE ExitCode[Category(run.why)]

-----------------------------------------------------------------------------
(* Properties.                                                             *)

Ended(names) == Running("ended") /\ run.line.name \in names

(* The last doctor looked at the world as it still is. *)
Diagnosed == At("done") /\ doctor.steady

(* What no check of doctor looks at. *)
NotLookedAt(w) ==
  \/ \E what \in Contents \cup {"no schema", "odd names"} : Bad(w, "source", what)
  \/ Bad(w, "target", "other vendor") \/ Older("target")
  \/ \E what \in {"empty", "corrupt", "locked"} : Bad(w, "cache", what)

(* Only a warning of doctor, though `dump` requires what is missing; a     *)
(* configuration that names no context passes every check.                 *)
OnlyWarned(w) ==
  \/ Bad(w, "source", "hides cipher") /\ RequiresTls(w, "source")
  \/ ~HasContext(w)

(* After a doctor without a failure, and as long as nothing changes, the   *)
(* commands find everything that doctor looked at in order: the services   *)
(* of list, dump and restore read the same world through code of their own *)
(* ("verifica se o ambiente esta pronto antes de um dump ou restore",      *)
(* docs/doctor.md line 3).                                                 *)
ReadyRunsThrough ==
  /\ Diagnosed /\ Failures(doctor.report) = {}
  /\ Ended({"list", "dump", "restore"}) /\ ~run.interrupted
  /\ ~NotLookedAt(world) /\ ~OnlyWarned(world)
  => run.why = Ok \/ Category(run.why) = "Usage"

(* What a pull does without. *)
Harmless(w) ==
  {"cache filesystem"} \cup
  (IF Bad(w, "target", "hides cipher") THEN {"target connection"} ELSE {})

(* A failure that doctor reports is one that a pull runs into: a whole     *)
(* pull, from dump to restore, does not succeed while it is there.         *)
AlarmIsReal ==
  /\ Diagnosed /\ Ended({"pull"}) /\ Flag("fresh") /\ run.why = Ok
  => Failures(doctor.report) \subseteq Harmless(world)

(* The checks of what a setup or a profile add has put right.  The         *)
(* verification of a container asks Docker, but not for its context, which *)
(* setup has looked at before it asked the user.                           *)
Section ==
  LET container == {"Docker context identity", "local target configuration",
                    "target credential", "target container identity",
                    "target connection"}
  IN [nothing   |-> {},
      source    |-> {"active profile", "source credential", "source connection",
                     "source TLS"},
      container |-> container,
      target    |-> container \cup {"Docker"}]

(* What setup or profile add has verified and saved is what doctor finds:  *)
(* its advice to run them is not in vain, and they accept nothing that it  *)
(* then refuses, but for a target that reports no cipher ("Run `reprodb    *)
(* setup`.", doctor_service.rs line 247).                                  *)
RepairsStick ==
  Diagnosed /\ ~Bad(world, "target", "hides cipher")
  => Failures(doctor.report) \cap Section[repaired] = {}

(* What a command has to be told to ask nothing: one of these sets of       *)
(* options.                                                                *)
Answers ==
  [preview |-> {{}}, list |-> {{}}, dump |-> {{}}, doctor |-> {{}},
   restore |-> {{"dump id"}},
   pull    |-> {{"named"}},
   push    |-> {{"yes", "profile", "downgrade", d} : d \in {"fresh", "dump id"}},
   setup   |-> {{"non-interactive", "complete", "yes"}},
   add     |-> {{"non-interactive", "complete"}},
   remove  |-> {{"yes"}},
   prune   |-> {{"yes"}}]

(* A line that leaves a question open though nobody can be asked.          *)
LeavesOpen(line) ==
  /\ "non-interactive" \in line.flags \/ ~({"in", "err"} \subseteq line.tty)
  /\ \A A \in Answers[line.name] : ~(A \subseteq line.flags)

(* The categories that a command line deserves on its own account.         *)
Own(line) ==
  {c \in {"Usage", "Configuration"} :
     \/ c = "Usage" /\ ("bad" \in line.flags \/ LeavesOpen(line))
     \/ c = "Configuration" /\ "taken" \in line.flags}

(* The category that docs/exit-codes.md gives each fault (lines 7 to 22).   *)
Documented(part, what) ==
  IF part \in {"cache", "disk"} THEN "Cache"
  ELSE IF part = "config" \/ what \in {"none", "never allowed"} THEN "Configuration"
  ELSE IF what = "no key" THEN "Credential"
  ELSE IF part \in Series THEN "Dependency"
  ELSE IF part = "docker" THEN "Docker"
  ELSE IF part = "target"
  THEN IF what = "rejects" THEN "Credential"
       ELSE IF what \in {"unsupported", "other vendor"} THEN "Dependency"
       ELSE "Docker"
  ELSE IF what \in Contents \cup {"mariadb", "moved", "unsupported", "hides cipher"}
  THEN IF part = "source" THEN "Dump"
       ELSE IF what = "hides cipher" THEN "SourceConnection" ELSE "Restore"
  ELSE "SourceConnection"

(* The categories that the code gives it: where a layer of its own error   *)
(* enum comes between, they are others.                                    *)
CategoriesOf(name, part, what) ==
  CASE what = "no temporary file" ->
         IF name \in {"list", "add"} THEN {"SourceConnection"}
         ELSE IF name = "doctor" THEN {"SourceConnection", "Docker"}
         ELSE IF name \in {"restore", "setup"} THEN {"Docker"}
         ELSE IF name = "pull" THEN {"Docker", "Credential"} ELSE {"Credential"}
    [] name = "list" /\ part = "source" /\ what = "rejects" -> {"Credential"}
    [] name = "list" /\ part = "docker" /\ what \in {"missing", "down"}
         -> {"SourceConnection"}
    [] name = "add" /\ part = "docker" /\ what = "missing" -> {"SourceConnection"}
    [] name \in {"add", "setup"} /\ part = "docker" /\ what = "other context"
         -> {"Usage"}
    [] name \in {"add", "doctor"} /\ part = "source" /\ what = "hides cipher"
         -> {"SourceConnection"}
    [] name \in {"add", "doctor"} /\ part = "source"
       /\ what \in {"mariadb", "moved", "unsupported"} -> {"Dependency"}
    [] part = "destination" /\ what \in {"mariadb", "moved", "unsupported"}
         -> {"Dependency"}
    [] part = "destination" /\ what = "never allowed" -> {"Usage"}
    [] name = "push" /\ part = "cache" /\ what = "empty" -> {"Cache", "Usage"}
    [] name = "pull" /\ part = "target" /\ what = "none" -> {"Configuration", "Usage"}
    [] name = "setup" /\ part = "target" /\ what = "stopped" -> {"Docker", "Usage"}
    [] OTHER -> {Documented(part, what)}

(* An uninterrupted run, in a world that it alone changes.                 *)
Undisturbed == Running("ended") /\ run.steady /\ ~run.interrupted

(* One fault, one code: whichever command runs into a fault, and through   *)
(* whichever of the services, clients and executors, the script that ran   *)
(* it gets success or the code of that fault, as documented ("o codigo da  *)
(* categoria deve permanecer estavel", docs/exit-codes.md line 3), unless  *)
(* its own line is at fault.  It does not hold.                            *)
DocumentedCode ==
  Undisturbed =>
    \A f \in world :
      world \cap AllFaults = {f} =>
        Exit \in {0} \cup {ExitCode[c] : c \in Own(run.line) \cup {Documented(f[1], f[2])}}

(* A command gives a fault the code that it always gives it, through       *)
(* whichever of the services, clients and executors it runs into it; code  *)
(* 2 comes of a line that is wrong or leaves a question open, or else of   *)
(* the faults of which it always does; and a dump that is newer than the   *)
(* container it is restored into is a lacking requirement (error.rs).      *)
OneFaultOneCode ==
  Undisturbed =>
    \A f \in world :
      world \cap AllFaults = {f} =>
        \/ Exit \in {0} \cup {ExitCode[c] : c \in Own(run.line)
                                              \cup CategoriesOf(run.line.name, f[1], f[2])}
        \/ /\ Older("target") /\ run.line.name \in {"restore", "pull"}
           /\ Exit = ExitCode["Dependency"]

(* A command line or a terminal that does not do is found out before       *)
(* anything is lost or granted, whatever the command has done until then:  *)
(* with exit code 2 no database and no profile has changed ("2: Argumentos *)
(* ou subcommands invalidos", docs/exit-codes.md line 9).                  *)
UsageErrorIsHarmless ==
  Running("ended") /\ Exit = ExitCode["Usage"] =>
    run.done \subseteq
      {"configuration reset", "container started", "image pulled", "dump created"}

(* Once Ctrl+C was pressed nothing destructive starts any more, although   *)
(* the gates and the questions that come before it still go on ("a CLI     *)
(* aguarda o cleanup dos processos e retorna 130", docs/exit-codes.md line *)
(* 45).                                                                    *)
InterruptedStartsNothing ==
  [][run.interrupted /\ run'.interrupted
     => run'.done \cap Destructive = run.done \cap Destructive]_vars

(* Doctor repairs nothing: whatever it finds, the world is as it was, but  *)
(* for a configuration of an old schema, which every load saves anew       *)
(* (docs/doctor.md line 21).                                               *)
DoctorRepairsNothing ==
  [][run.pc = "doctor" /\ changes' = changes
     => world' \in {world, world \ {<<"config", "old schema">>}}]_vars
=============================================================================
