------------------------------- MODULE Doctor -------------------------------
(***************************************************************************)
(* `reprodb doctor` (doctor_service.rs, doctor_inspector.rs,               *)
(* filesystem.rs): eleven checks, some of which need others, made one      *)
(* after the other in a world that others change meanwhile.                *)
(***************************************************************************)
EXTENDS MysqlClient

CONSTANTS
  Changing,    \* the faults that come and go while reprodb runs
  MaxChanges   \* how often one does

ASSUME ChangingAssumption == Changing \subseteq AllFaults
ASSUME MaxChangesAssumption == MaxChanges \in Nat

VARIABLES
  doctor,   \* where doctor is, the configuration it loaded, and its report
  changes   \* how often the world has changed

Kinds ==
  {"Configuration", "Credential", "Dependency", "SourceConnection", "Docker",
   "Filesystem"}

(* DoctorStatus; a check that failed has its kind. "none": not in the      *)
(* report.                                                                 *)
Status == {"none", "passed", "warning", "skipped"} \cup Kinds

(* The labels, section by section, each section in the order of its checks *)
(* (first_failure_kind).                                                   *)
Order ==
  <<"configuration", "cache filesystem", "Docker", "Docker context identity",
    "active profile", "source credential", "source connection", "source TLS",
    "local target configuration", "target credential",
    "target container identity", "target connection">>

Labels == {Order[i] : i \in DOMAIN Order}

NoReport == [l \in Labels |-> "none"]
NoDoctor == [pc |-> "idle", view |-> {}, report |-> NoReport, steady |-> TRUE]

At(label) == doctor.pc = label
Passed(label) == doctor.report[label] = "passed"

(* first_failure_kind: "ok" for a report without a failure. *)
FirstFailureKind(report) ==
  First([i \in DOMAIN Order |->
           IF report[Order[i]] \in Kinds THEN report[Order[i]] ELSE "ok"])

(* The checks that failed. *)
Failures(report) == {l \in Labels : report[l] \in Kinds}

-----------------------------------------------------------------------------
(* The configuration, as a load sees it.                                   *)

Unreadable(w) == Bad(w, "config", "unreadable")
Empty(w) == Bad(w, "config", "absent")

HasProfile(v) == ~Empty(v) /\ ~Bad(v, "source", "none")
HasTarget(v) == ~Empty(v) /\ ~Bad(v, "target", "none")
HasContext(v) == ~Empty(v) /\ ~Bad(v, "config", "no context")

(* ConfigRepository::load saves what it migrates, if it can. *)
Migrations(w) ==
  IF Unreadable(w) THEN {w} ELSE {w, w \ {<<"config", "old schema">>}}

-----------------------------------------------------------------------------
(* DoctorService::run.                                                     *)

(* passed, warning, failed and skipped append a check. *)
Report(pc, label, status) ==
  doctor' = [doctor EXCEPT !.pc = pc, !.report[label] = status]

(* The configuration, the disk, the active profile, the default target. *)
DoctorLoad ==
  LET read == ~Unreadable(world)
      checked(present) == IF read /\ present THEN "passed" ELSE "Configuration"
  IN /\ At("load")
     /\ world' \in Migrations(world)
     /\ doctor' =
          [doctor EXCEPT !.pc = "credentials", !.view = world', !.report =
             [NoReport EXCEPT
                !["configuration"] = IF ~read THEN "Configuration"
                                     ELSE IF Empty(world) THEN "warning"
                                     ELSE "passed",
                !["cache filesystem"] =
                  IF Bad(world, "disk", "low") THEN "Filesystem" ELSE "passed",
                !["active profile"] = checked(HasProfile(world)),
                !["local target configuration"] = checked(HasTarget(world))]]
     /\ UNCHANGED changes

(* Mutant: a credential that is missing leaves the check out. *)
Credential_Skipped(entry, part) ==
  IF ~Passed(entry) \/ Bad(world, part, "no key") THEN "skipped" ELSE "passed"

(* Credential(entry, part): skipped without the entry that refers to it. *)
Credential(entry, part) ==
  IF ~Passed(entry) THEN "skipped"
  ELSE IF Bad(world, part, "no key") THEN "Credential" ELSE "passed"

DoctorCredentials ==
  /\ At("credentials")
  /\ doctor' =
       [doctor EXCEPT
          !.pc = "inspect",
          !.report["source credential"] = Credential("active profile", "source"),
          !.report["target credential"] =
             Credential("local target configuration", "target")]
  /\ UNCHANGED <<world, changes>>

(* DockerCliDoctorInspector::inspect. *)
Inspected(w) == Discover(w) = "ok"

(* Mutant: any local context will do. *)
ContextMatches_Any(v, w) == TRUE

(* The context it found is the configured one, if one is. *)
ContextMatches(v, w) == HasContext(v) => ~Bad(w, "docker", "other context")

(* docker_context_matches; whether the target is the one that was set up.  *)
DockerReady(v, w) == ~Unreadable(v) /\ Inspected(w) /\ ContextMatches(v, w)

Identity(w) ==
  IF ~Passed("local target configuration") THEN "none"
  ELSE IF ~DockerReady(doctor.view, w) THEN "skipped"
  ELSE IF ~Exact(w) \/ Bad(w, "target", "stopped") THEN "Docker" ELSE "passed"

DoctorInspect ==
  LET mismatch == /\ ~Unreadable(doctor.view)
                  /\ Inspected(world)
                  /\ ~ContextMatches(doctor.view, world)
  IN /\ At("inspect")
     /\ doctor' =
          [doctor EXCEPT
             !.pc = "source",
             !.report["Docker"] = IF Inspected(world) THEN "passed" ELSE "Docker",
             !.report["Docker context identity"] = IF mismatch THEN "Docker" ELSE "none",
             !.report["target container identity"] = Identity(world)]
     /\ UNCHANGED <<world, changes>>

(* source_connection_failure. *)
SourceFailureKind(e) ==
  CASE e = "DockerUnavailable" -> "Docker"
    [] e \in {"ClientUnavailable", "UnsupportedServerSeries"} -> "Dependency"
    [] OTHER -> "SourceConnection"

(* Mutant: the series of the profile is not compared. *)
SourceConnection_AnySeries(w) ==
  LET e == VerifySource(w, FALSE)
  IN IF e # "ok" THEN SourceFailureKind(e)
     ELSE IF Encrypted(w, "source") THEN "passed"
     ELSE IF Bad(w, "source", "production") THEN "SourceConnection"
     ELSE "warning"

(* check_source_connection. A profile that is production always verifies.  *)
SourceConnection(w) ==
  LET e == VerifySource(w, FALSE)
  IN IF e # "ok" THEN SourceFailureKind(e)
     ELSE IF Reported(w, "source") # Configured(w, "source") THEN "Dependency"
     ELSE IF Encrypted(w, "source") THEN "passed"
     ELSE IF Bad(w, "source", "production") THEN "SourceConnection"
     ELSE "warning"

DoctorSource ==
  LET ready == /\ Passed("source credential")
               /\ Passed("Docker")
               /\ doctor.report["Docker context identity"] = "none"
      tls == VerifySource(world, FALSE) = "TlsRequiredButNotNegotiated"
  IN /\ At("source")
     /\ IF ~ready THEN Report("target", "source connection", "skipped")
        ELSE IF tls THEN Report("target", "source TLS", "SourceConnection")
        ELSE Report("target", "source connection", SourceConnection(world))
     /\ UNCHANGED <<world, changes>>

(* target_connection_failure. *)
TargetFailureKind(e) ==
  CASE e \in {"ClientUnavailable", "UnsupportedServerSeries"} -> "Dependency"
    [] e = "AuthenticationFailed" -> "Credential"
    [] OTHER -> "Docker"

(* check_target_connection. The client is that of the series reported.     *)
TargetConnection(w) ==
  LET e == VerifyTarget(w, FALSE)
  IN IF e # "ok" THEN TargetFailureKind(e)
     ELSE IF Encrypted(w, "target") THEN "passed"
     ELSE "Docker"

DoctorTarget ==
  LET ready == Passed("target credential") /\ Passed("target container identity")
  IN /\ At("target")
     /\ Report("done", "target connection",
          IF ready THEN TargetConnection(world) ELSE "skipped")
     /\ UNCHANGED <<world, changes>>

DoctorStep ==
  \/ DoctorLoad
  \/ DoctorCredentials
  \/ DoctorInspect
  \/ DoctorSource
  \/ DoctorTarget

(* A fault appears or goes: nothing that was found out is sure any more. *)
Change ==
  /\ changes < MaxChanges
  /\ changes' = changes + 1
  /\ \E f \in Changing :
       world' = IF f \in world THEN world \ {f} ELSE world \cup {f}
  /\ doctor' = [doctor EXCEPT !.steady = FALSE]

-----------------------------------------------------------------------------
(* Properties of doctor.                                                   *)

DoctorTypeOK ==
  /\ world \subseteq AllFaults \cup AllTraits
  /\ changes \in 0 .. MaxChanges
  /\ doctor \in [pc: {"idle", "load", "credentials", "inspect", "source",
                     "target", "done"},
                 view: SUBSET (AllFaults \cup AllTraits),
                 report: [Labels -> Status],
                 steady: BOOLEAN]

(* What a check needs, as its message says when it is skipped. *)
Needs(label) ==
  CASE label = "source credential" -> {"active profile"}
    [] label = "target credential" -> {"local target configuration"}
    [] label = "target container identity" ->
         {"Docker", "Docker context identity"}
    [] label = "source connection" ->
         {"active profile", "source credential", "Docker",
          "Docker context identity"}
    [] label = "target connection" ->
         {"local target configuration", "target credential", "Docker",
          "Docker context identity", "target container identity"}
    [] OTHER -> {}

(* A check is skipped only if one that it needs has failed, so that the    *)
(* report of a doctor that ends with 0 leaves nothing unchecked: however   *)
(* the configuration, the credentials and Docker change between the checks *)
(* ("nao executado porque uma dependencia anterior falhou", docs/doctor.md *)
(* line 31).                                                               *)
SkippedForAReason ==
  \A l \in Labels :
    doctor.report[l] = "skipped" => Needs(l) \cap Failures(doctor.report) # {}

(* The faults each check is there for. *)
ImageFaults(w, part) ==
  {Discovery, Reported(w, part)} \X {"missing", "wrong digest"}

ConnectionFaults(w, part) ==
  ({part} \X {"unreachable", "rejects", "busy", "unsupported", "mariadb",
              "moved", "warming"})
  \cup (IF RequiresTls(w, part) THEN {<<part, "no TLS">>} ELSE {})
  \cup {<<"disk", "no temporary file">>}
  \cup ImageFaults(w, part)

Causes(w, label) ==
  CASE label = "configuration" -> {<<"config", "unreadable">>}
    [] label = "cache filesystem" -> {<<"disk", "low">>}
    [] label = "active profile" ->
         {<<"config", "unreadable">>, <<"config", "absent">>, <<"source", "none">>}
    [] label = "local target configuration" ->
         {<<"config", "unreadable">>, <<"config", "absent">>, <<"target", "none">>}
    [] label = "source credential" -> {<<"source", "no key">>}
    [] label = "target credential" -> {<<"target", "no key">>}
    [] label = "Docker" -> {"docker"} \X {"missing", "down", "remote", "odd container"}
    [] label = "Docker context identity" -> {<<"docker", "other context">>}
    [] label = "target container identity" ->
         {<<"target", "stopped">>, <<"target", "recreated">>}
    [] label = "source connection" ->
         ConnectionFaults(w, "source") \cup
         (IF Bad(w, "source", "production")
          THEN {<<"source", "hides cipher">>, <<"source", "untrusted">>} ELSE {})
    [] label = "target connection" ->
         ConnectionFaults(w, "target") \cup {<<"target", "hides cipher">>}
    [] OTHER -> {}

(* A connection that fails for its TLS is reported under a label of its    *)
(* own.                                                                    *)
Result(label) ==
  IF label = "source connection" /\ doctor.report["source TLS"] # "none"
  THEN doctor.report["source TLS"] ELSE doctor.report[label]

(* In a world that does not change, a check fails only for a fault it is   *)
(* there for, and whatever else is wrong no such fault is passed over: a   *)
(* check that does not fail then was skipped, or has nothing to look at    *)
(* ("o comando agrega os resultados", docs/doctor.md line 3).              *)
ReportIsExact ==
  At("done") /\ doctor.steady =>
    \A l \in Labels :
      LET there == Causes(world, l) \cap world # {}
      IN /\ doctor.report[l] \in Kinds /\ l # "source TLS" => there
         /\ there => Result(l) \in Kinds \cup {"skipped", "none"}
=============================================================================
