----------------------------- MODULE ExitCodes -----------------------------
(***************************************************************************)
(* What an error becomes for the script that ran reprodb (error.rs).  An   *)
(* error is a pair: the layer it comes from, the innermost one of those    *)
(* that wrap it, and its name there.                                       *)
(***************************************************************************)
EXTENDS Naturals

Ok == <<"none", "ok">>

ExitCode ==
  [General |-> 1, Usage |-> 2, Configuration |-> 10, Credential |-> 11,
   Dependency |-> 20, SourceConnection |-> 30, Dump |-> 40, Cache |-> 50,
   Docker |-> 60, Restore |-> 70, Interrupted |-> 130]

Categories == DOMAIN ExitCode

-----------------------------------------------------------------------------
(* The errors of each layer that a run can end with, under the names of    *)
(* the code; the one that wraps an error of another layer is left out.     *)

ReadErrors ==
  {"ClientUnavailable", "SourceUnavailable", "AuthenticationFailed",
   "SchemaUnavailable", "InvalidMetadata"}
CatalogErrors == ReadErrors \cup {"Config", "NoActiveProfile", "Credential"}

SourceErrors ==
  {"DockerUnavailable", "ClientUnavailable", "NetworkUnavailable",
   "AuthenticationFailed", "InvalidMetadata", "TlsRequiredButNotNegotiated",
   "UnsupportedServerSeries"}
ProfileErrors ==
  SourceErrors \cup {"Config", "NotFound", "AlreadyExists", "InvalidField"}

TargetErrors ==
  {"ClientUnavailable", "ConnectionUnavailable", "AuthenticationFailed",
   "InvalidMetadata", "UnsupportedServerSeries"}
DiscoveryErrors ==
  {"Process", "DockerUnavailable", "RemoteContext", "InvalidMetadata"}
SetupErrors == TargetErrors \cup {"Config", "NoCandidates", "InvalidField"}

PolicyErrors ==
  {"UnsupportedVendor", "UnsupportedServerSeries", "ClientServerSeriesMismatch",
   "NonTransactionalTables", "DefinerObjectsUnsupported", "ViewsUnsupported"}
DumpFailures ==
  {"Interrupted", "Start", "Authentication", "SourceUnavailable",
   "DockerUnavailable", "Unknown"}
DumpErrors ==
  PolicyErrors \cup DumpFailures \cup
  {"Config", "NoActiveProfile", "DockerContextMissing", "Credential", "Lock",
   "InvalidMetadata", "TlsRequiredButNotNegotiated"}

EngineErrors == {"VersionMismatch", "Lock"}
RestoreErrors == EngineErrors \cup {"Artifact", "NoCandidates", "Unavailable"}
AttestationErrors ==
  {"DockerUnavailable", "RemoteContext", "ContextChanged", "ContainerNotFound",
   "ContainerNotRunning", "ClientUnavailable", "AuthenticationFailed",
   "ConnectionUnavailable", "InvalidMetadata"}
LocalTargetErrors ==
  AttestationErrors \cup
  {"Config", "NotConfigured", "RuntimeContextMissing", "Credential",
   "UnsupportedVendor"}
ExecutorErrors ==
  {"Interrupted", "OptionFile", "Start", "Authentication", "TargetUnavailable",
   "DockerUnavailable", "Unknown"}

PullErrors ==
  {"Config", "NoActiveProfile", "DatabaseSelection", "TargetSelection"}

PushErrors ==
  {"NoEligibleProfile", "Unavailable", "UnknownDump", "Artifact", "Lock"}
RemoteTargetErrors ==
  {"Config", "DockerContextMissing", "Credential", "TlsRequiredButNotNegotiated",
   "UnsupportedVendor", "UnsupportedServerSeries"}
RemoteErrors ==
  {"Interrupted", "OptionFile", "Start", "Authentication",
   "DestinationUnavailable", "DockerUnavailable", "Unknown"}

PromptErrors ==
  {"Unavailable", "IncompleteNonInteractive", "NonInteractiveTargetNotRunning"}

-----------------------------------------------------------------------------
(* The category of each.                                                   *)

(* Mutant: whatever a client reports is taken for the connection. *)
ClientCategory_Connection(e) ==
  CASE e \in {"Process", "DockerUnavailable"} -> "Docker"
    [] e = "OptionFile" -> "Credential"
    [] OTHER -> "SourceConnection"

(* docker_client_error_category: `dump` and `push` pass it through. *)
ClientCategory(e) ==
  CASE e \in {"ImageUnavailable", "ImagePullFailed", "ImageDigestMismatch"}
         -> "Dependency"
    [] e \in {"Process", "DockerUnavailable"} -> "Docker"
    [] e = "OptionFile" -> "Credential"
    [] OTHER -> "SourceConnection"

(* ProfileServiceError. *)
ProfileCategory(e) ==
  CASE e \in {"Config", "NotFound", "AlreadyExists"} -> "Configuration"
    [] e = "InvalidField" -> "Usage"
    [] e = "DockerUnavailable" -> "Docker"
    [] e \in {"ClientUnavailable", "UnsupportedServerSeries"} -> "Dependency"
    [] OTHER -> "SourceConnection"

(* SetupServiceError. *)
SetupCategory(e) ==
  CASE e = "Config" -> "Configuration"
    [] e = "InvalidField" -> "Usage"
    [] e \in {"ClientUnavailable", "UnsupportedServerSeries"} -> "Dependency"
    [] e = "AuthenticationFailed" -> "Credential"
    [] OTHER -> "Docker"

(* DatabaseCatalogServiceError, with DatabaseCatalogReadError. *)
CatalogCategory(e) ==
  CASE e \in {"Config", "NoActiveProfile"} -> "Configuration"
    [] e = "InvalidLimit" -> "Usage"
    [] e \in {"Credential", "AuthenticationFailed"} -> "Credential"
    [] e = "ClientUnavailable" -> "Dependency"
    [] OTHER -> "SourceConnection"

(* dump_error_category. *)
DumpCategory(e) ==
  CASE e \in {"Config", "NoActiveProfile", "DockerContextMissing"}
         -> "Configuration"
    [] e = "Credential"  -> "Credential"
    [] e = "Interrupted" -> "Interrupted"
    [] e \in {"Start", "DockerUnavailable"} -> "Docker"
    [] e \in {"Authentication", "SourceUnavailable"} -> "SourceConnection"
    [] e \in {"Lock", "Artifact", "Cleanup"} -> "Cache"
    [] OTHER -> "Dump"

(* restore_error_category, for what is not the target's or the executor's. *)
RestoreCategory(e) ==
  CASE e \in {"Artifact", "NoCandidates", "Lock"} -> "Cache"
    [] e = "Unavailable" -> "Usage"
    [] e = "VersionMismatch" -> "Dependency"
    [] OTHER -> "Restore"

(* local_target_error_category. *)
LocalTargetCategory(e) ==
  CASE e \in {"Config", "NotConfigured", "RuntimeContextMissing"}
         -> "Configuration"
    [] e \in {"Credential", "AuthenticationFailed"} -> "Credential"
    [] e \in {"ClientUnavailable", "UnsupportedVendor"} -> "Dependency"
    [] OTHER -> "Docker"

(* restore_executor_error_category and restore_failure_category. *)
ExecutorCategory(e) ==
  CASE e = "Interrupted" -> "Interrupted"
    [] e \in {"OptionFile", "Authentication"} -> "Credential"
    [] e \in {"Start", "TargetUnavailable", "DockerUnavailable"} -> "Docker"
    [] OTHER -> "Restore"

(* pull_error_category, for what is not the dump's or the restore's. *)
PullCategory(e) ==
  IF e \in {"Config", "NoActiveProfile"} THEN "Configuration" ELSE "Usage"

(* push_error_category, for what is not the dump's or the destination's. *)
PushCategory(e) ==
  CASE e = "NoEligibleProfile" -> "Configuration"
    [] e \in {"Unavailable", "UnknownDump"} -> "Usage"
    [] e \in {"Artifact", "Lock"} -> "Cache"
    [] OTHER -> "Restore"

(* remote_target_error_category. *)
RemoteTargetCategory(e) ==
  CASE e \in {"Config", "DockerContextMissing"} -> "Configuration"
    [] e = "Credential" -> "Credential"
    [] e \in {"UnsupportedVendor", "UnsupportedServerSeries"} -> "Dependency"
    [] e = "TlsRequiredButNotNegotiated" -> "SourceConnection"
    [] OTHER -> "Restore"

(* remote_failure_category. *)
RemoteFailureCategory(e) ==
  CASE e = "Interrupted" -> "Interrupted"
    [] e \in {"OptionFile", "Authentication"} -> "Credential"
    [] e = "DestinationUnavailable" -> "SourceConnection"
    [] e \in {"Start", "DockerUnavailable"} -> "Docker"
    [] OTHER -> "Restore"

(* AppError::category; a failure of doctor has its kind for a name. *)
Category(why) ==
  CASE why[1] = "client"        -> ClientCategory(why[2])
    [] why[1] = "profile"       -> ProfileCategory(why[2])
    [] why[1] = "setup"         -> SetupCategory(why[2])
    [] why[1] = "discovery"     -> "Docker"
    [] why[1] = "catalog"       -> CatalogCategory(why[2])
    [] why[1] = "dump"          -> DumpCategory(why[2])
    [] why[1] = "restore"       -> RestoreCategory(why[2])
    [] why[1] = "local target"  -> LocalTargetCategory(why[2])
    [] why[1] = "executor"      -> ExecutorCategory(why[2])
    [] why[1] = "pull"          -> PullCategory(why[2])
    [] why[1] = "push"          -> PushCategory(why[2])
    [] why[1] = "remote target" -> RemoteTargetCategory(why[2])
    [] why[1] = "remote"        -> RemoteFailureCategory(why[2])
    [] why[1] = "cache"         -> "Cache"
    [] why[1] = "doctor"        -> IF why[2] = "Filesystem" THEN "Cache"
                                   ELSE why[2]
    [] why[1] \in {"value", "prompt", "prune"} -> "Usage"
=============================================================================
