---------------------------- MODULE MysqlClient ----------------------------
(***************************************************************************)
(* The approved clients and what they find out (client_catalog.rs,         *)
(* docker_client.rs, profile_verifier.rs, target_verifier.rs,              *)
(* local_target_attestor.rs, remote_target_probe.rs, dump_preflight.rs,    *)
(* database_catalog_reader.rs, container_discovery.rs).  Every command     *)
(* asks Docker and the servers through the operators of this module: each  *)
(* is one question, asked of the world w as it is then, and answers with   *)
(* an error of its layer or with "ok".                                     *)
(***************************************************************************)
EXTENDS Naturals, Sequences, FiniteSets

CONSTANTS
  Faults,     \* the faults the world may have: pairs <<part, what>>
  Traits,     \* the sets of traits a configuration may have
  MaxFaults   \* how many faults the world has at first

-----------------------------------------------------------------------------
(* The world.                                                              *)

Series == {"8.0", "8.4"}
Discovery == "8.4"            \* DISCOVERY_MYSQL_SERIES

(* What a client may meet at a server. *)
ServerFaults ==
  {"unreachable", "rejects", "busy", "no TLS", "hides cipher", "unsupported"}

(* What the database to be dumped may have that a dump does not accept. *)
Contents == {"odd metadata", "MyISAM", "definers", "views"}

AllFaults ==
  ({"source", "target", "destination"} \X (ServerFaults \cup {"none", "no key"}))
  \cup ({"source"} \X (Contents \cup
       {"untrusted", "moved", "mariadb", "no schema", "odd names"}))
  \cup ({"target"} \X {"stopped", "recreated", "warming", "other vendor"})
  \cup ({"destination"} \X {"moved", "mariadb", "never allowed"})
  \cup ({"config"} \X {"absent", "unreadable", "old schema", "no context"})
  \cup ({"docker"} \X {"missing", "down", "remote", "other context",
                             "no containers", "odd container"})
  \cup (Series \X {"missing", "wrong digest"})
  \cup ({"registry"} \X {"offline"})
  \cup ({"disk"} \X {"low", "no temporary file"})
  \cup ({"cache"} \X {"empty", "corrupt", "locked"})

AllTraits ==
  ({"source", "target", "destination"} \X {"8.0"})
  \cup {<<"source", "production">>, <<"source", "TLS optional">>,
         <<"target", "second">>}

ASSUME FaultsAssumption == Faults \subseteq AllFaults
(* SourceProfileConfig::validate: a production source verifies. *)
ASSUME TraitsAssumption ==
  /\ Traits \subseteq SUBSET AllTraits
  /\ \A t \in Traits :
       ~({<<"source", "production">>, <<"source", "TLS optional">>} \subseteq t)
ASSUME MaxFaultsAssumption == MaxFaults \in Nat

VARIABLE world   \* the faults that are there, and the traits

(* A few of the faults at once, on one of the configurations.              *)
WorldInit ==
  \E k \in 0 .. MaxFaults, traits \in Traits :
    \E faults \in [1 .. k -> Faults] :
      world = {faults[i] : i \in 1 .. k} \cup traits

Bad(w, part, what) == <<part, what>> \in w

When(condition, error) == IF condition THEN error ELSE "ok"

(* The first error of a sequence of questions, each asked after the ones   *)
(* before it were answered with "ok".                                      *)
First(answers) ==
  LET failed == {i \in DOMAIN answers : answers[i] # "ok"}
  IN IF failed = {} THEN "ok"
     ELSE answers[CHOOSE i \in failed : \A j \in failed : i <= j]

-----------------------------------------------------------------------------
(* ClientCatalog.                                                          *)

Other(series) == CHOOSE s \in Series : s # series

(* mysql_series, as the profile was added. *)
Configured(w, part) == IF Bad(w, part, "8.0") THEN "8.0" ELSE "8.4"

(* The series the server reports; MariaDB has versions of its own. *)
Reported(w, part) ==
  IF Bad(w, part, "unsupported") \/ Bad(w, part, "mariadb") THEN "other"
  ELSE IF Bad(w, part, "moved") THEN Other(Configured(w, part))
  ELSE Configured(w, part)

(* ClientCatalog::resolve. *)
Approved(series) == series \in Series

-----------------------------------------------------------------------------
(* DockerMysqlClientRuntime.                                               *)

ImageErrors == {"ImageUnavailable", "ImagePullFailed", "ImageDigestMismatch"}
ProbeErrors ==
  {"SourceNetworkUnavailable", "AuthenticationFailed", "TlsValidationFailed",
   "ConnectionProbeFailed", "QueryFailed"}
ClientErrors ==
  {"Process", "DockerUnavailable", "OptionFile"} \cup ImageErrors \cup ProbeErrors

(* `docker context show` answers without a daemon. *)
CurrentContext(w) == When(Bad(w, "docker", "missing"), "Process")

(* validate_inspected_digest and verify_client_version. *)
VerifyImage(w, series) ==
  When(Bad(w, series, "wrong digest"), "ImageDigestMismatch")

(* prepare_existing. *)
PrepareExisting(w, series) ==
  First(<<When(Bad(w, "docker", "missing"), "Process"),
          When(Bad(w, "docker", "down"), "DockerUnavailable"),
          When(Bad(w, series, "missing"), "ImageUnavailable"),
          VerifyImage(w, series)>>)

(* prepare, with ensure_image, which pulls what is missing. *)
Prepare(w, series) ==
  First(<<When(Bad(w, "docker", "missing"), "Process"),
          When(Bad(w, "docker", "down"), "DockerUnavailable"),
          When(/\ Bad(w, series, "missing")
               /\ Bad(w, "registry", "offline"), "ImagePullFailed"),
          VerifyImage(w, series)>>)

PrepareClient(w, series, pull) ==
  IF pull THEN Prepare(w, series) ELSE PrepareExisting(w, series)

(* create_option_file, create_container_option_file. *)
OptionFile(w) == When(Bad(w, "disk", "no temporary file"), "OptionFile")

(* requires_encrypted_transport, verifies_certificate_authority: a         *)
(* production source has VerifyIdentity, a target Required.                *)
RequiresTls(w, part) == ~Bad(w, part, "TLS optional")
VerifiesCertificate(w, part) == Bad(w, part, "production")

(* connection_probe_spec: a server is reached by its host and port;        *)
(* container_connection_probe_spec: a target through the network of the    *)
(* container with its ID.                                                  *)
Reach(w, part) ==
  First(<<When(Bad(w, part, "stopped") \/ Bad(w, part, "recreated"),
               "ConnectionProbeFailed"),
          When(Bad(w, part, "unreachable") \/ Bad(w, part, "warming"),
               "SourceNetworkUnavailable")>>)

(* probe_connection, probe_container_connection. *)
Probe(w, part) ==
  First(<<Reach(w, part),
          When(\/ Bad(w, part, "no TLS") /\ RequiresTls(w, part)
               \/ Bad(w, part, "untrusted") /\ VerifiesCertificate(w, part),
               "TlsValidationFailed"),
          When(Bad(w, part, "rejects"), "AuthenticationFailed"),
          When(Bad(w, part, "busy"), "ConnectionProbeFailed")>>)

(* classify_query_failure. *)
QueryError(e) == IF e = "ConnectionProbeFailed" THEN "QueryFailed" ELSE e

(* query_server; query_connection, which also names the schema. *)
QueryServer(w, part) == QueryError(Probe(w, part))
QuerySchema(w, part) ==
  First(<<QueryServer(w, part),
          When(Bad(w, part, "no schema"), "QueryFailed")>>)

(* parse_server_info: whether the session reported a cipher. *)
Encrypted(w, part) ==
  ~Bad(w, part, "no TLS") /\ ~Bad(w, part, "hides cipher")

(* Mysql8DumpPolicy and the gates look for it in the vendor's name. *)
MariaDb(w, part) == Bad(w, part, "mariadb")

-----------------------------------------------------------------------------
(* Verification of a server: the discovery client first, and then the      *)
(* client of the series it found.                                          *)

Verification(w, part, pull) ==
  First(<<PrepareClient(w, Discovery, pull),
          OptionFile(w),
          Probe(w, part),
          When(~Approved(Reported(w, part)), "UnsupportedServerSeries"),
          PrepareClient(w, Reported(w, part), pull)>>)

(* What a verification that pulls has pulled, whatever it ends with. *)
PulledBy(w, part) ==
  LET prepared(series) == /\ Prepare(w, series) = "ok"
                          /\ Bad(w, series, "missing")
      found == /\ First(<<Prepare(w, Discovery), OptionFile(w), Probe(w, part)>>) = "ok"
               /\ Approved(Reported(w, part))
      wanted == {Discovery} \cup IF found THEN {Reported(w, part)} ELSE {}
  IN {<<series, "missing">> : series \in {s \in wanted : prepared(s)}}

(* DockerSourceProfileVerifier::verify, with map_runtime_error. *)
SourceError(e) ==
  CASE e \in {"ok", "UnsupportedServerSeries", "DockerUnavailable",
              "AuthenticationFailed"} -> e
    [] e = "SourceNetworkUnavailable" -> "NetworkUnavailable"
    [] e = "TlsValidationFailed"      -> "TlsRequiredButNotNegotiated"
    [] e \in ImageErrors              -> "ClientUnavailable"
    [] OTHER                          -> "InvalidMetadata"

VerifySource(w, pull) ==
  First(<<SourceError(CurrentContext(w)),
          SourceError(Verification(w, "source", pull))>>)

(* DockerLocalTargetVerifier::verify, with map_runtime_error. *)
TargetError(e) ==
  CASE e \in {"ok", "UnsupportedServerSeries", "AuthenticationFailed"} -> e
    [] e \in ImageErrors -> "ClientUnavailable"
    [] e = "OptionFile"  -> "InvalidMetadata"
    [] OTHER             -> "ConnectionUnavailable"

(* is_transient_connection_error: only `setup` asks more than once. *)
Transient(e) ==
  e \in {"SourceNetworkUnavailable", "ConnectionProbeFailed", "TlsValidationFailed"}

(* probe_until_ready: setup waits until a target that warms up answers. *)
Awaited(w) ==
  IF Transient(Probe(w, "target")) THEN w \ {<<"target", "warming">>} ELSE w

VerifyTarget(w, pull) ==
  LET then == IF pull THEN Awaited(w) ELSE w
  IN TargetError(Verification(then, "target", pull))

-----------------------------------------------------------------------------
(* Docker, and who else asks.                                              *)

(* current_local_context. *)
LocalContext(w) ==
  First(<<When(Bad(w, "docker", "missing"), "Process"),
          When(Bad(w, "docker", "remote"), "RemoteContext")>>)

(* list_container_ids, looks_like_mysql, try_from: one container of MySQL  *)
(* with metadata that are not accepted, whosever it is, fails all.         *)
Candidates(w) ==
  First(<<When(Bad(w, "docker", "down"), "DockerUnavailable"),
          When(Bad(w, "docker", "odd container"), "InvalidMetadata")>>)

(* DockerTargetDiscovery::discover. *)
Discover(w) == First(<<LocalContext(w), Candidates(w)>>)

DiscoverError(e) ==
  IF e = "Process" THEN "DockerUnavailable" ELSE e

(* The container with the name and the ID of the configuration. *)
Exact(w) == ~Bad(w, "target", "recreated")

VerificationError(e) ==
  IF e = "UnsupportedServerSeries" THEN "ClientUnavailable" ELSE e

(* Mutant: the context of the configuration is not compared. *)
Attest_AnyContext(w) ==
  First(<<DiscoverError(Discover(w)),
          When(~Exact(w), "ContainerNotFound"),
          When(Bad(w, "target", "stopped"), "ContainerNotRunning"),
          VerificationError(VerifyTarget(w, FALSE))>>)

(* DockerLocalTargetAttestor::attest. *)
Attest(w) ==
  First(<<DiscoverError(Discover(w)),
          When(Bad(w, "docker", "other context"), "ContextChanged"),
          When(~Exact(w), "ContainerNotFound"),
          When(Bad(w, "target", "stopped"), "ContainerNotRunning"),
          VerificationError(VerifyTarget(w, FALSE))>>)

(* DockerRemoteTargetProbe::probe, with the client of the profile. *)
ProbeDestination(w) ==
  First(<<PrepareExisting(w, Configured(w, "destination")),
          OptionFile(w),
          Probe(w, "destination")>>)

(* DockerMysqlDumpPreflight::assess, up to the policy. *)
AssessSource(w) ==
  First(<<PrepareExisting(w, Configured(w, "source")),
          OptionFile(w),
          Probe(w, "source"),
          When(RequiresTls(w, "source") /\ ~Encrypted(w, "source"),
               "TlsRequiredButNotNegotiated"),
          QuerySchema(w, "source"),
          When(Bad(w, "source", "odd metadata"), "InvalidMetadata")>>)

(* Mysql8DumpPolicy::evaluate. *)
DumpPolicy(w) ==
  First(<<When(MariaDb(w, "source"), "UnsupportedVendor"),
          When(~Approved(Reported(w, "source")), "UnsupportedServerSeries"),
          When(Reported(w, "source") # Configured(w, "source"),
               "ClientServerSeriesMismatch"),
          When(Bad(w, "source", "MyISAM"), "NonTransactionalTables"),
          When(Bad(w, "source", "definers"), "DefinerObjectsUnsupported"),
          When(Bad(w, "source", "views"), "ViewsUnsupported")>>)

(* map_client_error of the database reader. *)
ReadError(e) ==
  CASE e \in {"ok", "AuthenticationFailed", "InvalidMetadata"} -> e
    [] e \in ImageErrors   -> "ClientUnavailable"
    [] e = "QueryFailed"   -> "SchemaUnavailable"
    [] e = "OptionFile"    -> "InvalidMetadata"
    [] OTHER               -> "SourceUnavailable"

(* DockerDatabaseCatalogReader::list. *)
ReadCatalog(w) ==
  ReadError(First(<<PrepareExisting(w, Configured(w, "source")),
                    OptionFile(w),
                    QueryServer(w, "source"),
                    When(Bad(w, "source", "odd names"), "InvalidMetadata")>>))
=============================================================================
