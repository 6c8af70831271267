# A verification of ReproDB in TLA+

ReproDB is a command line tool that copies MySQL databases of remote servers
into local Docker containers. It dumps a source once, keeps the dump as a
compressed artifact in a cache on the developer's disk, restores from the cache
into a managed local database, and can push a dump to another remote server
that agreed to receive it. There is no daemon: every command is a process of
its own, and several shells run commands at once over the same files. All that
coordinates them is the file system: names, renames and advisory locks.

This directory models the parts of the program whose correctness depends on the
order in which those processes, the MySQL clients they start and the user act.
The models are written from the Rust source under `src/src`; `PROJECT.json`
maps each definition to the lines it stands for.

Contents: [the system](#the-system), [modules](#modules),
[runs](#runs), [bounds](#bounds), [fairness](#fairness),
[proofs](#proofs), [disagreements](#disagreements-between-code-and-text),
[abstractions](#abstractions), [plan](#plan),
[running the checks](#running-the-checks).

## The system

| Part (source) | State it keeps | Operations | What is hard about it |
|---|---|---|---|
| artifact store (`artifact_store.rs`) | directories `<id>.part`, `<id>`, with `.artifact.lock`, dump and metadata | `begin`, `create_dump_writer`, `write_metadata`, `publish`, drop of a staging, `lease` | opening a lock file and locking it are two steps; directories move meanwhile |
| cache cleanup (`cache_cleanup.rs`) | plans in memory, `<id>.deleting-<uuid>` names | `sweep_partial`, `prune`, isolation, `remove_dir_all` | plans age; the lock is released before the entries go; a process may die half-way and another resumes |
| cache lookup, inventory (`cache.rs`) | none, reads the cache | `lookup_by_database`, `inspect_all` | three readers of the same metadata with their own checks |
| prune policy (`prune.rs`) | none | `select_for_prune` | the clock goes back; dumps of one second |
| artifact validator (`restore_artifact.rs`) | a lease | `validate_by_id` | knows only an identifier and a database |
| operation locks (`operation_lock.rs`) | lock files per source, target and remote | `try_acquire` | what a key covers, and when the lock goes |
| local restore (`restore_engine.rs`, `restore_executor.rs`, `restore_state.rs`) | the saved state of each target; the database; client containers | save, DROP/CREATE, stream, save | crashes between the saves; a client that outlives its process; the pipe |
| local target gate (`local_target_gate.rs`, `local_target_attestor.rs`, `container_discovery.rs`) | none, reads the configuration and Docker | verifies a configured container | the name chosen, the configuration loaded and the container attested are of three moments |
| restore and pull services | none of their own | choose or make a dump, restore it | the configuration is loaded more than once; the dump is found again |
| dump service (`dump_service.rs`) | a staging | preflight, stream, publish | the configuration is loaded again |
| client runs and compression (`compression.rs`, the executors, `process.rs`, `ephemeral_run.rs`, `cancellation.rs`) | a channel of two chunks, an encoder or decoder thread, a client with its pipes, a token | spawn, move the stream, wait, kill, remove, join | back pressure in both directions, a client that dies or blocks, cancellation at any moment, several errors of which one is reported |
| push (`push_service.rs`, `remote_target_gate.rs`, `remote_import_executor.rs`) | the remote lock; consent in the configuration | choose, verify, probe, guard, dump, authorize, confirm, import | what was attested is old by the time of the import |
| configuration (`config.rs`) | one document, its write lock | load with migration, save, reset | every command writes the whole document; the lock covers the save alone |
| credentials (`credentials/`, `credential_transaction.rs`) | one file per key | set, delete, rollback | two stores that change together |
| profile and setup services | none of their own | add, use, allow, deny, remove; configure | the order of credential and document |
| docker client (`docker_client.rs`, `client_catalog.rs`, `container_discovery.rs`, the verifiers and probes) | client images, which it may pull | discover, prepare an image, ask a server | one of a dozen faults comes back through several layers, each with names of its own |
| doctor (`doctor_service.rs`, `doctor_inspector.rs`) | none; a report in memory | eleven checks, some of which need others | the world changes between the checks; the commands judge the same things by other code |
| database catalog (`database_catalog_service.rs`, `database_catalog_reader.rs`) | none | `list` | the same gate as a dump, written again |
| command line (`main.rs`, `lib.rs`, `error.rs`, `cli/`) | the cancellation token | the order of prompts and services, exit codes, Ctrl+C | prompts late in a command, terminals that are missing, one fault and many errors |

How they interact. `dump`, `pull` on a miss and `push` with a fresh dump begin
with a sweep, write a staging and publish it. `pull` and `restore` take a lease
on an artifact, validate it and hand it to the restore engine, which holds the
operation lock of its target. `push` loads the configuration, the cache and the
remote server at different moments. All of them load the configuration, and
loading an old one writes it. The user answers questions between any two of
these steps, and other commands run meanwhile.

What makes each part correct:

- *cache*: a dump under its final name is whole; whoever leased a dump keeps it;
  a staging that is being written is not swept, however old; what a dead
  process left behind goes eventually; nothing but a prune takes a complete
  dump.
- *selection*: list, pull, restore and prune judge a dump consistently; a pull
  restores the dump it chose and shows what it dumps.
- *restore*: a saved `ready` is the truth; nothing is destroyed before
  `incomplete` is saved; two restores never share a database; a restore ends.
- *client runs*: success means the whole stream; nothing goes on after the
  return; a run ends, by itself or after Ctrl+C, whoever fails; the error
  that is reported is the one the documents name.
- *push*: a dump does not land on the database it came from; nothing is written
  into what is protected; one writer at a time.
- *configuration*: every entry has its credential and every credential its
  entry; push permission comes from `allow-push`.
- *doctor and commands*: doctor leaves nothing unchecked without saying why; it
  is right about the world; when it finds nothing wrong the commands run, when
  it does a pull does not; what it advises helps; it changes nothing.
- *command line*: a fault has its exit code, whichever way a command runs into
  it; a usage error costs nothing; nothing
  destructive starts after Ctrl+C.

The list of hazards, each at its line with the properties about it, is in
`PROJECT.json`.

## Modules

| Module | Models | Variables and the code they stand for |
|---|---|---|
| `ArtifactRegistry` | what the cache promises: a dump is staged, written by one process, available at once, retired at most once, never under a writer or reader | `status`, `writer`, `readers` (abstract) |
| `ArtifactCache` | every system call of the artifact store and of the cleaners that another process can observe | `name` (directory name), `files`, `lockFile` (inode), `stale` (mtime against the partial TTL), `proc` (label, open lock file, lock held, the plan listed) |
| `ArtifactCacheProofs` | theorems about `ArtifactCache`, and that it implements `ArtifactRegistry` | |
| `ClientRun` | one run of `mysqldump` or `mysql` in a container: the executor's task, the encoder or decoder thread, the channel, the pipes of stdin, stdout and stderr, cancellation | `call` (what is run and what it will meet), `task` (the executor's place and what it has found), `thread`, `client` (the attached `docker run`), `channel`, `pipe`, `writer` (the writing end of that pipe), `stderr`, `cancelled` (the token), `stuck` |
| `RestorePromise` | what restoring promises about a database: one process works on it, announces a dump before it touches the database, and says at the end that the database holds this dump only when it does | `holder`, `working`, `said`, `holds`, `astray` (abstract) |
| `LocalRestore` | `RestoreEngine::restore`, the executor with its pipe, `mysql` and the server, what is left of a client | `lock` (operation lock), `marker` (restore state file), `db` (the target database), `proc`, `client`, `orphans`, history `strayed` |
| `ProfileBook` | what the configuration promises: each command is one step on the book of names as it is, and a name and its credential come and go together, until two savers overlap or a sync fails | `profiles`, `push`, `active`, `targets`, `default`, `usable`, `sound` (abstract) |
| `Configuration` | the document, the write lock, the credential files, and the commands that change them | `disk`, `lock`, `creds`, `proc` (command and its loaded copy), history `mishaps` |
| `Push` | `PushService::push` with the remote target gate, the two connections of its dump and the guarded sessions, against other commands and moving endpoints | `config`, `active`, `reach` (which server answers), `cached`, `locked`, `proc`, history `outdated`, bound `edits` |
| `PushProofs` | theorems about `Push` | |
| `DumpSelection` | the judgements of a cached dump by list, pull, restore and prune, and what changes under them | `now` (clock), `settings` and `active` (source profiles), `reaches` (the server at an address), `policy` (of the release), `cache`, `plan` (of a prune), bound `events` |
| `Pull` | extends `DumpSelection`: a pull or restore from the profile it shows to the container it replaces, against setups and changes of containers | `target`, `default` (configured local targets), `docker` (the containers that run), `pull` (the command's place and what it has read), history `confirmed` |
| `PullProofs` | theorems about `DumpSelection` and `Pull` | |
| `LocalRestoreProofs`, `ConfigurationProofs`, `ClientRunProofs` | theorems about `LocalRestore`, `Configuration` and `ClientRun`, and that the first two implement `RestorePromise` and `ProfileBook` | |
| `MysqlClient` | what Docker, the client images and the servers answer to each verifier, probe and reader: operators over a world with faults | `world` (the faults that are there, and the traits of the configuration: series, TLS, production, a second target) |
| `Doctor` | extends `MysqlClient`: the checks of `reprodb doctor`, and changes of the world | `doctor` (its place, the configuration it loaded, the report so far; `steady` is history: nothing changed since it began), `changes` |
| `ExitCodes` | the errors of each layer, `AppError::category` and the exit codes: operators | |
| `CommandLine` | extends both: ten commands with their options, prompts and terminals, step by step, Ctrl+C, and the exit code | `run` (the command, its place, its error, what it has done; `steady` is history), `script` (the command lines to come), `interrupts`, history `repaired` |
| `CommandProofs` | theorems about `Doctor` and `CommandLine` | |
| `MC...` | symmetry and constant definitions for TLC | |

One action is one handler step: the label in `pc` is the place between two
calls where another process may run. Conventions: an error path that leaves the
command is part of the action that can fail (`DumpFails`, `Return`,
`Fail`, `SaveFails`); `Crash` ends a process anywhere, releases its locks and
leaves its files. A definition whose comment begins with `Mutant:` is no part
of a model: it is a plausible bug, kept to show that a property notices it.

How the actions follow the code, in the order of the code:

- *A dump* (`ArtifactCache`): `BeginCreateDir`, `BeginOpenLock`, `BeginTryLock`
  are `ArtifactStore::begin`; `CreateDumpWriter`, `FinishDump`,
  `WriteMetadata` what the dump service does with the staging; `PublishRename`,
  `PublishUnlock` are `publish`; `DumpFails` with `Discard` is the drop of a
  staging.
- *A lease*: `FindComplete`, `LeaseOpen`, `LeaseTryLock`,
  `ValidateArtifact`, `ReleaseLease`.
- *A cleaner*: `SweepList` or `PlanPrune`, then for each entry `Visit`,
  `IsolateOpen`, `IsolateTryLock`, `IsolateRename`, `IsolateUnlock`, then
  `RemoveDirOpen`, `UnlinkEntry`, `LastEntryUnlinked`, `RemoveDir`.
- *A restore* (`LocalRestore`): `Restore` (the lock), `SaveIncomplete`,
  `StartRecreate`, `AwaitRecreate`, `StartImport`, `SendChunk`, `EndInput`,
  `AwaitImport`, `SaveReady`; the client side is `ClientExecutes`,
  `ClientFinishes`, `ClientFails`; `Interrupt` is a cancellation.
- *A client run* (`ClientRun`): `Start`; for a dump `ReadChunk`, `ReadEnds`,
  `SendChunk`, `JoinEncoder` against `Encode`; for an import `ReceiveChunk`,
  `WriteChunk`, `CloseInput` against `Decode`; `Interrupted` wherever the code
  polls the token; `Await`, `Kill`, `Remove`, `JoinDrain`, `JoinDecoder`; then
  `DumpResult`, `ImportResult` or `StatementResult`, which say which error is
  returned. The client's side is `Produce`, `Execute`, `Exit`, `Complain`,
  `WriteMessage`, `ClientFails`, `Hang`.
- *A configuration command* (`Configuration`): `Load`, `SaveMigrated`,
  `Proceed`, `SetCredential`, `LockConfig`, `RenameConfig`, `SyncConfig`,
  then `Cleanup`, or `Rollback` after a failure.
- *A push* (`Push`): `ChooseProfile`, `Verify`, `Probe`, `Guard`, `ChooseDump` or
  `StartDump`, `Assess` (the preflight) and `FinishDump` (mysqldump, which
  connects again), `Authorize`, `Confirm`, `Lock`, `EnsureDatabase`, `Import`,
  `Return`.
- *A pull* (`Pull`): `StartPull`, `LookUp`, on a miss `StartDump` and
  `FinishDump`; *a restore* is `StartRestore`. Both go on with
  `ValidateArtifact`, `LoadTarget`, `AttestTarget` and `Replace`; `EndPull` is
  any end. Around them run `Setup`, `ChangeContainers` and the steps of
  `DumpSelection`.
- *A doctor* (`Doctor`): `DoctorLoad` (configuration, disk, profile, target),
  `DoctorCredentials`, `DoctorInspect` (Docker, its context, the container),
  `DoctorSource`, `DoctorTarget`; `Change` is anything that comes or goes in the
  world.
- *A command line* (`CommandLine`): `Start` parses one and enters its first
  step; `CtrlC` sets the token; then, command by command, `ListDatabases` and
  `ReadDatabases`; `CreateDump`, `Assess`, `Export`, `Publish`; `ChooseDump` to
  `ImportDump`; `SelectTarget`, `LookUp` and `SelectDatabase` of a pull, around
  the steps of dump and restore; `ChooseDestination` to `ImportRemote` of a
  push; `ResetConfiguration` to `ConfigureTarget` of a setup; `NameAvailable`,
  `CollectProfile`, `AddProfile`; `AskRemoval`, `RemoveProfile`; `PlanPrune`,
  `AgreePrune`, `ExecutePrune`; `RunDoctor`. A step asks the world its questions
  in the order of the code and takes the first error (`First`). `Try` ends the
  run with an error of its layer or goes on; `Leave` adds to what the run has
  done.

Composition. Three modules implement an abstract specification through a
refinement mapping: `ArtifactCache` that of `ArtifactRegistry`, `LocalRestore`
that of `RestorePromise`, `Configuration` that of `ProfileBook` (`Registry`,
`Promise`, `Book == INSTANCE ... WITH ...`). The other modules
meet at this level: `Push`, `DumpSelection` and `Pull` publish and
prune a dump in one step and rely on the lease the registry promises; the steps
of `DumpSelection` take the leases of `Pull` as a parameter. `Replace` of `Pull`
is a whole restore of `LocalRestore`, which starts from a validated dump and has
the same `mysql` as `ClientRun`; this looks inside one run, `LocalRestore` at
what several runs do to a database. `Push`, `DumpSelection` and `Pull` change the
configuration in one step, and take a restore as one that ends with the dump in
the database or without a claim: the steps of `ProfileBook`, until a save
overwrites an unseen document, and of `RestorePromise`. `CommandLine` extends `Doctor`, which extends
`MysqlClient`: the commands and doctor ask one world. It puts the services in
order, where the other modules look inside them: its `ImportDump` is a client
run of `ClientRun`, and its `RecreateDatabase` and `ImportDump` are the engine
of `LocalRestore`.

## Runs

Runs that pass:

| Run | Question | What it shows |
|---|---|---|
| `cache_two` | Do leases, stagings and published dumps survive any interleaving of two processes, with crashes anywhere, and does what dead processes leave behind go away? | `LeasedArtifactIntact`, `StagingKeptWhileWritten`, `PublishedIsWhole`, `OnlyPruneTakesComplete` hold; the cache implements `ArtifactRegistry` (`ImplementsRegistry`); every abandoned staging leaves its name (`AbandonedStagingLeaves`) and every interrupted deletion is taken up again (`InterruptedDeletionResumed`). 19 500 states |
| `restore_three` | Can a saved state lie, and does a restore end? | With three processes, failing saves, failing or truncated streams, cancellation, kills and a client that outlives its process, `ready` is never wrong unless such a client ran a statement (`ReadyIsExactUnlessStrayed`); databases change only under `incomplete`, which they would not if two restores met (`ChangedOnlyWhenIncomplete`); the restores implement `RestorePromise` (`KeepsPromise`); a target comes free (`TargetComesFree`) |
| `config_two` | Do document and credentials stay together? | `ReferencesResolve`, `NoOrphanCredential` and `PushGrantedByAllow` hold for two processes, except through the mishaps the model names, and the commands implement `ProfileBook` (`KeepsBook`). 1.1 million states |
| `push_two` | What may happen while a push asks, dumps and connects, and may two pushes meet? | With another push, which publishes dumps and saves consents, and a change by others between any two steps: a dump lands on the database its rows came from only if the source moved between the preflight and mysqldump (`SourceNeverOverwritten`), a push writes only into what all the gate has read leaves unprotected (`DestinationUnprotected`), and two push into one database only through different profiles (`OneWriterPerProfile`). 2.7 million states |
| `pull_one` | Do list, pull, restore and prune agree, and what does a pull or restore put where? | What the list calls ready is reused (`ReadyIsReused`), list and restore differ only over metadata that contradict the SQL (`SoundIsRestorable`), a prune follows the list (`DefaultPruneMatchesList`) and keeps the newest (`KeepLastKeeps`), whatever the clock, the configuration, the policy and the files do; a pull restores the dump it chose (`RestoresItsDump`), which no prune takes from under it (`HitOutlivesPrunes`), into a container that was verified under that name (`ReplacesConfirmed`). 1.9 million states |
| `client_one` | Does a client run end, and with the right answer? | For a dump, a restore, a push and a statement, with a full disk, a damaged or changed artifact, a client that dies, blocks on its stderr or is refused by the server, a server or Docker that stops answering, and Ctrl+C at any moment: success is the whole stream (`SuccessIsWhole`), nothing runs on after the return (`NothingRunsOn`), a full disk is reported as such (`EncoderErrorSurvives`), a refusal by the server is not hidden by what stops after it (`RefusalSurvives`), a cancelled run is no success (`CancelledIsNoSuccess`), and it ends, after a cancellation (`CancellationEnds`) or by itself (`RunEnds`). 187 000 states |
| `command_one` | Do doctor, the commands and the repairs that doctor advises judge the world alike, and can a script trust the exit code? | Two command lines, a doctor before a command or a repair before a doctor, with at most one fault at first, one that comes or goes at any step and one Ctrl+C: doctor skips nothing without a reason (`SkippedForAReason`) and reports exactly what is there (`ReportIsExact`); after a clean report the commands run (`ReadyRunsThrough`), after a failure no pull succeeds (`AlarmIsReal`), what setup and `profile add` accept doctor accepts (`RepairsStick`); a command gives a fault the code it always gives it (`OneFaultOneCode`); code 2 costs nothing (`UsageErrorIsHarmless`); nothing destructive starts after Ctrl+C (`InterruptedStartsNothing`). 9.2 million states |

Runs that end in a violation, each of what a document or a comment of the
repository says (see [disagreements](#disagreements-between-code-and-text)):
`cache_leftover`, `restore_stray`, `config_push`, `push_moved`,
`command_connection`.

Seven more configurations, which are not in the list of runs, end in a
counterexample to such a statement too:

| Configuration | Property | Counterexample |
|---|---|---|
| `Configuration_sync` (`MCConfiguration`) | `EveryReferenceResolves` | a save fails after its rename, and the rollback deletes a credential the document refers to |
| `ClientRun_swapped` (`ClientRun`) | `SwappedServerReported` | a refused session is returned as a failed write |
| `Pull_moved` (`MCPull`) | `ReplacesNoSource` | the address moves to the target between preflight and mysqldump |
| `Pull_unshown` (`MCPull`) | `DumpsShownSource` | another profile is activated after the source was shown |
| `Pull_miscounted` (`MCPull`) | `InvalidIsMissed` | metadata that contradict the SQL are a hit, and are refused |
| `CommandLine_setting` (`MCCommandLine`) | `DocumentedCode` | a pull without a target ends with 2 |
| `CommandLine_refusal` (`MCCommandLine`) | `DocumentedCode` | a push to a profile that was never allowed ends with 2 |

Each property of a passing run has a mutant in `PROJECT.json`: a definition of
the model replaced by a plausible bug, with which TLC finds the property
violated.

Every module has one type invariant, and each is a theorem (`TypeCorrect`, or the
first conjunct of `InvariantHolds`): it holds for every value of the constants,
and the runs check the properties it serves instead. The inductive invariants
hold in the same runs, like `ViewsFit` of `Push`, `OneClientPerTarget` and
`DoctorRepairsNothing`, and are no part of their configurations. After a change
of a module, adding its `TypeOK` or its `InductiveInvariant` to the configuration
is the cheap test before the proof. In `Configuration`, `Pull` and `Push` the
type invariant also contains what validation of the document demands (an active
name has an entry, a production profile accepts no push), so that it says the
commands never write a document the next load would refuse.

### What the less obvious properties say

- `ReadyIsExactUnlessStrayed` speaks of the moment as much as of the restore:
  whatever was in the database before, and however earlier restores ended,
  a state that says ready names a dump all of whose parts are in the database.
  The history variable `strayed` marks a target on which a client nobody
  watches any more ran a statement after the last DROP. Without that exception
  the property is the comment of `restore_engine.rs`, which `restore_stray`
  refutes.
- `KeepsPromise` says more than the two properties of states and steps beside it:
  every step of every restore is one of seven (`Begin`, `Announce`, `Drop`,
  `Fill`, `Claim`, `End`, or a `Stray`), seen only through who has the lock, what
  is saved and which dump the database holds exactly. A restore cannot claim
  without having announced, announce twice, fill a database with another dump
  than the announced one, or leave the database to the next holder while it is
  still at work. What an orphan does is a `Stray` of its database, at any moment.
- `KeepsBook` sees the document as its names and the credentials as what makes
  them usable. A load, a lock, a new credential that no document has yet, a
  rollback, a cleanup and a migration are then no step at all, and each rename is
  one whole command on what is there. `Spoil` is the way out: a save over an
  unseen document or a sync that failed (`Sound`), after which nothing is
  promised.
- `ReferencesResolve` and `NoOrphanCredential` are conditional on `mishaps`,
  the history of what went wrong: `overwrite` (a save over a document its
  command had not loaded), `unsynced` (a save that failed after its rename),
  `leak` (a crash, a failed deletion, a reset). The first needs no `leak`: a
  crash never costs an entry its credential. Each excluded case is one the
  violation runs show.
- `DestinationUnprotected` is about the push whose view is not `outdated`:
  nobody removed or denied a profile, added one or dumped after the gate had
  read the configuration or the cache. It then holds at the time of writing,
  minutes and three questions later, and in the face of the dump the push itself
  makes, which may be the first evidence that the destination is a source's
  server.
- `SuccessIsWhole` excludes the ways in which an end of a stream looks like
  success: a `mysqldump` that dies closes its stdout as at the end; a decoder
  that fails makes the task close stdin, and `mysql` exits well; a task that
  takes a closed channel for the end drops what the encoder did not accept. It
  rests on the three results being joined and on the order in which they are
  looked at.
- `CancelledIsNoSuccess` starts with the moments at which the token is still
  polled: from the call to the wait for the exit. A Ctrl+C after the exit has
  been seen comes too late and changes nothing.
- `RunEnds` is the absence of deadlock between five parties, each of which
  waits for another: the client for its pipes, the task for the client or for
  room, the thread for the channel. `CancellationEnds` is the same when
  server, client or Docker have stopped answering, where only the token and
  the kill can help.
- `ReplacesConfirmed` relates the DROP to the history of setups (`confirmed`):
  the target is chosen by name, the configuration loaded after the dump, the
  container looked up after that; yet what is replaced is a container a setup has
  verified under this name, since the gate compares name and ID, and the
  client enters the network of the ID, so that a container created later
  under the same name is never met.
- `SoundIsRestorable` compares two readers of one directory. Both look at the
  metadata, the size and the checksum of the compressed file; the restore alone
  decompresses it and compares the size and the checksum of the SQL
  (`restore_artifact.rs` lines 164 to 201). What a restore accepts the list shows
  without a defect. The converse has exactly one exception, metadata that
  parse, fit the compressed file and contradict the SQL (`"miscounted"`); for
  these `InvalidIsMissed` says what `docs/pull-command.md` promises, and fails.
- `DefaultPruneMatchesList` is about age. Of a dump that the list shows as damaged
  or changed, so that its age is not shown, it says nothing: an old one of a
  removed profile is selected as well.
- `HitOutlivesPrunes` says that the lease of a hit and the one the restore takes
  overlap.
- `ReportIsExact` names for each check the faults it is there for (`Causes`) and
  is about a world that did not change while doctor ran: a check fails only for
  one of them, and none of them is passed over, whatever else is wrong. That
  several faults at once are reported together is what `docs/doctor.md`
  promises (MaxFaults = 1 and one change put two at once).
- `ReadyRunsThrough`, `AlarmIsReal` and `RepairsStick` compare code with code:
  doctor, the gates of dump and restore, and the verification of setup and
  `profile add` each read the same configuration, image, container and server in
  their own order. What doctor does not look at (`NotLookedAt`), only warns of
  (`OnlyWarned`) or finds although a pull does without (`Harmless`) is named.
  What was repaired (`repaired`) lasts until the world changes or the profile is
  removed; a setup during which the world changed has verified the container
  (`container`), but its look at Docker, before it asked, may be out of date.
- `DocumentedCode` has the table of `docs/exit-codes.md` as an operator
  (`Documented`) and makes no exception but for a line that is itself wrong or
  leaves a question open that nobody can answer (`Own`). It fails, in three
  configurations for three kinds of deviation. `OneFaultOneCode` is what holds
  instead: a command gives a fault always the same code, whichever of its
  gates, services and clients meets it first, and whatever the options and
  terminals are. The codes are those of `CategoriesOf`, which has every
  deviation from the document, command by command; some have two, where the
  options decide. Code 2 is one of them only where the table of the model says
  so, and not a way out for every fault.
- `RefusalSurvives` is about a push whose session met another server than the one
  that was attested. The decoder stops then because its channel closed, and the
  file may have changed as well: neither may be what is reported. The one
  other answer is the chunk that could not be written (see
  [disagreements](#disagreements-between-code-and-text)).
- `UsageErrorIsHarmless` lists what code 2 may leave behind: a reset that was
  asked for, a container that was started, an image, a dump. `pull` asks for its
  database after the dump and `push` its last question too.
- `SourceNeverOverwritten` speaks of where the rows came from (`origin`, which the
  program does not know), not of the identity the metadata record. A dump is
  taken in two connections: the preflight records a server, and mysqldump connects
  by name again. The property says that an import over the database of the rows
  happens only if these two met different servers, whatever moves at any other
  time, since the recorded identity is compared at `authorize` and the attested
  one again in every session. Without its condition it is
  `OriginNeverOverwritten`, which `push_moved` refutes.

## Bounds

| Bound | Value | Why it is enough |
|---|---|---|
| processes | 3 for restores, 2 in the cache, for the configuration and for pushes | a lock is contested by two; for restores the third takes over while the first one's client goes on. The safety properties of the cache, its refinement and those of the pushes are theorems for any number |
| dumps, inodes (cache) | 1 dump, one inode more than processes | all locks, names and plans belong to one directory; a lock file may be replaced once per process that opened it |
| `Chunks`, `Channel`, `Pipe` (client run) | 4, 2 and 1 | the channel is as in the code; with one chunk in the pipe and one in each hand, four fill everything, so that each party can wait for each other |
| `ErrPipe`, `Messages` | 1 and 2 | the second message blocks the client until stderr is drained |
| `Parts`, `Pipe` (restore) | 3 and 2 | a dump can be partly sent, partly executed and partly waiting in the pipe |
| `MaxOrphans` | 1 (symmetric in what a second could do) | one is enough to refute; any statement of any of them sets `strayed` |
| keys | 3 for two processes | each process adds one, and one is in the document |
| `MaxEdits` | 1, besides the other push | a change at each place between two steps of a push, combined with the dumps, consents and endings of another push. The properties are theorems for any number of changes |
| `MaxCached` | 2 | the dump of the destination's server and that of the push |
| endpoints, servers, databases | 2 each | equal or different is all that is compared |
| `MaxTime`, `Ttl`, `Retention` | 2, 1, 2 | a dump can be fresh, stale, prunable and from the future |
| `MaxEvents` | 2 | besides the dumps of the pulls: any two of a dump, a damage, a copy, a change of clock, policy, profile or server, a prune, a setup, a change of containers |
| names and containers of targets | 2 | a container is created again under a name, or two change names |
| `--keep-last` | 1 and 2 | below and at the size of a group |
| `MaxFaults`, `MaxChanges` | 1 and 1 | every fault alone and, with one of the ten faults of `MCChanging` that comes or goes at any step, pairs of faults and a repair or a failure between any two steps. What is said of one fault (`OneFaultOneCode`) needs no more; the theorems hold for any number |
| `MaxInterrupts` | 1 | a run has one token |
| `Scripts` | 35 of two lines | each of 24 command lines after a doctor, a doctor after each of 11 repairs; the lines differ in what changes the way of a command: options that answer prompts, terminals that are missing, values that are refused |
| `Traits` | 5 | the series of source, target and destination, equal or not; TLS optional; production; a second target |

`Push` and `Pull` may stop when their bounds are spent and no
destination is eligible, or no profile active, and `CommandLine` when its script
has been run: their runs do not check for deadlock. All others do.

## Fairness

`ArtifactCache`: every process that is in an operation takes its next step
(weak fairness): the operating system schedules it. Time passes, so a staging
becomes older than the TTL. Sweeps begin again and again, since every dump
starts with one; this is the one assumption about users. The steps of a cleaner
towards one dump are strongly fair across all processes: processes may be
killed for ever, but not always at the same point of a sweep. Nothing is
assumed of a crash, and none of a dump: a writer may take for ever.

`LocalRestore`: reprodb takes its next step and the client it watches executes
or finishes (weak fairness), which says that the MySQL server answers. The code
has no timeout that would end a statement, so without this a restore may hang.
No fairness for orphans, for crashes or for new restores.

`ClientRun`: weak fairness of the task, the thread and the drain of stderr,
which is that the runtime schedules them and that the disk answers; and of the
client, whose step is disabled once it is `stuck`. `RunEnds` is about runs in
which nothing gets stuck; `CancellationEnds` needs no answer from the client,
only that the kill of the local process works. Nothing is assumed of the user.

The other modules state safety only, and no fairness.

## Proofs

`tlapm` checks the seven proof modules to the last leaf. The theorems hold for all
values of the constants that satisfy the assumptions in the modules: inodes are
natural numbers, bounds are natural numbers, the "none" values are outside
the sets they complete, a script consists of lines that `clap` accepts (`Lines`),
and the faults and traits a world starts with are among those of the module.

`ArtifactCacheProofs`, from `InodesAssumption` and `NoDumpAssumption`:

- `InvariantHolds`: `Spec => []InductiveInvariant`.
- `TypeCorrect`, `LeasesHold`, `StagingsHold`, `PublishedHolds`: the type
  invariant and the safety properties of `cache_two`.
- `SweepsSpareComplete`: only a prune takes a complete artifact away.

The safety properties are not inductive by themselves. A lease holds because a
lock excludes others on one *inode*, and a process may have opened another
inode than the one that is there now. The invariant therefore adds: what a
process holds at each label (`ProcessShape`); that an exclusive lock on an
inode is alone (`LockExclusion`); that a directory with its final name, or with
a living writer, never gets another lock file, so whoever opened one opened
the same (`OneLockFile`); that one process owns a staging (`OneOwner`); that
whoever unlinks entries does so below an isolated name, or below its own staging
(`RemovalIsolated`); that a staging is empty until its dump file is created
(`StagingFresh`). With these a rename by a cleaner, which needs the exclusive lock
under an unchanged path, contradicts a lease under the same name.

The refinement, from the same invariant:

- `CacheImplementsRegistry`: `Spec => ImplementsRegistry`. The registry's state
  is a function of the names and of the labels of the processes (`StatusOf`,
  `WriterOf`, `ReaderOf`). First each registry action is derived from what it
  takes dump by dump, then each step of the cache is shown to be one of them or
  a stutter. The one step with an argument is the rename by a cleaner, which
  retires a dump: the registry allows it only without writer and reader, and a
  cleaner that holds the exclusive lock on the lock file that is there is alone
  with the dump (`IsolatedAlone`).
- `RegistryKeeps`: the registry by itself never takes a dump from its writer or
  its readers (`Kept`), so that implementing it is worth something.

`PushProofs`, from `BoundsAssumption`:

- `InvariantHolds`, `TypeCorrect`.
- `SourcesHold`: an import goes over the database its rows came from only if the
  preflight of the dump met another server than its mysqldump. The argument: an
  authorized push has another server or another database than the recorded
  ones of its dump (`ProcessShape`), server, database and dump do not change any
  more, and an import session starts only on the attested server.
- `WritersHold`: two pushes never write into one database of one profile. Who
  writes has its lock in the table (`LocksHeld`) and the table has a lock once
  (`LocksExclusive`).
- `ViewsHold`, `DestinationsHold`: a push that is not outdated writes only into
  a destination that accepts pushes and that nothing protects. The property
  itself says nothing before the first write, so `ViewFits` says what the push
  relies on at each label: the profile it verified; the accepting profiles,
  which may only have grown; from the scan of the cache on, that no dump shows a
  protected owner of the server, except the one the push has just made, which
  `authorize` then refuses. Steps of others either only make more profiles
  accept or the cache smaller (`ViewKept`), or mark the push as outdated
  (`OutdateView`).

`PullProofs`, from `NumbersAssumption`, `SettingsAssumption` and
`DumpAssumption`, for any profiles, settings, servers, containers, names,
identifiers and times:

- `InvariantHolds`, `TypeCorrect`, `HitsHold`. The invariant says, besides the
  types: the cache is finite; two directories of one dump have the same metadata
  (`CopiesAgree`), since only a copy makes two; what is leased is there
  (`HitOutlivesPrunes`); whatever directory now has the identifier that was
  chosen was taken with the settings of the pull (`ChoiceFits`); a dump that is under way has a profile and
  settings (`DumpShape`); every container in the configuration, and the one that
  a command has loaded, was verified by a setup under its name
  (`TargetsConfirmed`).
- `ReadyHolds`, `SoundHolds`, `DefaultPruneHolds`, `KeepLastHolds`: the four
  places that judge a dump agree, as far as the properties say. These are statements about the operators
  alone, in any state of the right type with a finite cache. The lookup takes a
  first and the prune keeps the first N by the same order, time and then
  identifier and path. That N are kept needs the ranks of a finite set with a
  strict total order (`Ranking`), which is proved by counting: ranks are
  different, so that they fill an interval. `KeepLastKeepsAny` has the
  statement for every N; the property, which TLC evaluates, has 1 and 2.
- `ItsDumpHolds`: what is validated is the chosen dump, or a copy of it, which
  agrees with it (`CopiesAgree`).
- `ConfirmedHolds`: what is replaced is in a container that was confirmed under
  this name (`TargetsConfirmed`).

Each proof has a lemma for every action, or for every kind of action when
several change the same thing, and lemmas on how a process changes its record
(`BecomeStep`, `Advance`, `ShapeStep`), so that an action only has to say what it
does besides.

`LocalRestoreProofs`, from `PartsAssumption` and the like:

- `InvariantHolds`, `TypeCorrect`.
- `ReadyHolds`, `ClientsHold`, `ChangesHold`: a saved `ready` is the truth unless
  an orphan ran a statement, two watched clients never share a database, and a
  database changes only under `incomplete`. None of these is inductive: `ready`
  is saved on the strength of what the executor has seen, so `ProcessShape`
  relates at each label what was sent, what waits in the pipe, what the client
  has executed and what the database holds, and says that a process past the
  lock has it, with `incomplete` on the disk; `OrphanShape` says what a client
  nobody watches may still do.
- `RestoreKeepsPromise`: `Spec => KeepsPromise`. The lock is the holder, a process
  past its first save works on the database, the state file is what was said.
  Each abstract action is derived from what it does to one database
  (`PromiseBegin` to `PromiseStray`); a process that is idle, or restores into
  t, shows nothing at any other database (`Aside`). Two steps have an argument.
  `SaveReady` is a `Claim`, since a process at that label has made every part
  of its dump, unless an orphan strayed; a statement of the watched client is a
  `Drop` or a `Fill` with the announced dump, for which the invariant says that
  the client was given this dump or something that is no dump at all. A save
  whose fsync fails after the rename is an `Announce`, or a `Claim`, that is the
  last the process does.
- `PromiseIsTrue`: `RestorePromise` by itself keeps true what was said last
  (`Truthful`), since nobody works on a database without having announced it.

`ConfigurationProofs`:

- `InvariantHolds`, `TypeCorrect`: the commands never write a document that the
  next load would refuse.
- `ReferencesHold`, `OrphansHold`: entries have their credential, and
  credentials their entry, but for the mishaps. What a process is about to save
  was loaded before others saved: `ProcessShape` says how old a copy may be
  (it equals the document unless a later rename will be an `overwrite`) and
  who a credential that is in no document belongs to (`CredentialsOwned`,
  `OrphansOwned`): the command that has set it, or that is going to delete it.
- `PushHolds`: push permission comes from `allow`, or from a save over an unseen
  document. The step needs the invariant, since the rename writes a copy.
- `ConfigurationKeepsBook`: `Spec => KeepsBook`. While the promise is on, every
  entry has its credential before and after a step (`ReferencesResolve`), so
  that a step that leaves the document alone shows nothing, whatever it does to
  credentials (`SoundStep`, `BookStutter`). A rename writes the command's version
  of the copy it loaded, which is then the document that is there but for its
  schema version (`BookSave`, from `DocumentFields` and `DocumentNames`), and
  the checks made on the copy (`Applicable`) are those the book demands now.
- `BookIsComplete`: by itself the book has a credential for each of its names and
  refers to no other (`Complete`).

`ClientRunProofs`, for any number of chunks, any channel and any pipes:

- `InvariantHolds`, `TypeCorrect`.
- `SuccessHolds`, `ReturnsHold`, `EncoderHolds`: success is the whole stream;
  nothing runs on after a return; an encoder's failure is what is reported. The
  invariant counts the chunks: those read, in the pipe, in a hand, in the
  channel and written add up to those produced (`DumpStream`, `ImportStream`),
  unless one of three things has happened that each make the result an error
  (`DumpEnds`); and it says what is still there before the start and after it
  (`Unstarted`, `Started`).
- `CancelHolds`: a run that was cancelled while it polls the token is no success.
  `CancelledIsNoSuccess` is a temporal formula over two boxes; it follows from a
  predicate that the cancellation makes true and every step keeps: the run is
  still in a place that polls, or has an error already.
- `RefusalHolds`: a push that met another server is returned as refused, or as a
  chunk that could not be written, unless it was cancelled or its dump could not
  be decoded. The invariant (`Refusal`) says that only an import whose client
  has failed can have been refused, and that a decoder stops only when the task
  has seen another end of the stream than its own.

`CommandProofs`, for any scripts, any faults at once and any number of changes
and interrupts:

- `InterruptHolds`: after Ctrl+C nothing destructive starts. Every step
  is gentle, that is, adds nothing destructive to what the run has done, but
  for the four executors, and those return `Interrupted` first.
- `DoctorHolds`: doctor changes nothing but a configuration of an old schema.
- `SkippedHolds`: doctor skips nothing without a reason. The invariant
  (`DoctorInvariant`) says at each place of doctor what each check may have
  found by then, and which are still to come: by the time one looks at another
  that one is never "not in the report", except where the check before it has
  failed; and the configuration is the one that was loaded.

- `RunInvariantHolds`, `UsageHolds`: exit code 2 costs nothing. The invariant
  gives each command its way through the stages (`Way`) and what it may leave
  behind (`MayLeave`), and says of each run that it has done nothing that cannot
  be had again, or is at a stage past its last question (`Committed`), or has
  ended well or with an error that is no usage error (`StillHarmless`). It is inductive because no
  stage of `Committed` asks anything, and none returns an error that
  `AppError::category` calls one of usage.
- `TypeCorrect`: the types of both modules. That the world keeps its type needs
  more than the types of what changes it (`WorldInvariant`): the source and the
  target never get a fault that they cannot have, and a production source stays
  one that can be verified.
- `ReportHolds`: in a world that keeps still, a check of doctor fails exactly if
  one of its causes is there. For each question (`VerifySource`, `VerifyTarget`,
  the image, the container, the credential) a lemma says that it is answered well
  exactly if nothing it asks about is wrong (`SourceExact`, `TargetExact`), for any
  set of faults. Each status in the report is then fair to the world
  (`ReportInvariant`): it is a failure only for a cause, and passes over none. What a
  step of another command or of the developer changes ends `steady`, except for
  what no cause speaks of (`Inert`).

- `RepairsHold`: what setup and `profile add` accept doctor accepts. The invariant
  (`RepairInvariant`) says that after one of them the world has none of the faults
  that the checks of its section are there for (`SourceIsRight`, `TargetIsRight`):
  the verification that pulls has answered every question that the one of doctor
  asks, the images that were missing were pulled, and the series recorded is the
  one reported (`VerifiedIs`, `SourceSaved`, `TargetSaved`). Every later step is
  calm (`Calm`): it adds no such fault and changes nothing that decides which
  image or which TLS is asked for. That doctor finds Docker in order needs what
  setup found when it looked, so the invariant speaks of the stages in which it
  asks the user (`Asking`) as well.

- `ReadyHolds`: after a doctor without a failure a list, a dump and a restore run
  through. `ContextInvariant` carries what the inspection made of the Docker
  context to the end of the report; a report without a failure then says that
  nothing its checks are there for is wrong (`NothingFound`): none of them was
  skipped, none is missing, and each is fair. From that, and from what no check
  looks at, every question of every gate is answered with "ok"
  (`FitForDump`, `FitForRestore`, and the lemmas from `CatalogIsThere` to
  `TargetIsThere`), so that the run is still fine at each stage
  (`ReadyInvariant`).
- `AlarmHolds`: a failure that doctor reports is one that a pull runs into. The
  invariant (`PullInvariant`, `Found`) says at each stage of a `pull --fresh`
  what it has found in order by then: the configuration after `CreateDump`, the
  source after `Assess`, the target and Docker after `AttestTarget`. The source is
  in order there but for the image of the discovery client, which a dump does
  not use: that it is there is found out with the target. A pull that has ended
  well has therefore found all of it, and a failure in the report would be one
  without a cause.

Only model-checked are the liveness properties, since liveness under fairness and
`ENABLED` are outside what `tlapm` proves, and `OneFaultOneCode`.

## Disagreements between code and text

Each of the first five is a run that TLC ends with a counterexample; `PROJECT.json`
quotes the lines. The others are configurations that are not in the list of runs.

1. `cache_leftover`. `docs/cache-locks-cleanup.md` says that after a crash
   between rename and removal the next cleanup recognises the name
   `.deleting-<uuid>` and completes the removal. It does so once: the cleaner
   that resumes a deletion renames the directory again, to
   `<...>.deleting-A.deleting-B`, which is no longer recognised. If that cleaner
   dies too, the directory stays.
2. `restore_stray`. `restore_engine.rs` says that no crash or failed import can
   leave a stale `ready`. The lock of the target goes with its process, and also
   when the removal of the cancelled client's container failed, but the client
   may still run: its DROP or its buffered statements reach the database after
   another restore has saved `ready`.
3. `config_push`. `docs/profiles.md` says `profile deny-push` revokes. A command
   that loaded the document before it and saves after it, which may be the
   migration of any command's load, writes the permission back. The write lock
   covers the save alone.
4. `push_moved`. `docs/push-command.md` says that a push never writes into the very
   database its dump came from. The preflight of a dump records the server it
   met (`dump_service.rs` line 165), and mysqldump connects by name again and
   compares nothing (line 177). If the address leads from A to B in between, the
   metadata say A and the rows are of B: a push to B into the same database passes
   every comparison. In the same window a pull may replace a database on the
   server its rows came from, where `docs/local-target-safety.md` line 24 has
   `@@server_uuid` prove that it is another one (`Pull_moved`).
5. `command_connection`. `docs/exit-codes.md` has 30 for a source that rejects its
   credential, and 60 for Docker. `database list` ends with 11 and 30. Two
   more deviations are usage errors where the document has the configuration: a
   pull without a target (`CommandLine_setting`), and a push that answers its
   questions in its options, to a profile that was never allowed
   (`CommandLine_refusal`).
6. `Configuration_sync`. `docs/profiles.md` says that a failure of the
   configuration leaves no saved profile. When the sync after the rename fails,
   the document has the profile and the rollback deletes its credential.
7. `ClientRun_swapped`. `docs/exit-codes.md` gives a destination that turns out to
   be another server the exit code of a connection, and `docs/push-command.md`
   says the operation ends then. The session's first statement does fail and
   `mysql` exits, but the executor may be writing a chunk at that moment: the
   broken pipe is returned before the stderr of `mysql` is looked at, and the push
   ends with the code of a failed import (70) where the documents say 30. Nothing
   is written in either case.
8. `Pull_unshown`. `docs/ui-ux-test-guide.md` line 191 wants a production source
   shown before it is accessed. On a miss the dump service loads the
   configuration again and dumps the profile that is active by then
   (`dump_service.rs` lines 136 to 148), which nobody was shown.
9. `Pull_miscounted`. `docs/pull-command.md` line 69 says that an invalid cache
   becomes a miss. The lookup compares the compressed file with its metadata
   (`cache.rs` lines 442 to 452), the restore also the SQL in it: the same pull
   takes the dump and then refuses it, until it expires or `--fresh` is given.

Two statements were found to be wider than the code, without a run:
`docs/cache-commands.md` says of prune that timestamps in the future are
preserved, which `select_for_prune` does by age but neither for all dumps nor
for `--keep-last`, as its own comments say; and a comment in
`remote_target_gate.rs` protects every server a protected profile was *ever*
dumped from, which the code does as long as a dump is in the cache, as
`docs/push-command.md` describes it.

More differences between the documents and the code, found while modelling the
commands; each is in the model as the code has it, and named in a definition
(`CategoriesOf`, `NotLookedAt`, `OnlyWarned`, `Harmless`) where a property had to
make room for it:

- `docs/doctor.md` line 21 says that doctor does not write the configuration. Its
  load migrates a document of an old schema and saves it (`config.rs` line 617).
- Codes other than those of `docs/exit-codes.md`, besides item 5: a Docker CLI that
  is missing is 30 for `profile add` (`error.rs` lines 193 to 196,
  `database_catalog_reader.rs` line 144). A source of another vendor or series is
  a failed dump (40) for `dump`, and a lacking requirement (20) for `doctor` and
  `profile add`; one without TLS is 40 or 30. An option file that cannot be
  written is 11, 30 or 60, by command. A destination of another vendor or series
  is 20, not 70. Another Docker context is a usage error (2) for `setup` and
  `profile add`. A failure after the recreation has begun may be 11 or 60 rather
  than 70 (`error.rs` lines 389 to 399).
- doctor accepts a target whose vendor the gate of restore refuses
  (`local_target_gate.rs` line 130), and a configuration without a Docker
  context, with which every command stops (10). It only warns of a source that
  reports no cipher, which `dump` refuses if TLS is required. `setup` accepts a
  target that reports none, which doctor then fails.
- doctor's advice for another Docker context, to run setup and profile
  configuration again (`doctor_service.rs` line 359), does not help: both refuse
  the context with a usage error, unless the configuration is reset.
- The first failure of `docs/doctor.md` is by category; that of the code is by
  section, so that a low disk comes before a missing credential.
- `pull` asks for the database after the dump, and looks at stdout to know
  whether it may ask, although the prompt is drawn on stderr.

## Abstractions

What holds for every module: a name, an identifier or a key is a model value;
a random UUID is one that nobody uses or remembers; a crash is the end of a
process, after which the operating system drops its locks. A loss of power,
that is, what `fsync` protects from, is not modelled. Messages, formats and
progress are left out.

- `ArtifactCache`. The data files are `partial dump`, `dump` and `metadata`; the
  checksum belongs to `DumpSelection`. The directory is that of one profile and
  database. The source lock, which serialises the dumps of one source, is left
  out: the model lets dumps run at once that the code does not, and its
  properties do not need the lock. Failures of single system calls are those the
  code treats differently (`DumpFails`, a busy lock, a path that is gone).
- `LocalRestore`. `Compatible` stands for the checks of server identity and
  version before the lock. What the developer does to a restored database
  later is not modelled; `ready` is about what reprodb and its clients do. A
  part of a dump replaces its own tables, as the statements of mysqldump do. The
  file that is decoded may differ from the one that was validated. A statement
  the server goes on with after its client is gone counts as an orphan.
- `ClientRun`. The supervisor that turns Ctrl+C into a token runs in the same
  task as the executor, so that the token is set between two polls. The kill of
  the local `docker run` works; a container that goes on without it is the
  subject of `LocalRestore`. Hashes, byte counters, progress and the
  classification of stderr are left out: stderr says that the identity did not
  match, or something else. A file that is no longer the validated one is
  `intact = FALSE`: its decoding may fail at any chunk or end well, and then the
  checksums differ.
- `Configuration`. A missing file is the default document, which is how it is
  loaded. The verification of a connection is a nondeterministic failure. The
  save of a migration is one step, which takes the lock and renames. `allow`
  stands for `profile allow-push` and for the consent a push writes. The
  production flag and the Docker context are left out: nothing here depends on
  them.
- `Push`. The scan of the cache, and a configuration command of another process,
  are one step. So is `Authorize` with the question about a lower version that
  follows it: it decides from what was read before, and nothing that changes
  while the user answers is looked at again. Refusals for version, TLS or vendor are a `Return`. The import is
  one step after its session began: its stream is that of `ClientRun`, and
  a client that outlives its process is not modelled here. Two accepting
  profiles that lead to one server have two locks, by the key's design.
- `DumpSelection`. Other commands act in one step each. A dump changes only by
  damage or by being copied. Its metadata may be lost, may not parse, or may parse
  and contradict the SQL in the dump; a compressed file whose bytes changed does
  not have its checksum, which stands for every damage to the zstd stream. A sum of
  a time and a TTL that exceeds 64 bits is not modelled.
- `Pull`. One pull or restore runs, of one database. Its leases are the fact that
  a prune skips the dump; after a miss there is none until the restore validates
  the dump, which may then fail. A container has one server, that of its ID, and
  the name of the local database is not modelled, so a target is a container.
  The Docker context, the managed label, vendor, series, versions and credentials
  are refusals, that is an `EndPull`, and so is a busy operation lock
  (`LocalRestore`). A setup is one step; `Configuration` has its parts. A
  stopped container is one that has no name.

- `MysqlClient`, `Doctor`. The world is a set of faults, and each question to it
  is an operator that gives the first error in the order of the code. A wrong
  digest stands for all that is wrong with an image, which is the same in every
  context. The verification of a server, with its image, its option file and its
  probe, is one step. A probe that fails does so for one fault; TLS comes before
  authentication. The client of the target's series is approved once setup has
  accepted it. MariaDB has no series in the catalog. Triggers, routines and
  events of a source are refused as views are. Destination and target always
  require TLS.
- `CommandLine`. What dump, restore and push do inside is the subject of the other
  modules: here they fail or succeed, with this error; a client that fails once
  it is connected may leave part of what it did (`Begun`). An option is a flag
  that changes the way; `bad` is an argument that a value object refuses. The
  user answers yes, or something that is refused; dialoguer is external, and
  needs stderr to be a terminal; Ctrl+C at a prompt is its business. Input and
  output errors of the cache's sweep, of the credential store and of stdout are
  left out, and so are `ManagedMarkerMissing` (setup writes the label) and a
  context that changes between attestation and client.

Not modelled: the rendering of output and progress, the arguments and statements
given to docker and the MySQL clients, the format of option files, and `profile
list`, `use`, `allow-push`, `deny-push` and `cache list` as command lines (they
call one service each, which `Configuration` and `DumpSelection` model). They
decide nothing that a property could be about. Power loss, that is, what the
fsync after a rename protects from (`artifact_store.rs` line 548), is not modelled
either.

History variables, which no action of a model reads to decide anything:
`strayed` (LocalRestore), `mishaps` (Configuration), `outdated` (Push),
`confirmed` and `profile` in the records of `Pull` after the lookup, `origin` of
a dump (`DumpSelection`, `Push`), `repaired`, and `steady` of a run and of a doctor
(`CommandLine`, `Doctor`).

## Plan

The order was: the cache first, because everything rests on leases; then the
restore, which destroys data; then the configuration and the push, whose
decisions age; then the selection of dumps and the pull; then the inside of one
client run; then doctor and the commands, with what Docker and the servers
answer; the theorems, module by module; and the abstract specifications. What
remains, in order:

1. Two commands at once in `CommandLine`, with the locks between them.
2. A theorem for `OneFaultOneCode`: each answer of a client traced to a fault, each
   layer's renaming of it to the category that `CategoriesOf` gives the fault.
3. Durability: what `publish` and the saves promise when power is lost, with the
   order of their fsyncs.

## Running the checks

    tlc -workers 2 -config ArtifactCache_two.cfg ArtifactCache
    tlapm ArtifactCacheProofs.tla

The module and configuration of each run are in `PROJECT.json`. The longest run
(`command_one`) takes two minutes on two cores, the proofs some minutes.
