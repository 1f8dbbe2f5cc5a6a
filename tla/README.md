# A verification of indentured-server

indentured-server runs configured tasks for remote callers on one machine. This
directory holds TLA+ models of its parts, the TLC configurations that check them
on small instances, and TLAPS proofs of what matters most for every instance.
Every definition is translated from the Rust code; `PROJECT.json` maps each one
to the lines it models.

## The system and its modules

A daemon serves two kinds of work over HTTP. A *build* is one request: upload a
source archive, run `setup` and `run` in a fresh workspace, stream the output,
collect artifacts. A *managed session* keeps its workspace: it is initialized
once, may have retained services, runs actions and accepts source updates until
it is stopped, expires or loses its client. Both take a permit of the same
semaphore. A command-line client packages source, talks to the daemon and keeps
evidence of what happened. On macOS a separate broker in the graphical session
lists and captures the desktop for the daemon.

| module | models | state, and what an action is |
|---|---|---|
| `Session` | one managed session (`sessions.rs`, its handlers in `http.rs`) | the fields behind the state lock, the durable metadata, the workspace, and in `pc` where each thread is between two critical sections; an action is one critical section with the work up to the next |
| `SessionContract` | what a session promises | permit, revision, current work, who closed it |
| `SourceUpdate` | one update at the level of its system calls (`source_updates.rs`) | the workspace as files under directory instances, staged and backed-up files, the worker's position; an action is one system call |
| `UpdateContract` | what the session relies on of an update | a phase and whether the workspace is between revisions |
| `Services` | retained services, supervisors, startup reconciliation (`services.rs`, `sessions.rs`) | daemon, supervisors, process groups, the control, status and readiness pipes, metadata and records on disk |
| `Build` | builds (`build.rs`, `http.rs`) | per build: executor, readers, response channel, process group of each phase; the permits |
| `ArtifactStore` | snapshots and their garbage collection (`artifacts.rs`) | the workspace that services keep writing, the store's directories with their ages, the collections and the collector's pass |
| `ClientSource` | source packaging in the client (`client_source.rs`) | the tree that editors change, the worker's position and what it packaged |
| `Client` | one invocation of the client (`bin/indentured.rs`), with `ClientSource` composed in | the command's position, the signal, the claim, the evidence on disk and in memory, the request, the staged artifacts |
| `HostObservation` | command, daemon handler and broker of host observation (`bin/indentured/host.rs`, `http/host.rs`, `host_observation.rs`) | the command, handler and connection of each caller, the broker's loop, the desktop |

`SessionInv` has the inductive invariant of `Session`. `MC*` modules give the
constants of an instance; where none is needed the configuration names the module
itself. `*Proofs` modules hold the theorems about the component they are named
after (`ClientProofs` those about `Client` and `ClientSource` together).

How they fit together: `Session` treats an update as the phases of
`UpdateContract`, services as one unit that starts, fails and stops, and archives
as stored, delivered or discarded. `SourceUpdate` is shown to implement `UpdateContract`
(`ImplementsUpdateContract`), and `Session` is shown to use each update only as
`UpdateContract` allows (`UpdatesConform`). Both are proved, so the two levels
meet at an interface that holds for every instance. `Services` opens up the unit,
and adds the crash of the daemon that `Session` leaves out. `Build` has sessions
as anonymous holders of permits.

## What the runs check

All bounds below are constants of the configurations; deadlock is checked except
where a session, command or broker really ends.

**session_actions** — two actions, a stop, both timers, a dropped stream.
`CleanupOnce`: one thread at a time cleans up and teardown runs at most once, as
long as no worker abandons a delivery its stream has already acknowledged (see
findings). `UndeliveredArchivesDiscarded`: an archive whose final event was not
acknowledged is still its worker's to deliver or discard, and the worker is through
with that before the session is gone. Discarding is one attempt whose failure the
code ignores; what a failed removal leaves is the garbage collector's
(`StoreIsEmptied`).

**session_updates** — three updates that may reuse ids and bases, two stops,
failing writes, unproven rollbacks, a panicking worker. `ReadyIsDurable`: a Ready
or Action session has a whole workspace and metadata of the revision in memory.
`UpdateAppliedOnce`: retries and competitors never apply a request twice.
`ExplicitStopWins`: only the stop that won the election is told of success.
`UpdatesConform`: see above. Three updates are what it takes to retry one request
after another has replaced the cached last success.

**session_services** — services, one action, one update, one stop.
`CleanupJoinsWork`, `PermitCoversWork` (a released permit means that no thread
works in the workspace any more; a service whose end could not be proven does not
keep the permit, as the repository's README says), `UnprovenReadyKeepsMetadata` (metadata
stays when a session that was Ready cannot prove a service stopped),
`ElectionIsFinal` (an action property: the election of the cleanup's owner is
never undone or reassigned), `Inductive` (the invariant of the proofs), and
`ImplementsContract` (refinement of `SessionContract`).

**session_liveness** — `DeadlineReleasesPermit`: a passed lifetime deadline leads
to a released permit. `StopAnswered`: a stop that won is answered.
`ReadyEventuallyExpires`: no session stays Ready for ever, an idle timer watches
every Ready period.

**session_teardown**, **session_unproven** — two statements of the repository's
README that the code does not keep; see findings.

**source_update** — requests of two changes over three paths in two directories,
good and bad archives, two interferences by services, failure at any call,
cancellation. `AllOrNothing` (a success installed everything; a refusal, or a
failure that claims a proven rollback, left everything), `CommittedIsBeneath`
(what is committed lies under the workspace although directories were moved),
`OnlyVerifiedBytes` (only declared files are replaced, and none before all of the
archive was staged and hashed), `ImplementsUpdateContract`. Two changes make a
rollback of the first after a failure of the second; two interferences reach a
moved directory with a replacement in its place and a touched target.

**services** — two services, one daemon crash, one fault (a supervisor that dies
or a group that survives SIGKILL). `ReadyIsServed`, `TeardownFindsServicesGone`
(for the daemon's cleanup and for the next daemon's reconciliation),
`SupervisorLeavesNothing`, and under fairness `OrphanedSupervisorEnds`,
`FailureEndsSession`, `EndingEnds`. Two services are what it takes for one to fail
while the other starts.

**build** — one build with both phases, one stream per phase, an output limit and
a channel of one, and sessions on the same permit. `PermitCoversWork` (no process
group outlives the permit but one that survived SIGKILL, and no workspace but one
whose removal failed), `DisconnectIsReal`, `ExitZeroIsSuccess` (exit 0 without
`timed_out` means that `run` exited 0 by itself; a wait that was cut short is told
as timed out, also with code 0), `SetupEndsBeforeRun`, and `PermitComesBack` under
fairness. Builds touch each other only through the
permits; the four invariants are proved for any number of them (below).

**artifacts** — two snapshots, five paths (one excluded, one restricted, one that
differs by case only, one outside the patterns), one change by the services, one
fault (a restart or a removal that fails), a TTL of one step.
`ArchiveIsWhatWasSelected` (a failed or withdrawn collection leaves nothing behind
but for a removal that itself failed), `TtlSparesFresh` (an action property of the
TTL pass), `StoreIsEmptied` (what a crash or a failed removal left is removed by a
later pass).

**client** — all five commands, SIGINT at any step, failing writes of the evidence
in two steps (`MaxFaults`; a step that writes twice may fail in either or both),
every way the server can answer or break off, two edits of a tree of four paths.
`ProvenanceAgrees` (exit code and evidence tell the same story; the reader takes an
exit of any code as the answer to a start, and one of code 0 ends with "failed" on
disk and exit 0), `NoSessionLeftBehind` (a start printed the id of its session, with
exit 0 or, when a write of the evidence had failed, 1; or it asked the server to stop
every session whose id had reached it), `NothingLeftBehind` (a staging directory
whose removal failed, which `extract_zip_atomic` does not look at, is covered by the
error of the failed extraction unless the command was interrupted; a jj workspace
that could not be forgotten is always recorded), `PackagedIsFaithful`,
`InterruptEnds`. Exit codes are 0, one that fits a byte and one that does not.
`run` installs its signal listener in a task it only yields to, so SIGINT may also
end it at once, with its workers (`Killed`); nothing is claimed of that end.

**host** — two callers, one permit, two displays, an application whose named
window comes and goes, two changes of the desktop, which may restore what it was
before. `CapturedAsNamed`: a capture a command reports as succeeded is complete, and
each image shows what it is labelled as, except for what the code's looks cannot
see: displays that were changed and changed back between the looks around an image,
and windows that changed after the look before it. Two changes are what it takes to
hide one. `SlotComesBack`: the permit of an observation
comes back whatever broker and caller do.

Every property has a mutant in `PROJECT.json`: a plausible error in the code (a
dropped guard, a swapped order, a missing limit) under which TLC finds it
violated.

## Fairness

Weak fairness is assumed of the daemon's own threads and, in `Services`, of the
supervisor processes, because the operating system schedules them and every wait
they make has a limit in the code: upload deadline, task timeout and kill grace,
the two seconds for a reader, the five seconds for an acknowledgement, the
broker's and the socket's time limits. In `Session` idle time passes; the
lifetime deadline is not assumed to. In `ArtifactStore` the collector's thread
comes round again and the clock goes on. In `Client` the local work and the time
limits are fair. Nothing is assumed of callers, servers as seen from the client,
editors, task processes, helpers, readers of a build, the broker or the desktop:
they may stop at any point.

## What is proved

Every safety property a passing run checks (the invariants, the two action
properties and the three refinements) is also proved by tlapm, for every value of
the constants. The bounds that keep TLC's instances small (numbers of actions,
updates, stops, services, crashes, builds, snapshots, edits, failing writes) are
arbitrary in the theorems. Each component has one inductive invariant, a lemma per
conjunct or per group of actions, and short final theorems that derive the
properties from it. TLC checks the session's invariant, `Inductive`, as part of
`session_services`.

| module | assumption on the constants | inductive invariant | theorems |
|---|---|---|---|
| `SessionProofs`, `SessionSafetyProofs` | `ThreadsDistinct`, `ConstantTypes`: disjoint sets of threads, requests whose base is a revision | `Inductive` | `TypeCorrect`, `PhaseCorrect`, `ElectionFinal`, `SoundCorrect`, `ReadyDurable`, `ExplicitStop`, `UpdateOnce`, `InductiveCorrect`, `CleanupRunsOnce`, `CleanupJoins`, `PermitCovers`, `ArchivesDiscarded`, `UnprovenReady`, `ContractImplemented`, `UpdatesFollowContract` |
| `SourceUpdateProofs` | `UpdateAssumption`: a request is not empty and names no path twice; workspaces start with files of the kinds modelled | `UpdateInv` | `UpdateCorrect`, `UpdateAtomic`, `UpdateBeneath`, `UpdateBytes`, `UpdateImplemented` |
| `ServicesProofs` | `SomeService`: at least one service | `ServicesInv` | `ServicesCorrect`, `ServicesReady`, `ServicesGoneAtTeardown`, `ServicesLeaveNothing` |
| `BuildProofs` | `BuildAssumption`: finitely many builds, limits that are numbers | `BuildInv` | `BuildPermitCovers`, `BuildDisconnectReal`, `BuildExitZero`, `BuildSetupEnds` |
| `ArtifactStoreProofs` | `StoreAssumption`: types of limits and workspaces | `StoreInv` | `StoreCorrect`, `StoreArchives`, `StoreTtl` |
| `ClientProofs` | `ClientAssumption`: the commands there are, exit codes that are integers | `ClientInv` | `ClientCorrect`, `ProvenanceTold`, `SessionsStopped`, `NothingLeft`, `PackageFaithful` |
| `HostObservationProofs` | `HostAssumption`: types; ids of displays and windows are disjoint; at least one arrangement | `HostInv` | `HostCapturedAsNamed` |

*Sessions.* None of the safety properties is inductive: that only one thread
cleans up depends on which thread may be where in which state, which depends on
the delivery protocol of each action. `Inductive` in `SessionInv` is the
conjunction of the types, the labels each thread can be at (`LabelsOK`), the
stream and acknowledgement protocol (`DeliveryOK`), who may be engaged in which
state (`PhaseOK`), services (`ServicesOK`), what is durable at each label
(`DurabilityOK`), revisions and cached requests (`UpdatesOK`), stops (`StopsOK`),
the sole owner of the cleanup with what has been done at each of its steps
(`OwnershipOK`), and what the metadata says while a service may be alive
(`UnprovenOK`). Each layer uses the earlier ones. `SessionProofs` has types,
labels, delivery and phase, and from them `ElectionFinal`; `SessionSafetyProofs`
has the rest, and the two refinements: each step of `Session` is a step or a
stutter of `SessionContract` (`ContractImplemented`), and of `UpdateContract` for
each update (`UpdatesFollowContract`). The refinement mappings are `PhaseOf`,
`CloserOf`, `AnsweredOf` and `UpdatePhase` in `Session`.

*Source updates.* What an update leaves behind is decided by a rollback that runs
after any number of system calls, so `UpdateInv` follows each file through them.
`PositionOK` ties the position to the number of backups and held parents;
`KeptOK` says that an untouched file is the original or the target of a held
change, and during the rollback that it is back or still to be undone; `BackupOK`
and `HeldOK` say that backups are the originals; `InstalledOK` and `BeneathOK` say
what is in place and still beneath the workspace; `StagedOK` counts: as many
declared paths are staged as entries were read, none twice, so an archive of as
many entries as there are declared files stages all of them. `UpdateImplemented`
is the refinement of `UpdateContract`.

*Services.* `BootOK` says which services are handed over, recorded and ready at
each step of the start, `SupervisorOK` what a supervisor has said and done.
`OwnedOK` and `StaleOK` say who can be alive: in the daemon's first life, a
service that was handed over, abandoned or is being started; after a crash, one
that was recorded or lost. Reconciliation removes nothing before each recorded one
is gone.

*Builds.* `BuildInv` ties, for each build, the position of the executor to which
process group can be alive (`GroupsOK`), which error and workspace there can be
(`ErrorsOK`), what the exit event can say (`ExitOK`), which readers still run
(`ReadersOK`), the stream (`StreamOK`), who raised the shared flag (`FlagOK`) and
what a disconnect may be reported for (`ClosedOK`), plus the count of permits. A
step of one build leaves the others alone (`OthersStay`), so the argument is per
build; only the count is global, by the cardinality of the builds in flight.

*Artifacts.* An archive is written two steps before it is published, through
descriptors opened earlier still. `SelectedOK`, `OpenedOK` and `ArchiveOK` carry
what the traversal recorded through those steps while services write; `PhaseOK`
says what a phase may find in its directory, the collector's removals included.
`ScannedOK` relates an entry on the collector's list to the directory as it is
now, which is what `StoreTtl`, a property of steps, rests on.

*Client.* `ClientInv` has three parts. `CommandInv` relates the evidence in memory
and on disk, the request and the exit code at each label: a success is written
once and last, a session id the command has seen is in its evidence, one it has
not seen yet is only possible before it judges the response, and a start that
printed no line has asked for the stop of either. Its part `LineOK` says that a
printed line is the last thing a command does before it exits, and `LeftOK` that an
extraction is waited for and its failure recorded unless an interrupt abandoned it.
`WorkerInv` says when a packaging worker may outlive the command and that a
registered workspace it leaves is recorded as an error. `PackageInv`
follows the archive: both halves of an entry are of one version, and a file of an
update that is still what was read was so when the last read ended (`Taken`),
which makes the final recheck a snapshot of all of them. The paths of a pass are a
set that shrinks (the directory walk takes any member, the passes over sorted
entries the foremost), so that no induction over sequences is needed.

*Host observation.* `HostInv` counts the changes since the look before a capture
(`WatchOK`): with none everything is as listed, and a single change of the displays
is a difference that the look after the capture sees, so an image that passes both
looks is right or two changes were missed. `LoopOK` and `ReplyOK` carry the images
into the manifest; `DeliveryOK` says that the broker writes only to a stream its
worker still reads, so a command that has a response has it to itself.

Only model-checked: the liveness properties (`DeadlineReleasesPermit`,
`StopAnswered`, `ReadyEventuallyExpires`, `OrphanedSupervisorEnds`,
`FailureEndsSession`, `EndingEnds`, `PermitComesBack`, `StoreIsEmptied`,
`InterruptEnds`, `SlotComesBack`), because the proof system has no reasoning about
fairness and ENABLED. No property needs induction over data: where the code walks
over a sequence, an index or a set of remaining items is part of the state and the
induction is over the steps.

## Findings

*Teardown can run twice.* `finish_action` (`src/sessions.rs:1483`) cleans up
whenever the session is Terminating with owner Action, without comparing the
action. A worker whose wait for the acknowledgement ends just after its stream
acknowledged goes on to `finish_action`; if a second action has become the owner
by then, both clean up. The repository's README (line 432) says teardown runs at
most once. Run `session_teardown`; `CleanupOnce` states what holds otherwise.

*Metadata is removed before an unproven stop.* An initializer that loses the
commit election removes the durable metadata (`src/sessions.rs:611`) before it
stops the services; if one cannot be proven stopped nothing is left for startup
reconciliation. The README (line 475) says it is retained. Run
`session_unproven`; `UnprovenReadyKeepsMetadata` states what holds for a session
that was Ready.

`DisconnectIsReal` carries one exception that the code has and no document
mentions: a reader of `setup` that outlived its join and passes the output limit
between the phases makes the build report a closed stream.

## Abstractions

Bytes are versions: file contents, hashes, images and archives are told apart
only as far as a property does. Output is counted in chunks of one byte. Glob
patterns are the sets of paths they match, with the literal prefix the walk is
pruned to. Times are orders of events and, in `ArtifactStore`, ages up to one step
past the TTL. A system call that fails may or may not have had its effect. Process
identifiers are not reused. Displays are in one of a few numbered arrangements, which
may come back, and the application shows one of a few lists of windows. Panics are
modelled where the code catches them (the update worker).

## Not modelled

- Source archive extraction (`src/build.rs` 1391-1694): one sequential function
  over a private file and a directory nobody else can reach. `Build` has its
  outcome.
- The echo of output events in the client with its limits, request files,
  arguments and connection settings: no other part reads their state.
- Routing, header parsing, error bodies and the download route of the HTTP layer.
- Configuration, protocol types, bearer token, user lookup, path validation: pure
  functions or values fixed at start-up. Their results are the constants.
- Logging: a bounded queue that drops lines, a writer thread, a rotating file.
- The native macOS calls and the socket's access check: `HostObservation` has
  their outcomes.
