------------------------------- MODULE Build -------------------------------
(***************************************************************************)
(* One-shot builds, from admission to the end of the response stream       *)
(* (src/http.rs start_build, src/build.rs execute_build).                  *)
(*                                                                         *)
(* Each build is four kinds of actors: the executor, a blocking thread     *)
(* that owns the permit, the workspace and the task's process groups; one  *)
(* reader thread per output stream of each phase; the response stream,     *)
(* which the client drains or drops; and the task itself, whose leader,    *)
(* helpers and escaped processes end when they like.  Builds and sessions  *)
(* meet at the build_slots semaphore; a session is only a holder of a      *)
(* permit here.  A chunk of output counts as one byte of max_output_bytes; *)
(* event contents are kept only as far as a property tells them apart.     *)
(***************************************************************************)
EXTENDS Naturals, FiniteSets

CONSTANTS
    Builds,          \* build requests
    WithSetup,       \* the ones whose task configures a setup phase
    Kinds,           \* output streams of a phase: stdout, stderr
    MaxConcurrent,   \* service.max_concurrent_builds
    MaxOutputBytes,  \* build.max_output_bytes, in chunks
    Capacity         \* slots of the response channel

ASSUME BuildAssumption ==
    /\ IsFiniteSet(Builds) /\ WithSetup \subseteq Builds
    /\ MaxConcurrent \in Nat \ {0}
    /\ MaxOutputBytes \in Nat
    /\ Capacity \in Nat \ {0}

VARIABLES
    permits,     \* free permits of build_slots
    sessions,    \* permits held by managed sessions
    pc,          \* where the request or its executor is
    phase,       \* the phase the executor is in
    outcome,     \* how the phase's wait ended: the leader's code, one of Late, "cancelled"
    err,         \* the BuildError run_build returned, or "none"
    cancelled,   \* the build's CancellationFlag
    exceeded,    \* output_exceeded
    bytes,       \* output_bytes
    queue,       \* events in the response channel
    stream,      \* the response stream: "none", "open", "dropped", "ended"
    group,       \* the process group of each phase
    escaped,     \* phases with a process outside the group that holds the pipes
    signal,      \* the signal last sent to the current phase's group
    reader,      \* the reader threads
    detached,    \* readers whose join gave up
    workspace,   \* the fresh workspace: "none", "here", or "left" by a removal that failed
    archive,     \* the artifact archive is in the store
    exit,        \* the exit event put on the channel, code and timed_out, or "none"
    stalled      \* a send gave up on a full channel

vars == <<permits, sessions, pc, phase, outcome, err, cancelled, exceeded, bytes, queue,
          stream, group, escaped, signal, reader, detached, workspace, archive,
          exit, stalled>>

request == <<permits, phase, outcome, err>>
output == <<exceeded, bytes, reader, detached>>
task == <<group, escaped, signal>>
files == <<workspace, archive>>

Phases == {"setup", "run"}
Readers == Phases \X Kinds

\* The code of a leader whose wait was cut short at the deadline (timed_out):
\* it may have answered SIGTERM with exit(0).
Late == {"late_0", "late_1"}

\* The executor no longer exists, and the permit is back.
Over == {"rejected", "busy", "done"}

\* Members of a phase's group are alive.
GroupAlive(b, p) == group[b][p] \in {"leader", "helpers"}

\* Some process still has the write end of the phase's pipes open.
Writers(b, p) == GroupAlive(b, p) \/ p \in escaped[b]

Init ==
    /\ permits = MaxConcurrent
    /\ sessions = 0
    /\ pc = [b \in Builds |-> "idle"]
    /\ phase = [b \in Builds |-> IF b \in WithSetup THEN "setup" ELSE "run"]
    /\ outcome = [b \in Builds |-> "none"]
    /\ err = [b \in Builds |-> "none"]
    /\ cancelled = [b \in Builds |-> FALSE]
    /\ exceeded = [b \in Builds |-> FALSE]
    /\ bytes = [b \in Builds |-> 0]
    /\ queue = [b \in Builds |-> 0]
    /\ stream = [b \in Builds |-> "none"]
    /\ group = [b \in Builds |-> [p \in Phases |-> "none"]]
    /\ escaped = [b \in Builds |-> {}]
    /\ signal = [b \in Builds |-> "none"]
    /\ reader = [b \in Builds |-> [r \in Readers |-> "none"]]
    /\ detached = [b \in Builds |-> {}]
    /\ workspace = [b \in Builds |-> "none"]
    /\ archive = [b \in Builds |-> FALSE]
    /\ exit = [b \in Builds |-> "none"]
    /\ stalled = [b \in Builds |-> FALSE]

-----------------------------------------------------------------------------
(* Admission and upload: start_build up to spawn_blocking.                 *)

\* Authentication, metadata and task validation refuse the request: no
\* permit was taken.
Refuse(b) ==
    /\ pc[b] = "idle"
    /\ pc' = [pc EXCEPT ![b] = "rejected"]
    /\ UNCHANGED <<request, cancelled, output, queue, stream, task, files, exit, stalled>>

\* try_acquire_owned never waits: no free permit is an immediate 503 busy.
Admit(b) ==
    /\ pc[b] = "idle"
    /\ \/ /\ permits > 0
          /\ permits' = permits - 1
          /\ pc' = [pc EXCEPT ![b] = "upload"]
       \/ /\ permits = 0
          /\ pc' = [pc EXCEPT ![b] = "busy"]
          /\ UNCHANGED permits
    /\ UNCHANGED <<phase, outcome, err, cancelled, output, queue, stream, task,
                   files, exit, stalled>>

\* receive_source_upload fails, exceeds max_transfer_bytes, runs into the
\* upload deadline, or its connection goes: the temporary file and the
\* permit are dropped with the handler.
UploadFails(b) ==
    /\ pc[b] = "upload"
    /\ pc' = [pc EXCEPT ![b] = "rejected"]
    /\ permits' = permits + 1
    /\ UNCHANGED <<phase, outcome, err, cancelled, output, queue, stream, task,
                   files, exit, stalled>>

\* The archive is complete: the executor starts with the permit and the
\* sender, the response with the receiver.
UploadDone(b) ==
    /\ pc[b] = "upload"
    /\ pc' = [pc EXCEPT ![b] = "announce"]
    /\ stream' = [stream EXCEPT ![b] = "open"]
    /\ UNCHANGED <<request, cancelled, output, queue, task, files, exit, stalled>>

-----------------------------------------------------------------------------
(* Managed sessions take a permit of the same semaphore and keep it until  *)
(* they are removed.                                                       *)

SessionStarts ==
    /\ permits > 0
    /\ permits' = permits - 1
    /\ sessions' = sessions + 1
    /\ UNCHANGED <<pc, phase, outcome, err, cancelled, output, queue, stream, task,
                   files, exit, stalled>>

SessionEnds ==
    /\ sessions > 0
    /\ permits' = permits + 1
    /\ sessions' = sessions - 1
    /\ UNCHANGED <<pc, phase, outcome, err, cancelled, output, queue, stream, task,
                   files, exit, stalled>>

-----------------------------------------------------------------------------
(* The response channel.                                                   *)

\* send_response: one attempt that finds a slot, a closed channel, or a
\* channel that stayed full for OUTPUT_FORWARD_GRACE.
Sends(b) ==
    /\ stream[b] = "open"
    /\ queue[b] < Capacity
    /\ queue' = [queue EXCEPT ![b] = @ + 1]
    /\ UNCHANGED stalled

SendFails(b) ==
    /\ \/ stream[b] # "open" /\ UNCHANGED stalled
       \/ /\ stream[b] = "open"
          /\ queue[b] = Capacity
          /\ stalled' = [stalled EXCEPT ![b] = TRUE]
    /\ UNCHANGED queue

\* The body yields an event to the client.
Receive(b) ==
    /\ stream[b] = "open"
    /\ queue[b] > 0
    /\ queue' = [queue EXCEPT ![b] = @ - 1]
    /\ UNCHANGED <<request, pc, cancelled, output, stream, task, files, exit, stalled>>

\* The client goes away: hyper drops the BuildEventStream, and its Drop
\* cancels the build.
Disconnect(b) ==
    /\ stream[b] = "open"
    /\ stream' = [stream EXCEPT ![b] = "dropped"]
    /\ queue' = [queue EXCEPT ![b] = 0]
    /\ cancelled' = [cancelled EXCEPT ![b] = TRUE]
    /\ UNCHANGED <<request, pc, output, task, files, exit, stalled>>

\* Every sender is gone, the executor's and the readers', and the channel is
\* empty: the body ends and the stream is dropped as well.
StreamEnds(b) ==
    /\ stream[b] = "open"
    /\ pc[b] = "done"
    /\ queue[b] = 0
    /\ \A r \in Readers : reader[b][r] \in {"none", "done"}
    /\ stream' = [stream EXCEPT ![b] = "ended"]
    /\ cancelled' = [cancelled EXCEPT ![b] = TRUE]
    /\ UNCHANGED <<request, pc, output, queue, task, files, exit, stalled>>

-----------------------------------------------------------------------------
(* The executor: execute_build, run_build and finish_build.                *)

\* The TempDir is dropped with run_build, and an error of its removal is
\* swallowed.
DropWorkspace(b) ==
    \E rest \in {"none", "left"} : workspace' = [workspace EXCEPT ![b] = rest]

\* run_build returns the error e, and execute_build reports it.
Fails(b, e) ==
    /\ pc' = [pc EXCEPT ![b] = "reportError"]
    /\ err' = [err EXCEPT ![b] = e]
    /\ IF pc[b] = "announce" THEN UNCHANGED workspace ELSE DropWorkspace(b)

\* run_build announces the build before it touches the disk.
Announce(b) ==
    /\ pc[b] = "announce"
    /\ \/ /\ Sends(b)
          /\ pc' = [pc EXCEPT ![b] = "prepare"]
          /\ UNCHANGED <<err, workspace>>
       \/ SendFails(b) /\ Fails(b, "stream_closed")
    /\ UNCHANGED <<permits, phase, outcome, cancelled, output, stream, task,
                   archive, exit>>

\* The fresh workspace, the extraction of the source and its ownership; the
\* cancellation flag is not looked at.
Prepare(b) ==
    /\ pc[b] = "prepare"
    /\ \/ /\ workspace' = [workspace EXCEPT ![b] = "here"]
          /\ pc' = [pc EXCEPT ![b] = "enter"]
          /\ UNCHANGED err
       \/ Fails(b, "source_archive")
    /\ UNCHANGED <<permits, phase, outcome, cancelled, output, queue, stream,
                   task, archive, exit, stalled>>

\* The head of run_phase: a cancelled build starts nothing more.
EnterPhase(b) ==
    /\ pc[b] = "enter"
    /\ \/ /\ cancelled[b]
          /\ Fails(b, "stream_closed")
          /\ UNCHANGED <<queue, stalled>>
       \/ /\ ~cancelled[b]
          /\ SendFails(b)
          /\ Fails(b, "stream_closed")
       \/ /\ ~cancelled[b]
          /\ Sends(b)
          /\ pc' = [pc EXCEPT ![b] = "spawn"]
          /\ UNCHANGED <<err, workspace>>
    /\ UNCHANGED <<permits, phase, outcome, cancelled, output, stream, task,
                   archive, exit>>

\* One reader thread per stream of the phase.
SpawnReaders(b, p) ==
    reader' = [reader EXCEPT ![b] =
        [r \in Readers |-> IF r[1] = p THEN "reading" ELSE @[r]]]

\* The child in its own process group, and its readers.
SpawnPhase(b) ==
    LET p == phase[b] IN
    /\ pc[b] = "spawn"
    /\ \/ /\ Fails(b, "spawn_failed")
          /\ UNCHANGED <<group, escaped, signal, reader>>
       \/ /\ pc' = [pc EXCEPT ![b] = "wait"]
          /\ group' = [group EXCEPT ![b][p] = "leader"]
          /\ \E holds \in {{}, {p}} : escaped' = [escaped EXCEPT ![b] = @ \cup holds]
          /\ signal' = [signal EXCEPT ![b] = "none"]
          /\ SpawnReaders(b, p)
          /\ UNCHANGED <<err, workspace>>
    /\ UNCHANGED <<permits, phase, outcome, cancelled, exceeded, bytes, detached,
                   queue, stream, archive, exit, stalled>>

\* One round of wait_with_timeout: an exited leader comes first, then the
\* flag, then the deadline, after which the leader's own code is kept.
WaitPhase(b) ==
    /\ pc[b] = "wait"
    /\ \/ /\ group[b][phase[b]] # "leader"
          /\ \E code \in {"0", "1"} : outcome' = [outcome EXCEPT ![b] = code]
       \/ /\ group[b][phase[b]] = "leader"
          /\ cancelled[b]
          /\ outcome' = [outcome EXCEPT ![b] = "cancelled"]
       \/ /\ group[b][phase[b]] = "leader"
          /\ ~cancelled[b]
          /\ \E late \in Late : outcome' = [outcome EXCEPT ![b] = late]
    /\ pc' = [pc EXCEPT ![b] = "terminate"]
    /\ UNCHANGED <<permits, phase, err, cancelled, output, queue, stream, task,
                   files, exit, stalled>>

\* A signal to the whole group; one that finds nobody is not an error.
Signal(b, sig) == signal' = [signal EXCEPT ![b] = sig]

\* Helpers of a leader that exited by itself are left alone.
TerminateUnlessExited(b) ==
    /\ pc[b] = "terminate"
    /\ \/ /\ group[b][phase[b]] # "leader"
          /\ pc' = [pc EXCEPT ![b] = "join"]
          /\ UNCHANGED signal
       \/ /\ group[b][phase[b]] = "leader"
          /\ pc' = [pc EXCEPT ![b] = "grace"]
          /\ Signal(b, "term")
    /\ UNCHANGED <<request, cancelled, output, queue, stream, group, escaped,
                   files, exit, stalled>>

\* terminate_remaining_group and terminate_process begin alike: nothing to do
\* for a group that is gone, else SIGTERM.
Terminate(b) ==
    /\ pc[b] = "terminate"
    /\ \/ /\ ~GroupAlive(b, phase[b])
          /\ pc' = [pc EXCEPT ![b] = "join"]
          /\ UNCHANGED signal
       \/ /\ GroupAlive(b, phase[b])
          /\ pc' = [pc EXCEPT ![b] = "grace"]
          /\ Signal(b, "term")
    /\ UNCHANGED <<request, cancelled, output, queue, stream, group, escaped,
                   files, exit, stalled>>

\* The grace ends the phase whether or not the group did.
GraceWithoutKill(b) ==
    /\ pc[b] = "grace"
    /\ pc' = [pc EXCEPT ![b] = "join"]
    /\ UNCHANGED <<request, cancelled, output, queue, stream, task, files, exit, stalled>>

\* TIMEOUT_KILL_GRACE: the group ends within it, or SIGKILL follows.
Grace(b) ==
    /\ pc[b] = "grace"
    /\ \/ /\ ~GroupAlive(b, phase[b])
          /\ pc' = [pc EXCEPT ![b] = "join"]
          /\ UNCHANGED signal
       \/ /\ GroupAlive(b, phase[b])
          /\ pc' = [pc EXCEPT ![b] = "kill"]
          /\ Signal(b, "kill")
    /\ UNCHANGED <<request, cancelled, output, queue, stream, group, escaped,
                   files, exit, stalled>>

\* A group that survives SIGKILL for another grace is an error of the wait,
\* and run_phase returns without joining its readers.
AfterKill(b) ==
    /\ pc[b] = "kill"
    /\ \/ /\ ~GroupAlive(b, phase[b])
          /\ pc' = [pc EXCEPT ![b] = "join"]
          /\ UNCHANGED <<err, workspace, detached>>
       \/ /\ GroupAlive(b, phase[b])
          /\ Fails(b, "wait_failed")
          /\ detached' = [detached EXCEPT ![b] = @ \cup ({phase[b]} \X Kinds)]
    /\ UNCHANGED <<permits, phase, outcome, cancelled, exceeded, bytes, reader,
                   queue, stream, task, archive, exit, stalled>>

\* A join without its deadline.
JoinReadersForEver(b) ==
    /\ pc[b] = "join"
    /\ \A k \in Kinds : reader[b][<<phase[b], k>>] = "done"
    /\ pc' = [pc EXCEPT ![b] = "check"]
    /\ UNCHANGED <<request, cancelled, output, queue, stream, task, files, exit, stalled>>

\* join_output_thread for each stream: wait for the end, or detach a reader
\* that does not end within OUTPUT_FORWARD_GRACE.
JoinReaders(b) ==
    /\ pc[b] = "join"
    /\ pc' = [pc EXCEPT ![b] = "check"]
    /\ detached' = [detached EXCEPT ![b] = @ \cup
          {r \in {phase[b]} \X Kinds : reader[b][r] # "done"}]
    /\ UNCHANGED <<request, cancelled, exceeded, bytes, reader, queue, stream,
                   task, files, exit, stalled>>

\* The wait's outcome is looked at before the output limit.
CheckPhaseOutcomeFirst(b) ==
    /\ pc[b] = "check"
    /\ IF outcome[b] = "cancelled" THEN Fails(b, "stream_closed")
       ELSE IF exceeded[b] THEN Fails(b, "output_limit")
       ELSE pc' = [pc EXCEPT ![b] = "finish"] /\ UNCHANGED <<err, workspace>>
    /\ UNCHANGED <<permits, phase, outcome, cancelled, output, queue, stream,
                   task, archive, exit, stalled>>

\* The tail of run_phase: the output limit outranks every outcome, a
\* cancelled wait is a disconnect, everything else is a result.
CheckPhase(b) ==
    /\ pc[b] = "check"
    /\ IF exceeded[b] THEN Fails(b, "output_limit")
       ELSE IF outcome[b] = "cancelled" THEN Fails(b, "stream_closed")
       ELSE pc' = [pc EXCEPT ![b] = "finish"] /\ UNCHANGED <<err, workspace>>
    /\ UNCHANGED <<permits, phase, outcome, cancelled, output, queue, stream,
                   task, archive, exit, stalled>>

\* run_task_phases: a setup that succeeded is followed by run, every other
\* result by the collection of artifacts.
NextPhase(b) ==
    IF phase[b] = "setup" /\ outcome[b] = "0"
    THEN /\ phase' = [phase EXCEPT ![b] = "run"]
         /\ pc' = [pc EXCEPT ![b] = "enter"]
    ELSE /\ pc' = [pc EXCEPT ![b] = "collect"]
         /\ UNCHANGED phase

\* phase_finished is sent, and run_phase returns the result.
FinishPhase(b) ==
    /\ pc[b] = "finish"
    /\ \/ /\ SendFails(b)
          /\ Fails(b, "stream_closed")
          /\ UNCHANGED phase
       \/ /\ Sends(b)
          /\ NextPhase(b)
          /\ UNCHANGED <<err, workspace>>
    /\ UNCHANGED <<permits, outcome, cancelled, output, stream, task, archive, exit>>

\* finish_build collects the artifacts of every result; the flag is not
\* looked at, and an archive, when patterns match, is published.
Collect(b) ==
    /\ pc[b] = "collect"
    /\ \/ /\ \E some \in BOOLEAN : archive' = [archive EXCEPT ![b] = some]
          /\ pc' = [pc EXCEPT ![b] = "exit"]
       \/ /\ pc' = [pc EXCEPT ![b] = "artifactError"]
          /\ UNCHANGED archive
    /\ UNCHANGED <<request, cancelled, output, queue, stream, task, workspace,
                   exit, stalled>>

\* A failed collection is an error event before the exit event.
ArtifactError(b) ==
    /\ pc[b] = "artifactError"
    /\ \/ /\ SendFails(b)
          /\ Fails(b, "stream_closed")
       \/ /\ Sends(b)
          /\ pc' = [pc EXCEPT ![b] = "exit"]
          /\ err' = [err EXCEPT ![b] = "artifacts"]
          /\ UNCHANGED workspace
    /\ UNCHANGED <<permits, phase, outcome, cancelled, output, stream, task,
                   archive, exit>>

\* The task's status, whatever became of its artifacts.
ExitCodeOfTask(b) == outcome[b]

\* The exit event of finish_build: the task's status, but after a failed
\* collection never that of a success.
ExitCode(b) == IF err[b] = "artifacts" /\ outcome[b] = "0" THEN "1" ELSE outcome[b]

SendExit(b) ==
    /\ pc[b] = "exit"
    /\ \/ /\ SendFails(b)
          /\ Fails(b, "stream_closed")
          /\ UNCHANGED exit
       \/ /\ Sends(b)
          /\ pc' = [pc EXCEPT ![b] = "release"]
          /\ exit' = [exit EXCEPT ![b] = ExitCode(b)]
          /\ DropWorkspace(b)
          /\ UNCHANGED err
    /\ UNCHANGED <<permits, phase, outcome, cancelled, output, stream, task, archive>>

\* execute_build reports the error and then exit code 1; whether either
\* event finds a reader is ignored.
ReportError(b) ==
    /\ pc[b] = "reportError"
    /\ Sends(b) \/ SendFails(b)
    /\ pc' = [pc EXCEPT ![b] = "reportExit"]
    /\ UNCHANGED <<request, cancelled, output, stream, task, files, exit>>

ReportExit(b) ==
    /\ pc[b] = "reportExit"
    /\ \/ /\ Sends(b)
          /\ exit' = [exit EXCEPT ![b] = "1"]
       \/ SendFails(b) /\ UNCHANGED exit
    /\ pc' = [pc EXCEPT ![b] = "release"]
    /\ UNCHANGED <<request, cancelled, output, stream, task, files>>

\* The blocking task returns: the upload, the sender and the permit go.
Release(b) ==
    /\ pc[b] = "release"
    /\ pc' = [pc EXCEPT ![b] = "done"]
    /\ permits' = permits + 1
    /\ UNCHANGED <<phase, outcome, err, cancelled, output, queue, stream, task,
                   files, exit, stalled>>

-----------------------------------------------------------------------------
(* The readers: stream_output and forward_output.                          *)

ReaderDone(b, r) == reader' = [reader EXCEPT ![b][r] = "done"]

\* A chunk is counted before anything else; the one that passes the limit
\* raises exceeded first and the flag second, and is not forwarded.
ReadChunk(b, r) ==
    /\ reader[b][r] = "reading"
    /\ bytes' = [bytes EXCEPT ![b] = @ + 1]
    /\ IF bytes[b] + 1 > MaxOutputBytes
       THEN /\ exceeded' = [exceeded EXCEPT ![b] = TRUE]
            /\ cancelled' = [cancelled EXCEPT ![b] = TRUE]
            /\ ReaderDone(b, r)
       ELSE /\ reader' = [reader EXCEPT ![b][r] = "holding"]
            /\ UNCHANGED <<exceeded, cancelled>>
    /\ UNCHANGED <<request, pc, detached, queue, stream, task, files, exit, stalled>>

\* End of file once nobody holds the write end.
ReadEnd(b, r) ==
    /\ reader[b][r] = "reading"
    /\ ~Writers(b, r[1])
    /\ ReaderDone(b, r)
    /\ UNCHANGED <<request, pc, cancelled, exceeded, bytes, detached, queue,
                   stream, task, files, exit, stalled>>

\* The counted chunk is forwarded, unless the build is cancelled or the
\* channel refuses it: then the reader cancels the build and ends.
ForwardOutput(b, r) ==
    /\ reader[b][r] = "holding"
    /\ \/ /\ ~cancelled[b]
          /\ Sends(b)
          /\ reader' = [reader EXCEPT ![b][r] = "reading"]
          /\ UNCHANGED cancelled
       \/ /\ \/ cancelled[b] /\ UNCHANGED <<queue, stalled>>
             \/ ~cancelled[b] /\ SendFails(b)
          /\ cancelled' = [cancelled EXCEPT ![b] = TRUE]
          /\ ReaderDone(b, r)
    /\ UNCHANGED <<request, pc, exceeded, bytes, detached, stream, task, files, exit>>

-----------------------------------------------------------------------------
(* The task's processes.                                                   *)

\* The leader ends by itself or by the signal, with or without helpers left
\* in its group.
LeaderExits(b, p) ==
    /\ group[b][p] = "leader"
    /\ \E rest \in {"helpers", "gone"} : group' = [group EXCEPT ![b][p] = rest]
    /\ UNCHANGED <<request, pc, cancelled, output, queue, stream, escaped, signal,
                   files, exit, stalled>>

HelpersExit(b, p) ==
    /\ group[b][p] = "helpers"
    /\ group' = [group EXCEPT ![b][p] = "gone"]
    /\ UNCHANGED <<request, pc, cancelled, output, queue, stream, escaped, signal,
                   files, exit, stalled>>

\* A process that left the group (setsid) lets go of the pipes.
EscapedEnds(b, p) ==
    /\ p \in escaped[b]
    /\ escaped' = [escaped EXCEPT ![b] = @ \ {p}]
    /\ UNCHANGED <<request, pc, cancelled, output, queue, stream, group, signal,
                   files, exit, stalled>>

-----------------------------------------------------------------------------

Handler(b) == Refuse(b) \/ Admit(b) \/ UploadFails(b) \/ UploadDone(b)

Executor(b) ==
    \/ Announce(b) \/ Prepare(b) \/ EnterPhase(b) \/ SpawnPhase(b) \/ WaitPhase(b)
    \/ Terminate(b) \/ Grace(b) \/ AfterKill(b) \/ JoinReaders(b) \/ CheckPhase(b)
    \/ FinishPhase(b) \/ Collect(b) \/ ArtifactError(b) \/ SendExit(b)
    \/ ReportError(b) \/ ReportExit(b) \/ Release(b)

Reader(b, r) == ReadChunk(b, r) \/ ReadEnd(b, r) \/ ForwardOutput(b, r)

Process(b, p) == LeaderExits(b, p) \/ HelpersExit(b, p) \/ EscapedEnds(b, p)

Client(b) == Receive(b) \/ Disconnect(b) \/ StreamEnds(b)

\* Every build is over, and so is everything it started.
Finished ==
    /\ \A b \in Builds :
        /\ pc[b] \in Over
        /\ stream[b] # "open"
        /\ \A p \in Phases : ~Writers(b, p)
        /\ \A r \in Readers : reader[b][r] \in {"none", "done"}
    /\ UNCHANGED vars

Next ==
    \/ SessionStarts \/ SessionEnds
    \/ \E b \in Builds : (Handler(b) \/ Executor(b) \/ Client(b)) /\ UNCHANGED sessions
    \/ \E b \in Builds, r \in Readers : Reader(b, r) /\ UNCHANGED sessions
    \/ \E b \in Builds, p \in Phases : Process(b, p) /\ UNCHANGED sessions
    \/ Finished

Spec == Init /\ [][Next]_vars

(***************************************************************************)
(* Fairness.  The upload deadline ends the handler's wait, and every wait  *)
(* of the executor has a deadline of its own, so both threads always move. *)
(* Nothing is assumed of the client, the task's processes or the readers.  *)
(***************************************************************************)
FairSpec ==
    /\ Spec
    /\ \A b \in Builds : 
        /\ WF_vars((UploadFails(b) \/ UploadDone(b)) /\ UNCHANGED sessions)
        /\ WF_vars(Executor(b) /\ UNCHANGED sessions)

-----------------------------------------------------------------------------

(***************************************************************************)
(* A permit covers all the work done under it: the free permits, sessions  *)
(* and builds in flight add up, and once a build has given its permit back *)
(* no member of its process groups is alive, unless a group survived       *)
(* SIGKILL and the build reported wait_failed, and its workspace is gone,  *)
(* unless the removal was tried and failed.  Otherwise                     *)
(* max_concurrent_builds would not bound what runs on the machine.         *)
(***************************************************************************)
PermitCoversWork ==
    /\ permits + sessions + Cardinality({b \in Builds : pc[b] \notin Over \cup {"idle"}})
         = MaxConcurrent
    /\ \A b \in Builds : pc[b] \in Over =>
        /\ workspace[b] # "here"
        /\ err[b] = "wait_failed" \/ \A p \in Phases : ~GroupAlive(b, p)

(***************************************************************************)
(* A build with a connected, draining client is never told that the client *)
(* disconnected.  stream_closed is reported only when the stream was       *)
(* dropped, when a send gave up on a full channel, or when a reader that   *)
(* outlived its phase passed the output limit between two phases: every    *)
(* other use of the shared flag is reported as output_limit.               *)
(***************************************************************************)
DisconnectIsReal ==
    \A b \in Builds : err[b] = "stream_closed" =>
        \/ stream[b] = "dropped"
        \/ stalled[b]
        \/ exceeded[b] /\ \E k \in Kinds : <<"setup", k>> \in detached[b]

(***************************************************************************)
(* An exit event means what a caller takes it to mean.  Code 0 without     *)
(* timed_out: run was reached and exited 0 by itself, and no error was     *)
(* reported.  A wait that was cut short is told as timed_out, with the     *)
(* code the leader ended with, also after a failed collection and also     *)
(* when that code is 0.  And no process of the build's groups is left when *)
(* the event is sent, but of a group that survived SIGKILL.                *)
(***************************************************************************)
ExitZeroIsSuccess ==
    \A b \in Builds : exit[b] # "none" =>
        /\ exit[b] = "0" => phase[b] = "run" /\ outcome[b] = "0" /\ err[b] = "none"
        /\ outcome[b] \in Late /\ err[b] \in {"none", "artifacts"} => exit[b] = outcome[b]
        /\ err[b] # "wait_failed" => \A p \in Phases : ~GroupAlive(b, p)

(***************************************************************************)
(* No process of setup's group is alive once run has been spawned, so      *)
(* background helpers do not cross the phase boundary.                     *)
(***************************************************************************)
SetupEndsBeforeRun ==
    \A b \in Builds : group[b]["run"] # "none" => ~GroupAlive(b, "setup")

(***************************************************************************)
(* A build that holds a permit gives it back, whatever its client, its     *)
(* task's processes and its readers do: the client may stop reading        *)
(* without closing, helpers may ignore SIGTERM, and an escaped process may *)
(* keep the pipes open for ever.                                           *)
(***************************************************************************)
PermitComesBack == \A b \in Builds : pc[b] = "upload" ~> pc[b] \in Over

=============================================================================
