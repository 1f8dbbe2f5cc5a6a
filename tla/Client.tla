------------------------------- MODULE Client -------------------------------
(***************************************************************************)
(* One invocation of the client (src/bin/indentured.rs): `run` or one of   *)
(* the session commands, from its first byte of evidence to its exit code. *)
(* SIGINT arrives at any moment; writes of the provenance may fail; the    *)
(* server answers, refuses, hangs, breaks the stream or sends what the     *)
(* reader does not accept.  Source packaging is the worker of              *)
(* ClientSource, which the command waits for and may cancel.               *)
(***************************************************************************)
EXTENDS ClientSource, Integers, FiniteSetsExt

CONSTANTS
    Commands,     \* subset of {"run", "start", "update", "action", "stop"}
    Codes,        \* exit codes the server reports
    MaxFaults     \* bound: steps in which a write of the provenance fails

ASSUME ClientAssumption ==
    /\ Commands \subseteq {"run", "start", "update", "action", "stop"}
    /\ Codes \subseteq Int

VARIABLES
    cmd,
    pc,
    sig,          \* SIGINT: "none", "early", "late" (after completion was claimed)
    claimed,      \* InterruptState::Completed
    mem,          \* the provenance in memory
    disk,         \* provenance.json
    failed,       \* persistence_failure
    faults,
    seen,         \* what the response reader has read: "none", "id", "final"
    queued,       \* an id is in the observed channel
    observed,     \* observed_session_id, observed_action_id
    res,          \* what the request came to
    after,        \* what follows the best-effort stop
    asked,        \* a DELETE of the session was sent by the best-effort stop
    dl,           \* the artifact download and its extraction worker
    staging,      \* the extraction's staging directory: "none", "made", or
                  \* "left" by a removal that failed
    out,          \* machine-readable stdout: "empty", "line", "partial"
    code          \* the exit code

request == <<seen, queued, observed, res>>
local == <<dl, staging, out>>
evidence == <<mem, disk, failed, faults>>

vars == <<source, cmd, pc, sig, claimed, evidence, request, after, asked, local, code>>

Session == cmd # "run"

\* Exit codes the client makes up itself.
NoCode == -1
ConnectionFallback == 222
Interrupted130 == 130
TimedOut124 == 124

NoResult == [kind |-> "none", code |-> 0, timed |-> FALSE, bad |-> FALSE, arts |-> FALSE]

Provenance == [status |-> "preparing", id |-> FALSE, errors |-> FALSE, cleanup |-> "none"]

NoProvenance == [Provenance EXCEPT !.status = "none"]

Init ==
    /\ SourceInit
    /\ cmd \in Commands
    /\ kind.update = (cmd = "update")
    /\ cmd \in {"action", "stop"} => kind.jj
    /\ pc = IF cmd = "run" THEN "config" ELSE "prepare"
    /\ sig = "none"
    /\ claimed = FALSE
    /\ mem = NoProvenance
    /\ disk = NoProvenance
    /\ failed = FALSE
    /\ faults = 0
    /\ seen = "none"
    /\ queued = FALSE
    /\ observed = FALSE
    /\ res = NoResult
    /\ after = "none"
    /\ asked = FALSE
    /\ dl = "none"
    /\ staging = "none"
    /\ out = "empty"
    /\ code = NoCode

-----------------------------------------------------------------------------
(* Evidence: provenance.json is replaced whole, or stays as it was.        *)

WithStatus(m, s) == [m EXCEPT !.status = s]
WithError(m) == [m EXCEPT !.errors = TRUE]
WithCleanup(m, c) == [m EXCEPT !.cleanup = c]
WithId(m) == [m EXCEPT !.id = TRUE]

\* A failed write is remembered and the next one is made all the same.
Writes(ms) ==
    \E bad \in SUBSET DOMAIN ms :
        LET kept == DOMAIN ms \ bad
        IN  /\ bad # {} => faults < MaxFaults
            /\ faults' = IF bad = {} THEN faults ELSE faults + 1
            /\ mem' = ms[Len(ms)]
            /\ disk' = IF kept = {} THEN disk ELSE ms[Max(kept)]
            /\ failed' = (failed \/ bad # {})

\* Of a single write.
WriteFailed == faults' > faults

\* evidence_exit: a failed write overrides the code of a session command.
\* RunEvidence remembers none.
EvidenceExit(c) == IF Session /\ failed' THEN 1 ELSE c

Exit(c) == pc' = "exiting" /\ code' = EvidenceExit(c)

\* error and finish("failed"), as finish_session_failure does.
FailureRecord(m) == <<WithError(m), WithStatus(WithError(m), "failed")>>

FinishSessionFailure(c) ==
    /\ Writes(FailureRecord(mem))
    /\ Exit(c)
    /\ UNCHANGED <<after, asked>>

\* provenance_failure.
ProvenanceFailure ==
    /\ failed' = TRUE
    /\ pc' = "exiting"
    /\ code' = 1

\* finish_early_interrupted; `run` only writes the status.
EarlyRecord(m) ==
    LET c == IF cmd = "start" /\ ~m.id THEN WithCleanup(m, "not attempted") ELSE m
    IN  IF ~Session THEN <<WithStatus(m, "interrupted")>>
        ELSE (IF c # m THEN <<c>> ELSE <<>>)
               \o <<WithError(c), WithStatus(WithError(c), "interrupted")>>

FinishEarlyInterrupted ==
    /\ Writes(EarlyRecord(mem))
    /\ Exit(Interrupted130)
    /\ UNCHANGED <<after, asked>>

-----------------------------------------------------------------------------
(* The interrupt.                                                          *)

\* SIGINT is delivered to the listener.
Signal ==
    /\ sig = "none"
    /\ pc \notin {"ended", "killed"}
    /\ Session \/ pc \notin {"config", "resolve"}
    /\ sig' = IF claimed \/ pc = "exiting" THEN "late" ELSE "early"
    /\ UNCHANGED <<source, cmd, pc, claimed, evidence, request, after, asked, local, code>>

\* `run` leaves its listener to a task and yields once, which does not say that
\* the task has run: until it has, the default disposition ends the process.
Killed ==
    /\ ~Session
    /\ sig = "none"
    /\ pc \notin {"ended", "killed"}
    /\ pc' = "killed"
    /\ UNCHANGED <<source, cmd, sig, claimed, evidence, request, after, asked, local, code>>

\* poll_pending and interrupted: what the operation sees when it looks.
PollPending == sig = "early"

\* claim_completion.
ClaimCompletion == ~PollPending /\ claimed' = TRUE

-----------------------------------------------------------------------------
(* main, up to the command.                                                *)

\* prepare_session_evidence in a worker that is always waited for.
PrepareEvidence ==
    /\ pc = "prepare"
    /\ \/ /\ Writes(<<Provenance>>)
          /\ IF WriteFailed THEN pc' = "exiting" /\ code' = 1
             ELSE pc' = "prepared" /\ UNCHANGED code
       \/ /\ pc' = "exiting"
          /\ code' = 1
          /\ UNCHANGED evidence
    /\ UNCHANGED <<source, cmd, sig, claimed, request, after, asked, local>>

Prepared ==
    /\ pc = "prepared"
    /\ IF PollPending THEN FinishEarlyInterrupted
       ELSE pc' = "config" /\ UNCHANGED <<evidence, after, asked, code>>
    /\ UNCHANGED <<source, cmd, sig, claimed, request, local>>

\* load_client_config: loaded, refused, or the connection is disabled.
LoadConfig ==
    /\ pc = "config"
    /\ IF Session /\ PollPending THEN FinishEarlyInterrupted
       ELSE \/ pc' = "resolve" /\ UNCHANGED <<evidence, after, asked, code>>
            \/ \E c \in {1, ConnectionFallback} :
                  IF Session
                  THEN /\ Writes(FailureRecord(mem))
                       /\ pc' = "elect"
                       /\ code' = c
                       /\ UNCHANGED <<after, asked>>
                  ELSE pc' = "exiting" /\ code' = c /\ UNCHANGED <<evidence, after, asked>>
    /\ UNCHANGED <<source, cmd, sig, claimed, request, local>>

\* finish_session_failure_elected: a signal during the failure's own record
\* still makes the invocation an interrupted one.
ElectFailure ==
    /\ pc = "elect"
    /\ IF PollPending THEN FinishEarlyInterrupted
       ELSE /\ pc' = "exiting"
            /\ code' = IF failed THEN 1 ELSE code
            /\ UNCHANGED <<evidence, after, asked>>
    /\ UNCHANGED <<source, cmd, sig, claimed, request, local>>

\* Arguments, credentials, endpoint and limits: a poll first, then anything may
\* be refused.
ResolveSession ==
    \/ PollPending /\ FinishEarlyInterrupted
    \/ ~PollPending /\ FinishSessionFailure(1)

resolved == <<tree, edits, kind, cancelled, commit, plan, todo, file, archive, ws, unclean,
              result, before, cmd, sig, claimed, request, after, asked, local>>

StartPackaging == pc' = "package" /\ step' = "package" /\ UNCHANGED code

\* `run` makes its evidence here, before anything else can fail; the first
\* write is part of making it.
ResolveRun ==
    /\ pc = "resolve"
    /\ cmd = "run"
    /\ \/ /\ Writes(<<Provenance>>)
          /\ IF WriteFailed THEN pc' = "exiting" /\ code' = 1 /\ UNCHANGED step ELSE StartPackaging
       \/ Writes(<<Provenance>> \o FailureRecord(Provenance)) /\ Exit(1) /\ UNCHANGED step
       \/ pc' = "exiting" /\ code' = 1 /\ UNCHANGED <<evidence, step>>
    /\ UNCHANGED resolved

ResolveStart ==
    /\ pc = "resolve"
    /\ cmd = "start"
    /\ \/ ResolveSession /\ UNCHANGED step
       \/ ~PollPending /\ StartPackaging /\ UNCHANGED evidence
    /\ UNCHANGED resolved

\* An update records what it is about to send and where.
ResolveUpdate ==
    /\ pc = "resolve"
    /\ cmd = "update"
    /\ \/ ResolveSession /\ UNCHANGED step
       \/ /\ ~PollPending
          /\ Writes(<<mem>>)
          /\ IF WriteFailed THEN Exit(1) /\ UNCHANGED step ELSE StartPackaging
    /\ UNCHANGED resolved

ResolveAction ==
    /\ pc = "resolve"
    /\ cmd = "action"
    /\ \/ ResolveSession
       \/ /\ ~PollPending
          /\ Writes(<<WithStatus(mem, "reading_input")>>)
          /\ IF WriteFailed THEN Exit(1) ELSE pc' = "input" /\ UNCHANGED code
    /\ UNCHANGED <<resolved, step>>

ResolveStop ==
    /\ pc = "resolve"
    /\ cmd = "stop"
    /\ \/ ResolveSession
       \/ /\ ~PollPending
          /\ Writes(<<WithStatus(mem, "running")>>)
          /\ IF WriteFailed THEN Exit(1) ELSE pc' = "request" /\ UNCHANGED code
    /\ UNCHANGED <<resolved, step>>

-----------------------------------------------------------------------------
(* Source packaging.                                                       *)

\* The worker is not told.
InterruptPackagingUntold ==
    /\ pc = "package"
    /\ PollPending
    /\ pc' = "cancelling"
    /\ UNCHANGED <<source, cmd, sig, claimed, evidence, request, after, asked, local, code>>

\* The select over the interrupt and the worker.  The biased select of the
\* session commands looks at the interrupt first; that of `run` may not.
InterruptPackaging ==
    /\ pc = "package"
    /\ PollPending
    /\ cancelled' = TRUE
    /\ pc' = "cancelling"
    /\ UNCHANGED <<tree, edits, kind, step, commit, plan, todo, file, archive, ws, unclean, result,
                   before, cmd, sig, claimed, evidence, request, after, asked, local, code>>

\* The package is uploaded as it is; nothing looks at the tree again.
ForgetSource ==
    /\ tree' = [p \in Paths |-> Nothing]
    /\ edits' = 0
    /\ commit' = tree'
    /\ before' = tree'
    /\ plan' = <<>>
    /\ todo' = {}
    /\ file' = NoFile
    /\ archive' = <<>>
    /\ UNCHANGED <<kind, step, cancelled, ws, unclean, result>>

packaged == <<cmd, sig, claimed, request, local>>

\* The select of `run` is not biased: a result may win over a signal, which is
\* then looked for once more.  Writes that fail are ignored.
PackagedRun ==
    /\ pc = "package"
    /\ step = "ended"
    /\ cmd = "run"
    /\ \/ FinishSessionFailure(1)
       \/ /\ result = "ok"
          /\ IF PollPending THEN FinishEarlyInterrupted
             ELSE /\ Writes(<<WithStatus(mem, "running")>>)
                  /\ pc' = "request"
                  /\ UNCHANGED <<after, asked, code>>
    /\ ForgetSource
    /\ UNCHANGED packaged

\* Packaging failed, the manifest could not be written, or "running".
PackagedSession ==
    /\ pc = "package"
    /\ step = "ended"
    /\ ~PollPending
    /\ \/ FinishSessionFailure(1)
       \/ /\ result = "ok"
          /\ Writes(<<WithStatus(mem, "running")>>)
          /\ IF WriteFailed THEN Exit(1) ELSE pc' = "request" /\ UNCHANGED code
          /\ UNCHANGED <<after, asked>>
    /\ ForgetSource
    /\ UNCHANGED packaged

PackagedStart == cmd = "start" /\ PackagedSession

\* The metadata of an update is limited as well.
PackagedUpdate == cmd = "update" /\ PackagedSession

\* The cancelled worker is given seven seconds.  What it could not clean up,
\* or that it did not finish, is recorded.
Cancelled ==
    /\ pc = "cancelling"
    /\ LET m == IF step # "ended" \/ unclean \/ result = "failed" THEN WithError(mem) ELSE mem
       IN  Writes((IF m # mem THEN <<m>> ELSE <<>>) \o EarlyRecord(m))
    /\ Exit(Interrupted130)
    /\ UNCHANGED <<source, cmd, sig, claimed, request, after, asked, local>>

-----------------------------------------------------------------------------
(* The best-effort stop, and what follows it.                              *)

BestEffortStop(then) ==
    /\ pc' = "stopping"
    /\ after' = then
    /\ asked' = TRUE

\* finish_interrupted_session.
Interrupt == BestEffortStop("interrupted") /\ UNCHANGED <<evidence, code>>

\* read_action_input: the descriptor is read without blocking the interrupt.
ReadActionInput ==
    /\ pc = "input"
    /\ IF PollPending THEN Interrupt
       ELSE \/ FinishSessionFailure(1)
            \/ /\ Writes(<<WithStatus(mem, "running")>>)
               /\ IF WriteFailed THEN Exit(1) ELSE pc' = "request" /\ UNCHANGED code
               /\ UNCHANGED <<after, asked>>
    /\ UNCHANGED <<source, cmd, sig, claimed, request, local>>

-----------------------------------------------------------------------------
(* The request.  The future makes progress whenever it is polled, also in  *)
(* the poll during which a signal arrives.                                 *)

waiting == <<source, cmd, sig, claimed, evidence, after, asked, local, code>>

\* The first `session` or `action` event.  A second one must repeat it.
ReadId ==
    /\ pc = "request"
    /\ seen = "none"
    /\ seen' = "id"
    /\ queued' = TRUE
    /\ UNCHANGED <<waiting, pc, observed, res>>

ReadSessionId == cmd = "start" /\ ReadId
ReadActionId == cmd = "action" /\ ReadId

\* The codes are what the server sends.
Results == [kind : {"exit"}, code : Codes, timed : BOOLEAN, bad : BOOLEAN, arts : BOOLEAN]

Ready == [NoResult EXCEPT !.kind = "ready"]

\* Error events came before it.
ReadyWithErrors == [Ready EXCEPT !.bad = TRUE]

ReadFinal(finals) ==
    /\ pc = "request"
    /\ seen # "final"
    /\ res' \in finals
    /\ seen' = "final"
    /\ UNCHANGED <<waiting, queued, observed>>

\* Ready must name the id that was read; an exit is taken with any code, and has
\* no artifacts.  The end of the response is awaited.
ReadStartFinal ==
    /\ cmd = "start"
    /\ ReadFinal({r \in Results : ~r.arts} \cup {Ready, ReadyWithErrors})
    /\ res'.kind = "ready" => seen = "id"
    /\ UNCHANGED pc

ReadActionFinal == cmd = "action" /\ seen = "id" /\ ReadFinal(Results) /\ UNCHANGED pc

ReadBuildExit ==
    /\ cmd = "run"
    /\ ReadFinal({r \in Results : ~r.bad})
    /\ pc' = "completed"

ReadUpdateResponse == cmd = "update" /\ ReadFinal({Ready}) /\ pc' = "completed"

ReadStopResponse == cmd = "stop" /\ ReadFinal(Results) /\ pc' = "completed"

ReadEnd ==
    /\ pc = "request"
    /\ seen = "final"
    /\ pc' = "completed"
    /\ UNCHANGED <<waiting, request>>

RequestFails(k) ==
    /\ pc = "request"
    /\ res' = [NoResult EXCEPT !.kind = k]
    /\ pc' = "completed"
    /\ UNCHANGED <<waiting, seen, queued, observed>>

\* is_connection_failure, of a request that was never answered.
Unreachable == seen = "none" /\ RequestFails("connect")

\* A refusal; 408 is a timeout to the session commands.
HttpError == seen = "none" /\ \E k \in {"other", "timeout"} : (k = "timeout" => Session) /\ RequestFails(k)

\* Truncated, cut, or not what the reader accepts: another identity, an event
\* after the final one, a line that is none.
StreamBreaks == seen # "none" /\ RequestFails("other")

\* The id is persisted as soon as the loop receives it.
Observe ==
    /\ pc = "request"
    /\ queued
    /\ queued' = FALSE
    /\ observed' = TRUE
    /\ Writes(<<WithId(mem)>>)
    /\ IF WriteFailed THEN BestEffortStop("provenance") ELSE UNCHANGED <<pc, after, asked>>
    /\ UNCHANGED <<source, cmd, sig, claimed, seen, res, local, code>>

ObserveSession == cmd = "start" /\ Observe
ObserveAction == cmd = "action" /\ Observe

interrupting == <<source, cmd, sig, claimed, seen, res, local>>

\* The ids that were not received yet are forgotten.
InterruptStartUndrained ==
    /\ pc = "request"
    /\ cmd = "start"
    /\ PollPending
    /\ IF observed THEN Interrupt ELSE FinishEarlyInterrupted
    /\ UNCHANGED <<interrupting, queued, observed>>

\* Controlled::Interrupted: an id that is still in the channel counts, and with
\* an id the server is asked to stop.
InterruptStart ==
    /\ pc = "request"
    /\ cmd = "start"
    /\ PollPending
    /\ queued' = FALSE
    /\ observed' = (observed \/ queued)
    /\ IF queued THEN Writes(<<WithId(mem)>>) /\ BestEffortStop("interrupted") /\ UNCHANGED code
       ELSE IF observed THEN Interrupt
       ELSE FinishEarlyInterrupted
    /\ UNCHANGED interrupting

\* The session of an action or a stop is known from the start.
InterruptNamed ==
    /\ pc = "request"
    /\ cmd \in {"action", "stop"}
    /\ PollPending
    /\ queued' = FALSE
    /\ observed' = (observed \/ queued)
    /\ IF queued THEN Writes(<<WithId(mem)>>) ELSE UNCHANGED evidence
    /\ BestEffortStop("interrupted")
    /\ UNCHANGED <<interrupting, code>>

\* The connection is dropped and nothing is asked of the server.
InterruptDropped ==
    /\ pc = "request"
    /\ cmd \in {"run", "update"}
    /\ PollPending
    /\ FinishEarlyInterrupted
    /\ UNCHANGED <<interrupting, queued, observed>>

\* Controlled::Completed: the rest of the channel first.
Completed ==
    /\ pc = "completed"
    /\ queued' = FALSE
    /\ observed' = (observed \/ queued)
    /\ IF queued
         THEN /\ Writes(<<WithId(mem)>>)
              /\ IF WriteFailed THEN BestEffortStop("provenance")
                 ELSE pc' = "judge" /\ UNCHANGED <<after, asked>>
         ELSE pc' = "judge" /\ UNCHANGED <<evidence, after, asked>>
    /\ UNCHANGED <<interrupting, code>>

-----------------------------------------------------------------------------
(* What the command makes of the outcome.                                  *)

\* A code that is cut to a byte.
NormalizeTruncated(r) == IF r.timed THEN TimedOut124 ELSE r.code % 256

\* normalize_requested_exit.
Normalize(r) ==
    IF r.timed THEN TimedOut124 ELSE IF r.code < 0 THEN 1 ELSE IF r.code > 255 THEN 255 ELSE r.code

\* connection_failure_exit_code depends on local_fallback.
ErrorCodes(k) ==
    CASE k = "connect" -> {1, ConnectionFallback} [] k = "timeout" -> {TimedOut124} [] OTHER -> {1}

Refused == res.kind \in {"connect", "timeout", "other"}

\* finish_remote_session_error.
RemoteError == \E c \in ErrorCodes(res.kind) : FinishSessionFailure(c)

judged == <<source, cmd, sig, claimed, request>>

\* The errors the stream carried are recorded before anything is decided.
StreamErrors == IF res.bad THEN Writes(<<WithError(mem)>>) ELSE UNCHANGED evidence

\* A session that was observed and is not Ready is not left to its deadline.
JudgeStart ==
    /\ pc = "judge"
    /\ cmd = "start"
    /\ CASE Refused -> IF observed THEN BestEffortStop("remote") /\ UNCHANGED <<evidence, code>>
                       ELSE RemoteError
         [] res.kind = "ready" ->
              /\ IF ~observed THEN BestEffortStop("failure")
                 ELSE IF PollPending THEN BestEffortStop("interrupted")
                 ELSE pc' = "final" /\ UNCHANGED <<after, asked>>
              /\ StreamErrors
              /\ UNCHANGED code
         [] OTHER ->
              LET m == IF res.bad THEN WithError(mem) ELSE mem
              IN  IF observed
                  THEN /\ StreamErrors
                       /\ BestEffortStop("exit")
                       /\ UNCHANGED code
                  ELSE /\ Writes((IF res.bad THEN <<m>> ELSE <<>>) \o <<WithStatus(m, "failed")>>)
                       /\ Exit(Normalize(res))
                       /\ UNCHANGED <<after, asked>>
    /\ UNCHANGED <<judged, local>>

\* validate_update_response may refuse; nothing is polled before the write.
JudgeUpdate ==
    /\ pc = "judge"
    /\ cmd = "update"
    /\ IF Refused THEN RemoteError
       ELSE \/ FinishSessionFailure(1)
            \/ pc' = "final" /\ UNCHANGED <<evidence, after, asked, code>>
    /\ UNCHANGED <<judged, local>>

\* The artifacts are fetched next.
ToDownload ==
    /\ pc' = "download"
    /\ dl' = IF res.arts THEN "fetch" ELSE "none"
    /\ UNCHANGED <<after, asked, code>>

JudgeRun ==
    /\ pc = "judge"
    /\ cmd = "run"
    /\ IF Refused THEN RemoteError /\ UNCHANGED dl ELSE ToDownload /\ UNCHANGED evidence
    /\ UNCHANGED <<judged, staging, out>>

JudgeAction ==
    /\ pc = "judge"
    /\ cmd = "action"
    /\ IF Refused THEN RemoteError /\ UNCHANGED dl
       ELSE IF ~observed THEN FinishSessionFailure(1) /\ UNCHANGED dl
       ELSE StreamErrors /\ ToDownload
    /\ UNCHANGED <<judged, staging, out>>

\* A response that names another session is refused.
JudgeStop ==
    /\ pc = "judge"
    /\ cmd = "stop"
    /\ IF Refused THEN RemoteError /\ UNCHANGED dl
       ELSE \/ FinishSessionFailure(1) /\ UNCHANGED dl
            \/ ToDownload /\ UNCHANGED evidence
    /\ UNCHANGED <<judged, staging, out>>

-----------------------------------------------------------------------------
(* download_and_extract: the transfer is a future that is dropped with the *)
(* select, the extraction a worker that is not.                            *)

extraction == <<source, cmd, pc, sig, claimed, evidence, request, after, asked, out, code>>

\* The transfer ends with exactly the advertised size, or fails.
Fetch ==
    /\ pc = "download"
    /\ dl = "fetch"
    /\ dl' \in {"extract", "failed"}
    /\ UNCHANGED <<extraction, staging>>

\* extract_zip_atomic: every entry is checked before anything is created.
RefuseArchive ==
    /\ dl = "extract"
    /\ dl' = "failed"
    /\ UNCHANGED <<extraction, staging>>

CreateStaging ==
    /\ dl = "extract"
    /\ dl' = "stage"
    /\ staging' = "made"
    /\ UNCHANGED extraction

\* A failed extraction that leaves its staging directory.
StageLeaving ==
    /\ dl = "stage"
    /\ \/ dl' = "published" /\ staging' = "none"
       \/ dl' = "failed" /\ UNCHANGED staging
    /\ UNCHANGED extraction

\* The staging directory becomes artifacts/ in one rename, or is removed; that
\* the removal failed is not looked at.
Stage ==
    /\ dl = "stage"
    /\ \/ dl' = "published" /\ staging' = "none"
       \/ dl' = "failed" /\ staging' \in {"none", "left"}
    /\ UNCHANGED extraction

Extracting == dl \in {"extract", "stage"}

InterruptDownload ==
    /\ pc = "download"
    /\ dl = "fetch" \/ Extracting
    /\ PollPending
    /\ IF Session THEN Interrupt ELSE FinishEarlyInterrupted
    /\ dl' = IF dl = "fetch" THEN "none" ELSE dl
    /\ UNCHANGED <<judged, staging, out>>

\* Nothing to fetch, or fetched.
Fetched == pc = "download" /\ dl \in {"none", "published", "failed"}

ArtifactFailedSuccess == dl = "failed" /\ res.code = 0

\* A teardown error fails a stop, whatever its exit code.
TeardownFailed == cmd = "stop" /\ res.bad

Succeeded == res.code = 0 /\ ~res.timed /\ ~ArtifactFailedSuccess /\ ~TeardownFailed

FinalStatus ==
    IF cmd = "start" THEN "ready" ELSE IF cmd = "update" \/ Succeeded THEN "succeeded" ELSE "failed"

RequestedExit == IF ArtifactFailedSuccess \/ TeardownFailed THEN 1 ELSE Normalize(res)

DownloadedRun ==
    /\ Fetched
    /\ cmd = "run"
    /\ LET m == IF dl = "failed" THEN WithError(mem) ELSE mem
       IN  Writes((IF dl = "failed" THEN <<m>> ELSE <<>>) \o <<WithStatus(m, FinalStatus)>>)
    /\ Exit(RequestedExit)
    /\ UNCHANGED <<judged, after, asked, local>>

\* The errors are recorded and the interrupt is polled before the last write.
DownloadedSession ==
    /\ Fetched
    /\ IF dl = "failed" \/ TeardownFailed THEN Writes(<<WithError(mem)>>) ELSE UNCHANGED evidence
    /\ IF PollPending THEN BestEffortStop("interrupted")
       ELSE pc' = "final" /\ UNCHANGED <<after, asked>>
    /\ UNCHANGED <<judged, local, code>>

DownloadedAction == cmd = "action" /\ DownloadedSession
DownloadedStop == cmd = "stop" /\ DownloadedSession

-----------------------------------------------------------------------------
(* The last write, the election and the output.                            *)

\* finish_evidence_controlled: a worker writes, and is always waited for.
FinalWrite ==
    /\ pc = "final"
    /\ Writes(<<WithStatus(mem, FinalStatus)>>)
    /\ pc' = IF WriteFailed THEN "final failed" ELSE "final written"
    /\ UNCHANGED <<judged, after, asked, local, code>>

\* An update has nothing to stop.
InterruptedLate == IF cmd = "update" THEN FinishEarlyInterrupted ELSE Interrupt

FinalElect ==
    /\ pc \in {"final written", "final failed"}
    /\ IF PollPending THEN InterruptedLate
       ELSE IF pc = "final written" THEN pc' = "emit" /\ UNCHANGED <<evidence, after, asked, code>>
       ELSE IF cmd \in {"start", "action"}
         THEN BestEffortStop("provenance") /\ UNCHANGED <<evidence, code>>
         ELSE ProvenanceFailure /\ UNCHANGED <<mem, disk, faults, after, asked>>
    /\ UNCHANGED <<judged, local>>

\* The machine-readable line could not be written.
EmitFails ==
    IF cmd = "start" THEN BestEffortStop("failure") /\ UNCHANGED <<evidence, code>>
    ELSE FinishSessionFailure(1)

InterruptEmit ==
    /\ pc = "emit"
    /\ PollPending
    /\ InterruptedLate
    /\ UNCHANGED <<judged, local>>

\* emit_session_id_controlled: an error before the claim; or the claim, and
\* then one write, which may be refused or cut short.  A full pipe is waited
\* for.
Emit ==
    /\ pc = "emit"
    /\ cmd \in {"start", "update"}
    /\ \/ EmitFails /\ UNCHANGED <<claimed, out>>
       \/ /\ ClaimCompletion
          /\ \/ out' = "line" /\ UNCHANGED <<evidence, after, asked>> /\ Exit(0)
             \/ out' \in {"empty", "partial"} /\ EmitFails
    /\ UNCHANGED <<source, cmd, sig, request, dl, staging>>

\* action and stop print nothing of their own.
Claim ==
    /\ pc = "emit"
    /\ ClaimCompletion
    /\ UNCHANGED evidence
    /\ Exit(RequestedExit)
    /\ UNCHANGED <<source, cmd, sig, request, after, asked, local>>

ClaimAction == cmd = "action" /\ Claim
ClaimStop == cmd = "stop" /\ Claim

-----------------------------------------------------------------------------
(* The end.                                                                *)

\* best_effort_stop is answered, fails or takes ten seconds; its outcome is
\* recorded and the command goes on to the exit it had chosen.
StopEnds ==
    /\ pc = "stopping"
    /\ \E cleanup \in {"succeeded", "failed"} :
          LET c == WithCleanup(mem, cleanup)
              m == IF cleanup = "failed" THEN WithError(c) ELSE c
              record == IF cleanup = "failed" THEN <<c, m>> ELSE <<c>>
          IN  CASE after = "interrupted" ->
                     Writes(record \o <<WithStatus(m, "interrupted")>>) /\ Exit(Interrupted130)
                [] after = "provenance" -> Writes(record) /\ pc' = "exiting" /\ code' = 1
                [] after = "failure" -> Writes(record \o FailureRecord(m)) /\ Exit(1)
                [] after = "exit" ->
                     Writes(record \o <<WithStatus(m, "failed")>>) /\ Exit(Normalize(res))
                [] after = "remote" ->
                     /\ Writes(record \o FailureRecord(m))
                     /\ \E x \in ErrorCodes(res.kind) : Exit(x)
    /\ UNCHANGED <<judged, after, asked, local>>

\* main returns; dropping the runtime waits for the blocking workers.
ProcessEnds ==
    /\ pc = "exiting"
    /\ ~Working
    /\ ~Extracting
    /\ pc' = "ended"
    /\ UNCHANGED <<judged, evidence, after, asked, local, code>>

-----------------------------------------------------------------------------

\* Steps that end by themselves: local files, workers, limits, the interrupt.
Process ==
    \/ PrepareEvidence \/ Prepared \/ LoadConfig \/ ElectFailure
    \/ ResolveRun \/ ResolveStart \/ ResolveUpdate \/ ResolveAction \/ ResolveStop
    \/ InterruptPackaging \/ PackagedRun \/ PackagedStart \/ PackagedUpdate \/ Cancelled
    \/ ObserveSession \/ ObserveAction \/ InterruptStart \/ InterruptNamed \/ InterruptDropped
    \/ Completed \/ JudgeRun \/ JudgeStart \/ JudgeUpdate \/ JudgeAction \/ JudgeStop
    \/ InterruptDownload \/ DownloadedRun \/ DownloadedAction \/ DownloadedStop
    \/ FinalWrite \/ FinalElect \/ InterruptEmit \/ ClaimAction \/ ClaimStop
    \/ StopEnds \/ ProcessEnds

\* Steps that wait for the server, the input or the reader of stdout.
Outside ==
    \/ ReadActionInput \/ ReadSessionId \/ ReadActionId
    \/ ReadStartFinal \/ ReadActionFinal \/ ReadBuildExit \/ ReadUpdateResponse \/ ReadStopResponse
    \/ ReadEnd \/ Unreachable \/ HttpError \/ StreamBreaks
    \/ Fetch \/ Emit

Extraction == RefuseArchive \/ CreateStaging \/ Stage

client == <<cmd, pc, sig, claimed, evidence, request, after, asked, local, code>>

\* The workers end with the process.
Alive == pc # "killed"

Next ==
    \/ Signal \/ Killed
    \/ Process
    \/ Outside
    \/ Alive /\ Extraction
    \/ Alive /\ (Worker \/ Edit) /\ UNCHANGED client

Spec == Init /\ [][Next]_vars

\* Local work and time limits are fair; the server, the user's editors, the
\* user's input, a full pipe and a jj that was not cancelled are not.
FairSpec ==
    /\ Spec
    /\ WF_vars(Process)
    /\ WF_vars(PollPending /\ ReadActionInput)
    /\ WF_vars(Alive /\ Extraction)
    /\ WF_vars(Alive /\ (FileStep \/ Forget \/ Check \/ (cancelled /\ WorkspaceAdd)) /\ UNCHANGED client)

-----------------------------------------------------------------------------

\* main has returned, and its workers with it.
Ended == pc = "ended"

\* The server answered a start with an exit.
StartExited == cmd = "start" /\ res.kind = "exit"

\* The exit code and provenance.json tell the same story.  A session command
\* exits 0 only with "ready" or "succeeded" on disk, exactly as in memory and
\* for a start with the session's id; the one exception is a start that the
\* server answered with an exit of code 0, whose file says "failed".  It exits
\* 130 only with "interrupted" on disk, and a success on disk under another code
\* needs a write that failed.
ProvenanceAgrees ==
    Ended /\ Session =>
        /\ code = 0 => /\ disk = mem
                       /\ IF StartExited THEN disk.status = "failed" /\ res.code = 0
                          ELSE /\ disk.status = IF cmd = "start" THEN "ready" ELSE "succeeded"
                               /\ cmd \in {"start", "action"} => disk.id
        /\ code = Interrupted130 => disk.status = "interrupted" \/ res.code = Interrupted130
        /\ disk.status \in {"ready", "succeeded"} => code = 0 \/ faults > 0

\* A start that has not printed its session's id has asked the server to stop
\* every session whose id had reached it.  One that has printed it asked nothing,
\* and exits 0, or 1 when a write of the provenance had failed on the way.  A
\* start exits 0 only with the id printed, and no session command does after a
\* SIGINT before the claim of completion; the exit the server itself answered a
\* start with, the session being over, keeps its code.
NoSessionLeftBehind ==
    Ended /\ Session =>
        /\ cmd = "start" => IF out = "line" THEN ~asked ELSE queued \/ observed => asked
        /\ out = "line" => code = IF failed THEN 1 ELSE 0
        /\ code = 0 /\ ~StartExited => sig # "early" /\ (cmd = "start" => out = "line")

\* After SIGINT the command ends, whatever the server, the input, jj or the
\* reader of stdout does.
InterruptEnds == sig = "early" ~> Ended

\* An error is in the provenance, and on disk unless a write of it failed.
ErrorRecorded == mem.errors /\ (disk.errors \/ failed)

\* When main has returned no extraction is half done in the evidence directory.
\* Its staging directory is still there only when the removal failed, and then
\* an error is recorded, or the command was interrupted and did not wait for the
\* extraction.  A jj workspace it registered is forgotten, unless the forget
\* failed, and then an error is recorded.
NothingLeftBehind ==
    Ended => /\ staging # "made"
             /\ staging = "left" => ErrorRecorded \/ mem.status = "interrupted"
             /\ ws = "registered" => unclean /\ ErrorRecorded

\* What is uploaded was there: no file of the archive mixes two versions; a jj
\* archive is its pinned commit, and what an update deletes is absent there; the
\* files of an update without jj were all on disk together; a full tree has the
\* entries of its enumeration, with names that stay apart.
PackagedIsFaithful ==
    step = "ended" /\ result = "ok" /\ pc = "package" =>
        /\ \A p \in DOMAIN archive : archive[p][1] = archive[p][2]
        /\ kind.jj => \A p \in DOMAIN archive : archive[p][1] = commit[p].ver
        /\ kind.jj /\ kind.update => Deleted \cap Held(commit) = {}
        /\ kind.update => DOMAIN archive = Declared
        /\ kind.update /\ ~kind.jj => \A p \in Declared : archive[p][1] = before[p].ver
        /\ ~kind.update => DOMAIN archive = DOMAIN plan /\ ValidPlannedEntries(DOMAIN archive)
=============================================================================
