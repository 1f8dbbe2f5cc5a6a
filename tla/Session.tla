------------------------------ MODULE Session ------------------------------
(***************************************************************************)
(* One managed session of the daemon, from the reservation of its build    *)
(* permit to the release of that permit (src/sessions.rs, driven by the    *)
(* handlers and response streams of src/http.rs).                          *)
(*                                                                         *)
(* Many threads act on a session: the upload handler, the initializer, the *)
(* response streams, one worker per action and per source update, service  *)
(* callbacks, the lifetime and idle timers and explicit stops.  They meet  *)
(* only at the session's state lock, so one action of this module is one   *)
(* critical section (with the work the same thread does up to its next     *)
(* one), and pc says where each thread is between two of them.  Whoever    *)
(* moves the session to Terminating names the owner of cleanup_entry.      *)
(***************************************************************************)
EXTENDS Naturals, FiniteSets

CONSTANTS
    Actions,      \* action requests a client may issue (each runs once)
    Updates,      \* source update requests that reach start_update
    Stops,        \* explicit stop requests
    Requests,     \* what an update carries: records with fields id and base
    HasServices,  \* does the task configure retained services?
    MaxRevision   \* the largest revision number (u64::MAX in the code)

System == {"upload", "startStream", "initializer", "service", "lifetime", "idle"}
Operations == Actions \cup Updates
Threads == System \cup Operations \cup Stops

ASSUME ThreadsDistinct ==
    /\ System \cap (Operations \cup Stops) = {}
    /\ Actions \cap Updates = {}
    /\ Operations \cap Stops = {}
    /\ "none" \notin Threads

ASSUME ConstantTypes ==
    /\ HasServices \in BOOLEAN
    /\ MaxRevision \in Nat
    /\ \A q \in Requests : q.base \in 0 .. MaxRevision

VARIABLES
    st,           \* tag of SessionState ("Absent" before reserve)
    started,      \* Initializing { worker_started }
    current,      \* the operation of Action / Updating (kept after it ends)
    explicit,     \* Termination.explicit
    owner,        \* Termination.owner
    winner,       \* history: the thread that moved the session to Terminating
    initCancelled,\* entry.initialization_cancellation
    cancelled,    \* the CancellationFlag of each operation
    expired,      \* Instant::now() >= entry.deadline
    idleDue,      \* last_activity.elapsed() >= idle
    idleTimer,    \* an idle timer task is running for this session
    registered,   \* the session is in the registry
    permit,       \* the session holds its build permit
    workspace,    \* the workspace directory exists
    dirty,        \* the workspace holds a partly applied update
    meta,         \* durable metadata: none, starting (services) or ready
    metaRevision, \* its workspace_revision
    services,     \* retained services: off, up, failed, stopping, stopped
    unproven,     \* cleanup threads that could not prove a service stopped
    revision,     \* update_data.revision
    lastSuccess,  \* update_data.last_success (a set of at most one request)
    applied,      \* history: how often each request was applied
    req,          \* the request each update carries
    pc,           \* where each thread is
    stream,       \* response stream of each action
    ack,          \* the final event's acknowledgement channel of each action
    archive,      \* the archive of each action
    teardowns,    \* history: how often teardown ran in the workspace
    finalArchive, \* a final (stop) archive was collected
    outcome       \* what each stop and update was answered

lifecycle == <<st, started, current, explicit, owner, winner>>
flags     == <<initCancelled, cancelled>>
clocks    == <<expired, idleDue, idleTimer>>
admission == <<registered, permit>>
files     == <<workspace, dirty>>
durable   == <<meta, metaRevision>>
svc       == <<services, unproven>>
updating  == <<revision, lastSuccess, applied, req>>
delivery  == <<stream, ack, archive>>
results   == <<teardowns, finalArchive, outcome>>
vars == <<lifecycle, flags, clocks, admission, files, durable, svc, updating,
          delivery, results, pc>>

Live == {"Initializing", "Ready", "Action", "Updating"}
CleanupSteps == {"services", "stopping", "teardown", "artifacts", "workspace",
                 "metadata", "unregister", "release", "terminate"}
Labels == CleanupSteps \cup
    {"idle", "done", "uploading", "open", "prepare", "phases", "startServices",
     "spawnServices", "awaitServices", "precommit", "persist", "elect", "revoke",
     "cleanup", "failed", "armed", "firing", "run", "snapshot", "publish",
     "deliver", "awaitAck", "discard", "finish", "apply", "mutated", "undo",
     "undoUnproven", "rolledBack", "unprovable", "committed", "waiting"}

Goto(t, label) == pc' = [pc EXCEPT ![t] = label]

(* Live -> Terminating under the state lock, naming the cleanup owner.     *)
Elect(t, isExplicit, cleanupOwner) ==
    /\ st' = "Terminating"
    /\ explicit' = isExplicit
    /\ owner' = cleanupOwner
    /\ winner' = t
    /\ UNCHANGED <<started, current>>

(* Mutant: Ready again, but nobody watches for idleness.                   *)
BecomeReadyUnwatched ==
    /\ st' = "Ready"
    /\ idleDue' = FALSE
    /\ UNCHANGED <<started, current, explicit, owner, winner, expired, idleTimer>>

(* The session becomes Ready: last_activity restarts and an idle timer is  *)
(* spawned.                                                                *)
BecomeReady ==
    /\ st' = "Ready"
    /\ idleDue' = FALSE
    /\ idleTimer' = TRUE
    /\ UNCHANGED <<started, current, explicit, owner, winner, expired>>

Init ==
    /\ st = "Absent" /\ started = FALSE /\ current = "none"
    /\ explicit = FALSE /\ owner = "none" /\ winner = "none"
    /\ initCancelled = FALSE /\ cancelled = [o \in Operations |-> FALSE]
    /\ expired = FALSE /\ idleDue = FALSE /\ idleTimer = FALSE
    /\ registered = FALSE /\ permit = FALSE
    /\ workspace = FALSE /\ dirty = FALSE
    /\ meta = "none" /\ metaRevision = 0
    /\ services = "off" /\ unproven = {}
    /\ revision = 0 /\ lastSuccess = {}
    /\ applied = [q \in Requests |-> 0]
    /\ req \in [Updates -> Requests]
    /\ pc = [t \in Threads |-> "idle"]
    /\ stream = [a \in Actions |-> "none"]
    /\ ack = [a \in Actions |-> "none"]
    /\ archive = [a \in Actions |-> "none"]
    /\ teardowns = 0 /\ finalArchive = FALSE
    /\ outcome = [t \in Stops \cup Updates |-> "none"]

(***************************************************************************)
(* Time.  Once termination is elected nobody reads the clock any more.     *)
(***************************************************************************)
DeadlinePasses ==
    /\ st \in Live /\ ~expired
    /\ expired' = TRUE
    /\ UNCHANGED <<lifecycle, flags, idleDue, idleTimer, admission, files, durable,
                   svc, updating, delivery, results, pc>>

IdlePeriodPasses ==
    /\ st = "Ready" /\ ~idleDue
    /\ idleDue' = TRUE
    /\ UNCHANGED <<lifecycle, flags, expired, idleTimer, admission, files, durable,
                   svc, updating, delivery, results, pc>>

(***************************************************************************)
(* The start request: reservation, upload and hand-over to the initializer *)
(* (http.rs start_session).                                                *)
(***************************************************************************)
Reserve ==
    /\ st = "Absent"
    /\ st' = "Initializing"
    /\ registered' = TRUE /\ permit' = TRUE
    /\ pc' = [pc EXCEPT !["upload"] = "uploading", !["lifetime"] = "armed"]
    /\ UNCHANGED <<started, current, explicit, owner, winner, flags, clocks, files,
                   durable, svc, updating, delivery, results>>

(* The upload failed, timed out or saw its reservation cancelled.          *)
CancelUpload ==
    /\ pc["upload"] = "uploading"
    /\ \/ /\ st = "Initializing" /\ ~started
          /\ initCancelled' = TRUE
          /\ Elect("upload", FALSE, "Requester")
          /\ Goto("upload", "services")
       \/ /\ ~(st = "Initializing" /\ ~started)
          /\ Goto("upload", "done")
          /\ UNCHANGED <<lifecycle, initCancelled>>
    /\ UNCHANGED <<cancelled, clocks, admission, files, durable, svc, updating,
                   delivery, results>>

(* The connection goes away during the upload: the handler future is       *)
(* dropped and nobody touches the session.                                 *)
UploadHandlerDropped ==
    /\ pc["upload"] = "uploading"
    /\ Goto("upload", "done")
    /\ UNCHANGED <<lifecycle, flags, clocks, admission, files, durable, svc,
                   updating, delivery, results>>

BeginInitialization ==
    /\ pc["upload"] = "uploading"
    /\ \/ /\ st = "Initializing" /\ ~started /\ ~initCancelled /\ ~expired
          /\ started' = TRUE
          /\ pc' = [pc EXCEPT !["upload"] = "done", !["initializer"] = "prepare",
                              !["startStream"] = "open"]
          /\ UNCHANGED <<st, current, explicit, owner, winner, initCancelled>>
       \/ /\ st = "Initializing" /\ ~started /\ (initCancelled \/ expired)
          /\ initCancelled' = TRUE
          /\ Elect("upload", FALSE, "Requester")
          /\ Goto("upload", "services")
       \/ /\ ~(st = "Initializing" /\ ~started)
          /\ Goto("upload", "done")
          /\ UNCHANGED <<lifecycle, initCancelled>>
    /\ UNCHANGED <<cancelled, clocks, admission, files, durable, svc, updating,
                   delivery, results>>

(* The start response stream is dropped (SessionEventStream).              *)
Disconnect ==
    /\ pc["startStream"] = "open"
    /\ \/ /\ registered /\ st = "Initializing"
          /\ initCancelled' = TRUE
          /\ Elect("startStream", FALSE, IF started THEN "Initializer" ELSE "Requester")
          /\ Goto("startStream", IF started THEN "done" ELSE "services")
       \/ /\ ~(registered /\ st = "Initializing")
          /\ Goto("startStream", "done")
          /\ UNCHANGED <<lifecycle, initCancelled>>
    /\ UNCHANGED <<cancelled, clocks, admission, files, durable, svc, updating,
                   delivery, results>>

(***************************************************************************)
(* The initializer thread (initialize, start_configured_services).         *)
(***************************************************************************)
(* An event of the start stream could not be forwarded, or output exceeded *)
(* its limit: the flag is raised without touching the state.               *)
InitializationCancelled ==
    /\ pc["initializer"] \in {"prepare", "phases", "startServices", "spawnServices",
                              "awaitServices", "precommit", "persist", "elect"}
    /\ st = "Initializing" /\ ~initCancelled
    /\ initCancelled' = TRUE
    /\ UNCHANGED <<lifecycle, cancelled, clocks, admission, files, durable, svc,
                   updating, delivery, results, pc>>

(* initialize_session: extract the sources into a new workspace.           *)
PrepareWorkspace ==
    /\ pc["initializer"] = "prepare"
    /\ \/ workspace' = TRUE /\ Goto("initializer", "phases")
       \/ workspace' \in BOOLEAN /\ Goto("initializer", "cleanup")
    /\ UNCHANGED <<lifecycle, flags, clocks, admission, dirty, durable, svc,
                   updating, delivery, results>>

(* initialize_session: the setup and run phases succeed, or fail, time out *)
(* or are cancelled.                                                       *)
RunPhases ==
    /\ pc["initializer"] = "phases"
    /\ \/ Goto("initializer", IF HasServices THEN "startServices" ELSE "precommit")
       \/ Goto("initializer", "cleanup")
    /\ UNCHANGED <<lifecycle, flags, clocks, admission, files, durable, svc,
                   updating, delivery, results>>

(* Mutant: a failed write is taken for a success.                          *)
WriteMetadataUnchecked(tag, rev, t, ok, failed) ==
    \/ meta' = tag /\ metaRevision' = rev /\ Goto(t, ok)
    \/ UNCHANGED durable /\ Goto(t, ok)

(* write_metadata: on failure the rename may or may not have happened.     *)
WriteMetadata(tag, rev, t, ok, failed) ==
    \/ meta' = tag /\ metaRevision' = rev /\ Goto(t, ok)
    \/ meta' = tag /\ metaRevision' = rev /\ Goto(t, failed)
    \/ UNCHANGED durable /\ Goto(t, failed)

StartServices ==
    /\ pc["initializer"] = "startServices"
    /\ WriteMetadata("starting", 0, "initializer", "spawnServices", "cleanup")
    /\ UNCHANGED <<lifecycle, flags, clocks, admission, files, svc, updating,
                   delivery, results>>

(* Spawn the services and record their identities; some may already run    *)
(* when one fails or startup is cancelled.                                 *)
SpawnServices ==
    /\ pc["initializer"] = "spawnServices"
    /\ \/ /\ ~initCancelled /\ ~expired
          /\ services' = "up" /\ Goto("initializer", "awaitServices")
       \/ services' \in {services, "up"} /\ Goto("initializer", "cleanup")
    /\ UNCHANGED <<lifecycle, flags, clocks, admission, files, durable, unproven,
                   updating, delivery, results>>

AwaitServices ==
    /\ pc["initializer"] = "awaitServices"
    /\ \/ services = "up" /\ Goto("initializer", "precommit")
       \/ Goto("initializer", "cleanup")
    /\ UNCHANGED <<lifecycle, flags, clocks, admission, files, durable, svc,
                   updating, delivery, results>>

(* The check before the durable commit.                                    *)
PreCommit ==
    /\ pc["initializer"] = "precommit"
    /\ \/ /\ st = "Initializing" /\ ~initCancelled /\ ~expired
          /\ Goto("initializer", "persist") /\ UNCHANGED lifecycle
       \/ /\ st = "Initializing" /\ (initCancelled \/ expired)
          /\ Elect("initializer", FALSE, "Initializer")
          /\ Goto("initializer", "cleanup")
       \/ /\ st # "Initializing"
          /\ Goto("initializer", "cleanup") /\ UNCHANGED lifecycle
    /\ UNCHANGED <<flags, clocks, admission, files, durable, svc, updating,
                   delivery, results>>

(* The Ready metadata becomes durable before the election; a failed write  *)
(* terminates the session (in "cleanup", its next critical section).       *)
PersistReady ==
    /\ pc["initializer"] = "persist"
    /\ WriteMetadata("ready", 0, "initializer", "elect", "cleanup")
    /\ UNCHANGED <<lifecycle, flags, clocks, admission, files, svc, updating,
                   delivery, results>>

(* The commit election.                                                    *)
CommitElection ==
    /\ pc["initializer"] = "elect"
    /\ \/ /\ st = "Initializing" /\ ~initCancelled /\ ~expired
          /\ BecomeReady
          /\ Goto("initializer", "done")
       \/ /\ st = "Initializing" /\ (initCancelled \/ expired)
          /\ Elect("initializer", FALSE, "Initializer")
          /\ Goto("initializer", "revoke")
          /\ UNCHANGED clocks
       \/ /\ st # "Initializing"
          /\ Goto("initializer", "revoke")
          /\ UNCHANGED <<lifecycle, clocks>>
    /\ UNCHANGED <<flags, admission, files, durable, svc, updating, delivery, results>>

RevokeCommit ==
    /\ pc["initializer"] = "revoke"
    /\ meta' \in {meta, "none"}
    /\ Goto("initializer", "cleanup")
    /\ UNCHANGED <<lifecycle, flags, clocks, admission, files, metaRevision, svc,
                   updating, delivery, results>>

InitializerCleanup ==
    /\ pc["initializer"] = "cleanup"
    /\ \/ /\ st = "Initializing"
          /\ Elect("initializer", FALSE, "Initializer")
          /\ Goto("initializer", "services")
       \/ /\ st = "Terminating" /\ owner = "Initializer"
          /\ Goto("initializer", "services") /\ UNCHANGED lifecycle
       \/ /\ st # "Initializing" /\ ~(st = "Terminating" /\ owner = "Initializer")
          /\ Goto("initializer", "done") /\ UNCHANGED lifecycle
    /\ UNCHANGED <<flags, clocks, admission, files, durable, svc, updating,
                   delivery, results>>

(***************************************************************************)
(* Retained services.                                                      *)
(***************************************************************************)
(* A service exits while nobody is stopping it; its monitor spawns the     *)
(* failure callback.                                                       *)
ServiceExits ==
    /\ services = "up"
    /\ services' = "failed"
    /\ Goto("service", "failed")
    /\ UNCHANGED <<lifecycle, flags, clocks, admission, files, durable, unproven,
                   updating, delivery, results>>

ServiceFailed ==
    /\ pc["service"] = "failed"
    /\ \/ /\ st = "Initializing"
          /\ initCancelled' = TRUE
          /\ Elect("service", FALSE, "Initializer")
          /\ Goto("service", "done")
          /\ UNCHANGED cancelled
       \/ /\ st = "Ready"
          /\ Elect("service", FALSE, "Requester")
          /\ Goto("service", "services")
          /\ UNCHANGED flags
       \/ /\ st \in {"Action", "Updating"}
          /\ cancelled' = [cancelled EXCEPT ![current] = TRUE]
          /\ Elect("service", FALSE, IF st = "Action" THEN "Action" ELSE "Update")
          /\ Goto("service", "done")
          /\ UNCHANGED initCancelled
       \/ /\ st \notin Live
          /\ Goto("service", "done")
          /\ UNCHANGED <<lifecycle, flags>>
    /\ UNCHANGED <<clocks, admission, files, durable, svc, updating, delivery, results>>

(***************************************************************************)
(* Preemption: explicit stop and the lifetime timer terminate a live       *)
(* session in any state.  With an operation (or the initializer) running,  *)
(* that thread is cancelled and owns the cleanup; otherwise the preempting *)
(* thread cleans up itself.                                                *)
(***************************************************************************)
(* Mutants: an action is not left to clean up after itself; neither is the *)
(* initializer; a reservation is left to an initializer that never runs.   *)
ActiveOwnerNotAction ==
    CASE st = "Initializing" /\ started -> "Initializer"
      [] st = "Updating"                -> "Update"
      [] OTHER                          -> "Requester"
ActiveOwnerNotInitializer ==
    CASE st = "Action"   -> "Action"
      [] st = "Updating" -> "Update"
      [] OTHER           -> "Requester"
ActiveOwnerNotStarted ==
    CASE st = "Initializing" -> "Initializer"
      [] st = "Action"       -> "Action"
      [] st = "Updating"     -> "Update"
      [] OTHER               -> "Requester"

ActiveOwner ==
    CASE st = "Initializing" /\ started -> "Initializer"
      [] st = "Action"                  -> "Action"
      [] st = "Updating"                -> "Update"
      [] OTHER                          -> "Requester"

(* Mutant: termination is elected whatever the state.                      *)
PreemptAnyState(t, isExplicit, otherwise) ==
    /\ Elect(t, isExplicit, ActiveOwner)
    /\ IF st \in {"Action", "Updating"}
       THEN cancelled' = [cancelled EXCEPT ![current] = TRUE] /\ UNCHANGED initCancelled
       ELSE initCancelled' = TRUE /\ UNCHANGED cancelled
    /\ Goto(t, IF ActiveOwner = "Requester" THEN "services" ELSE otherwise)

Preempt(t, isExplicit, otherwise) ==
    /\ st \in Live
    /\ Elect(t, isExplicit, ActiveOwner)
    /\ IF st \in {"Action", "Updating"}
       THEN cancelled' = [cancelled EXCEPT ![current] = TRUE] /\ UNCHANGED initCancelled
       ELSE initCancelled' = TRUE /\ UNCHANGED cancelled
    /\ Goto(t, IF ActiveOwner = "Requester" THEN "services" ELSE otherwise)

ExpireLifetime ==
    /\ pc["lifetime"] = "armed" /\ expired
    /\ \/ registered /\ Preempt("lifetime", FALSE, "done")
       \/ /\ ~registered \/ st \notin Live
          /\ Goto("lifetime", "done")
          /\ UNCHANGED <<lifecycle, flags>>
    /\ UNCHANGED <<clocks, admission, files, durable, svc, updating, delivery, results>>

(* Mutant: a stop also waits for a cleanup somebody else started.          *)
StopJoinsAnyCleanup(k) ==
    /\ pc[k] = "idle" /\ registered
    /\ \/ Preempt(k, TRUE, "waiting")
       \/ st = "Terminating" /\ Goto(k, "waiting") /\ UNCHANGED <<lifecycle, flags>>
    /\ UNCHANGED <<clocks, admission, files, durable, svc, updating, delivery, results>>

(* A session that is Terminating, Terminated or unknown refuses the stop   *)
(* (409 or 404), which changes nothing.                                    *)
Stop(k) ==
    /\ pc[k] = "idle" /\ registered
    /\ Preempt(k, TRUE, "waiting")
    /\ UNCHANGED <<clocks, admission, files, durable, svc, updating, delivery, results>>

(* The condition variable wait of a stop whose cleanup another thread owns. *)
StopCompletes(k) ==
    /\ pc[k] = "waiting" /\ st = "Terminated"
    /\ Goto(k, "done") /\ outcome' = [outcome EXCEPT ![k] = "ok"]
    /\ UNCHANGED <<lifecycle, flags, clocks, admission, files, durable, svc, updating,
                   delivery, teardowns, finalArchive>>

(* An idle timer task wakes up: idle_remaining.                            *)
IdleTimerWakes ==
    /\ idleTimer
    /\ \/ st = "Ready" /\ idleDue /\ Goto("idle", "firing")
       \/ st # "Ready" /\ UNCHANGED pc
    /\ idleTimer' = FALSE
    /\ UNCHANGED <<lifecycle, flags, expired, idleDue, admission, files, durable, svc,
                   updating, delivery, results>>

(* Mutant: trusts the state the timer saw when it woke up.                 *)
ExpireIdleStale ==
    /\ pc["idle"] = "firing"
    /\ Elect("idle", FALSE, "Requester")
    /\ Goto("idle", "services")
    /\ UNCHANGED <<flags, clocks, admission, files, durable, svc, updating, delivery,
                   results>>

ExpireIdle ==
    /\ pc["idle"] = "firing"
    /\ \/ /\ registered /\ st = "Ready" /\ idleDue
          /\ Elect("idle", FALSE, "Requester")
          /\ Goto("idle", "services")
       \/ /\ ~(registered /\ st = "Ready" /\ idleDue)
          /\ Goto("idle", "idle") /\ UNCHANGED lifecycle
    /\ UNCHANGED <<flags, clocks, admission, files, durable, svc, updating, delivery,
                   results>>

(***************************************************************************)
(* Actions: the worker thread and the response stream of each.             *)
(***************************************************************************)
StartAction(a) ==
    /\ pc[a] = "idle" /\ registered /\ st = "Ready" /\ ~expired
    /\ st' = "Action" /\ current' = a
    /\ Goto(a, "run")
    /\ stream' = [stream EXCEPT ![a] = "open"]
    /\ UNCHANGED <<started, explicit, owner, winner, flags, clocks, admission, files,
                   durable, svc, updating, ack, archive, results>>

(* Output over its limit or not forwarded raises the action's flag; a      *)
(* reader that outlived its bounded join can still do so after the run.    *)
OutputCancels(a) ==
    /\ pc[a] \in {"run", "snapshot", "publish", "deliver", "awaitAck"}
    /\ ~cancelled[a]
    /\ cancelled' = [cancelled EXCEPT ![a] = TRUE]
    /\ UNCHANGED <<lifecycle, initCancelled, clocks, admission, files, durable, svc,
                   updating, delivery, results, pc>>

(* run_session_action returns: exited, or failed, timed out or cancelled.  *)
ActionRuns(a) ==
    /\ pc[a] = "run"
    /\ \E next \in {"snapshot", "finish"} : Goto(a, next)
    /\ UNCHANGED <<lifecycle, flags, clocks, admission, files, durable, svc, updating,
                   delivery, results>>

SnapshotArtifacts(a) ==
    /\ pc[a] = "snapshot"
    /\ \/ /\ ~cancelled[a]
          /\ archive' = [archive EXCEPT ![a] = "stored"]
          /\ Goto(a, "publish")
       \/ Goto(a, "finish") /\ UNCHANGED archive
    /\ UNCHANGED <<lifecycle, flags, clocks, admission, files, durable, svc, updating,
                   stream, ack, results>>

ActionCanPublish(a) == st = "Action" /\ current = a /\ ~cancelled[a] /\ ~expired

(* Mutant: returns early and leaves the archive behind.                    *)
PublishCheckLeavesArchive(a) ==
    /\ pc[a] = "publish"
    /\ Goto(a, IF ActionCanPublish(a) THEN "deliver" ELSE "finish")
    /\ UNCHANGED <<lifecycle, flags, clocks, admission, files, durable, svc, updating,
                   delivery, results>>

PublishCheck(a) ==
    /\ pc[a] = "publish"
    /\ Goto(a, IF ActionCanPublish(a) THEN "deliver" ELSE "discard")
    /\ UNCHANGED <<lifecycle, flags, clocks, admission, files, durable, svc, updating,
                   delivery, results>>

(* Enqueue the final event, or give up (cancelled, closed, full too long). *)
EnqueueFinal(a) ==
    /\ pc[a] = "deliver"
    /\ \/ /\ ActionCanPublish(a) /\ stream[a] = "open"
          /\ ack' = [ack EXCEPT ![a] = "pending"]
          /\ Goto(a, "awaitAck")
       \/ Goto(a, "discard") /\ UNCHANGED ack
    /\ UNCHANGED <<lifecycle, flags, clocks, admission, files, durable, svc, updating,
                   stream, archive, results>>

(* The wait for the acknowledgement; an empty channel may time out.        *)
AwaitAck(a) ==
    /\ pc[a] = "awaitAck"
    /\ \/ ~cancelled[a] /\ ack[a] = "accepted" /\ Goto(a, "done")
       \/ cancelled[a] /\ Goto(a, "discard")
       \/ ack[a] \in {"pending", "refused", "dropped"} /\ Goto(a, "discard")
    /\ UNCHANGED <<lifecycle, flags, clocks, admission, files, durable, svc, updating,
                   delivery, results>>

(* remove_dir_all of the archive, once.  Nobody looks at its outcome, so   *)
(* "discarded" says that the removal was tried.                            *)
DiscardArchive(a) ==
    /\ pc[a] = "discard"
    /\ archive' = [archive EXCEPT ![a] = "discarded"]
    /\ Goto(a, "finish")
    /\ UNCHANGED <<lifecycle, flags, clocks, admission, files, durable, svc, updating,
                   stream, ack, results>>

(* finish_action(reusable = false), the only way it is called.             *)
FinishAction(a) ==
    /\ pc[a] = "finish"
    /\ \/ /\ st = "Action" /\ current = a
          /\ Elect(a, FALSE, "Action")
          /\ Goto(a, "services")
       \/ /\ st = "Terminating" /\ owner = "Action"
          /\ Goto(a, "services") /\ UNCHANGED lifecycle
       \/ /\ ~(st = "Action" /\ current = a) /\ ~(st = "Terminating" /\ owner = "Action")
          /\ Goto(a, "done") /\ UNCHANGED lifecycle
    /\ UNCHANGED <<flags, clocks, admission, files, durable, svc, updating, delivery,
                   results>>

(* The HTTP body takes the final event from the channel.                   *)
ConsumeFinal(a) ==
    /\ stream[a] = "open" /\ ack[a] = "pending"
    /\ stream' = [stream EXCEPT ![a] = "final"]
    /\ UNCHANGED <<lifecycle, flags, clocks, admission, files, durable, svc, updating,
                   ack, archive, results, pc>>

(* The next poll acknowledges it ...                                       *)
AcknowledgeDelivery(a) ==
    /\ stream[a] = "final"
    /\ \/ /\ registered /\ ActionCanPublish(a)
          /\ BecomeReady
          /\ stream' = [stream EXCEPT ![a] = "accepting"]
          /\ UNCHANGED cancelled
       \/ /\ registered /\ st = "Action" /\ current = a /\ ~ActionCanPublish(a)
          /\ cancelled' = [cancelled EXCEPT ![a] = TRUE]
          /\ Elect(a, FALSE, "Action")
          /\ stream' = [stream EXCEPT ![a] = "refusing"]
          /\ UNCHANGED clocks
       \/ /\ ~(registered /\ st = "Action" /\ current = a)
          /\ stream' = [stream EXCEPT ![a] = "refusing"]
          /\ UNCHANGED <<lifecycle, cancelled, clocks>>
    /\ UNCHANGED <<initCancelled, admission, files, durable, svc, updating, ack,
                   archive, results, pc>>

(* ... and then tells the worker.                                          *)
SendAck(a) ==
    /\ stream[a] \in {"accepting", "refusing"}
    /\ ack' = [ack EXCEPT ![a] = IF stream[a] = "accepting" THEN "accepted" ELSE "refused"]
    /\ stream' = [stream EXCEPT ![a] = "drained"]
    /\ UNCHANGED <<lifecycle, flags, clocks, admission, files, durable, svc, updating,
                   archive, results, pc>>

(* The response stream is dropped; a pending acknowledgement goes with it. *)
DisconnectAction(a) ==
    /\ stream[a] \in {"open", "final", "drained"}
    /\ stream' = [stream EXCEPT ![a] = "closed"]
    /\ ack' = [ack EXCEPT ![a] = IF @ = "pending" THEN "dropped" ELSE @]
    /\ \/ /\ registered /\ st = "Action" /\ current = a
          /\ cancelled' = [cancelled EXCEPT ![a] = TRUE]
          /\ Elect(a, FALSE, "Action")
       \/ /\ ~(registered /\ st = "Action" /\ current = a)
          /\ UNCHANGED <<lifecycle, cancelled>>
    /\ UNCHANGED <<initCancelled, clocks, admission, files, durable, svc, updating,
                   archive, results, pc>>

(***************************************************************************)
(* Source updates: admission and the worker (source_updates.rs at the      *)
(* level of its outcome: mutated, committed, rolled back or unprovable).   *)
(***************************************************************************)
(* An update is refused without any effect when the session is not Ready   *)
(* or its deadline passed, when it reuses the cached request id with other *)
(* bytes and when its base is not the current revision.                    *)
(* The cached request sent again is answered from the cache.               *)
RetryUpdate(u) ==
    /\ pc[u] = "idle" /\ registered /\ st = "Ready" /\ ~expired
    /\ req[u] \in lastSuccess
    /\ outcome' = [outcome EXCEPT ![u] = "retry"]
    /\ Goto(u, "done")
    /\ UNCHANGED <<lifecycle, flags, clocks, admission, files, durable, svc, updating,
                   delivery, teardowns, finalArchive>>

(* Mutant: the base revision is not compared.                              *)
StartUpdateAnyBase(u) ==
    /\ pc[u] = "idle" /\ registered /\ st = "Ready" /\ ~expired
    /\ \A q \in lastSuccess : q.id # req[u].id
    /\ st' = "Updating" /\ current' = u
    /\ Goto(u, "apply")
    /\ UNCHANGED <<started, explicit, owner, winner, flags, clocks, admission, files,
                   durable, svc, updating, delivery, results>>

StartUpdate(u) ==
    /\ pc[u] = "idle" /\ registered /\ st = "Ready" /\ ~expired
    /\ \A q \in lastSuccess : q.id # req[u].id
    /\ req[u].base = revision
    /\ st' = "Updating" /\ current' = u
    /\ Goto(u, "apply")
    /\ UNCHANGED <<started, explicit, owner, winner, flags, clocks, admission, files,
                   durable, svc, updating, delivery, results>>

(* Everything up to and including the file mutations.  A revision overflow *)
(* or a missing task identity cannot vouch for the workspace.              *)
ApplyUpdate(u) ==
    /\ pc[u] = "apply"
    /\ \/ Goto(u, "unprovable") /\ UNCHANGED dirty
       \/ /\ req[u].base # MaxRevision
          /\ \/ Goto(u, "rolledBack") /\ UNCHANGED dirty
             \/ ~cancelled[u] /\ dirty' = TRUE /\ Goto(u, "mutated")
    /\ UNCHANGED <<lifecycle, flags, clocks, admission, workspace, durable, svc,
                   updating, delivery, results>>

(* The last check and the durable commit of the next revision.             *)
CommitUpdate(u) ==
    /\ pc[u] = "mutated"
    /\ \/ Goto(u, "undo") /\ UNCHANGED <<dirty, durable>>
       \/ /\ ~cancelled[u]
          /\ WriteMetadata("ready", req[u].base + 1, u, "committed", "undoUnproven")
          /\ dirty' = IF pc'[u] = "committed" THEN FALSE ELSE dirty
    /\ UNCHANGED <<lifecycle, flags, clocks, admission, workspace, svc, updating,
                   delivery, results>>

(* Mutant: reports every rollback as complete.                             *)
RollBackAssumed(u) ==
    /\ pc[u] \in {"undo", "undoUnproven"}
    /\ dirty' \in {FALSE, dirty}
    /\ Goto(u, "rolledBack")
    /\ UNCHANGED <<lifecycle, flags, clocks, admission, workspace, durable, svc,
                   updating, delivery, results>>

RollBack(u) ==
    /\ pc[u] \in {"undo", "undoUnproven"}
    /\ \/ /\ dirty' = FALSE
          /\ Goto(u, IF pc[u] = "undo" THEN "rolledBack" ELSE "unprovable")
       \/ Goto(u, "unprovable") /\ UNCHANGED dirty
    /\ UNCHANGED <<lifecycle, flags, clocks, admission, workspace, durable, svc,
                   updating, delivery, results>>

FinishUpdate(u) ==
    /\ pc[u] = "committed"
    /\ \/ /\ st = "Updating" /\ current = u /\ ~cancelled[u] /\ ~expired
          /\ BecomeReady
          /\ revision' = req[u].base + 1
          /\ lastSuccess' = {req[u]}
          /\ applied' = [applied EXCEPT ![req[u]] = @ + 1]
          /\ outcome' = [outcome EXCEPT ![u] = "ok"]
          /\ Goto(u, "done")
          /\ UNCHANGED req
       \/ /\ st = "Updating" /\ ~(current = u /\ ~cancelled[u] /\ ~expired)
          /\ Elect(u, FALSE, "Update")
          /\ outcome' = [outcome EXCEPT ![u] = "failed"]
          /\ Goto(u, "services")
          /\ UNCHANGED <<clocks, updating>>
       \/ /\ st # "Updating"
          /\ outcome' = [outcome EXCEPT ![u] = "failed"]
          /\ Goto(u, IF st = "Terminating" /\ owner = "Update" THEN "services" ELSE "done")
          /\ UNCHANGED <<lifecycle, clocks, updating>>
    /\ UNCHANGED <<flags, admission, files, durable, svc, delivery, teardowns,
                   finalArchive>>

FinishUpdateError(u) ==
    /\ pc[u] \in {"rolledBack", "unprovable"}
    /\ outcome' = [outcome EXCEPT ![u] = "failed"]
    /\ \/ /\ st = "Terminating" /\ owner = "Update"
          /\ Goto(u, "services") /\ UNCHANGED <<lifecycle, clocks>>
       \/ /\ st = "Updating" /\ current = u /\ pc[u] = "unprovable"
          /\ Elect(u, FALSE, "Update")
          /\ Goto(u, "services") /\ UNCHANGED clocks
       \/ /\ st = "Updating" /\ current = u /\ pc[u] = "rolledBack"
          /\ BecomeReady
          /\ Goto(u, "done")
       \/ /\ ~(st = "Terminating" /\ owner = "Update") /\ ~(st = "Updating" /\ current = u)
          /\ Goto(u, "done") /\ UNCHANGED <<lifecycle, clocks>>
    /\ UNCHANGED <<flags, admission, files, durable, svc, updating, delivery,
                   teardowns, finalArchive>>

(* The worker panics and its catch_unwind cleans up.                       *)
UpdateWorkerPanicked(u) ==
    /\ pc[u] \in {"apply", "mutated", "undo", "undoUnproven"}
    /\ outcome' = [outcome EXCEPT ![u] = "failed"]
    /\ \/ /\ registered /\ st = "Updating"
          /\ cancelled' = [cancelled EXCEPT ![current] = TRUE]
          /\ Elect(u, FALSE, "Requester")
          /\ Goto(u, "services")
       \/ /\ registered /\ st = "Terminating" /\ owner = "Update"
          /\ Goto(u, "services") /\ UNCHANGED <<lifecycle, cancelled>>
       \/ /\ ~(registered /\ (st = "Updating" \/ (st = "Terminating" /\ owner = "Update")))
          /\ Goto(u, "done") /\ UNCHANGED <<lifecycle, cancelled>>
    /\ UNCHANGED <<initCancelled, clocks, admission, files, durable, svc, updating,
                   delivery, teardowns, finalArchive>>

(***************************************************************************)
(* cleanup_entry, run by the thread that reached label "services".         *)
(***************************************************************************)
(* Abort the timers and take the services out of the entry.                *)
TakeServices(t) ==
    /\ pc[t] = "services"
    /\ idleTimer' = FALSE
    /\ LET taken == services \in {"up", "failed"}
       IN  /\ services' = IF taken THEN "stopping" ELSE services
           /\ pc' = [p \in Threads |->
                        CASE p = t -> IF taken THEN "stopping" ELSE "teardown"
                          [] p = "lifetime" /\ p # t /\ pc[p] = "armed" -> "done"
                          [] OTHER -> pc[p]]
    /\ UNCHANGED <<lifecycle, flags, expired, idleDue, admission, files, durable,
                   unproven, updating, delivery, results>>

(* Stop the services that were taken, last started first.                  *)
StopServices(t) ==
    /\ pc[t] = "stopping"
    /\ services' = "stopped"
    /\ unproven' \in {unproven, unproven \cup {t}}
    /\ Goto(t, "teardown")
    /\ UNCHANGED <<lifecycle, flags, clocks, admission, files, durable, updating,
                   delivery, results>>

Teardown(t) ==
    /\ pc[t] = "teardown"
    /\ teardowns' = IF workspace THEN teardowns + 1 ELSE teardowns
    /\ Goto(t, "artifacts")
    /\ UNCHANGED <<lifecycle, flags, clocks, admission, files, durable, svc, updating,
                   delivery, finalArchive, outcome>>

CollectFinalArtifacts(t) ==
    /\ pc[t] = "artifacts"
    /\ finalArchive' \in IF explicit /\ workspace THEN {finalArchive, TRUE} ELSE {finalArchive}
    /\ Goto(t, "workspace")
    /\ UNCHANGED <<lifecycle, flags, clocks, admission, files, durable, svc, updating,
                   delivery, teardowns, outcome>>

(* Removals that fail are only logged (remove_path, remove_metadata).      *)
RemoveWorkspace(t) ==
    /\ pc[t] = "workspace"
    /\ workspace' \in {FALSE, workspace}
    /\ Goto(t, "metadata")
    /\ UNCHANGED <<lifecycle, flags, clocks, admission, dirty, durable, svc, updating,
                   delivery, results>>

(* Mutant: metadata goes whatever became of the services.                  *)
RemoveMetadataAlways(t) ==
    /\ pc[t] = "metadata"
    /\ meta' = "none"
    /\ Goto(t, "unregister")
    /\ UNCHANGED <<lifecycle, flags, clocks, admission, files, metaRevision, svc,
                   updating, delivery, results>>

(* Metadata stays when a service may have survived.                        *)
RemoveMetadata(t) ==
    /\ pc[t] = "metadata"
    /\ meta' \in IF t \in unproven THEN {meta} ELSE {meta, "none"}
    /\ Goto(t, "unregister")
    /\ UNCHANGED <<lifecycle, flags, clocks, admission, files, metaRevision, svc,
                   updating, delivery, results>>

(* Mutant: the permit is left to whoever drops the entry last.             *)
UnregisterOnly(t) ==
    /\ pc[t] = "unregister"
    /\ registered' = FALSE
    /\ Goto(t, "terminate")
    /\ UNCHANGED <<lifecycle, flags, clocks, permit, files, durable, svc, updating,
                   delivery, results>>

Unregister(t) ==
    /\ pc[t] = "unregister"
    /\ registered' = FALSE
    /\ Goto(t, "release")
    /\ UNCHANGED <<lifecycle, flags, clocks, permit, files, durable, svc, updating,
                   delivery, results>>

(* Mutant: returns without telling the waiters.                            *)
ReleasePermitSilently(t) ==
    /\ pc[t] = "release"
    /\ permit' = FALSE
    /\ Goto(t, "done")
    /\ UNCHANGED <<lifecycle, flags, clocks, registered, files, durable, svc, updating,
                   delivery, results>>

ReleasePermit(t) ==
    /\ pc[t] = "release"
    /\ permit' = FALSE
    /\ Goto(t, "terminate")
    /\ UNCHANGED <<lifecycle, flags, clocks, registered, files, durable, svc, updating,
                   delivery, results>>

(* Terminated, waiters notified; a stop that cleaned up itself returns.    *)
BecomeTerminated(t) ==
    /\ pc[t] = "terminate"
    /\ st' = "Terminated"
    /\ outcome' = IF t \in Stops THEN [outcome EXCEPT ![t] = "ok"] ELSE outcome
    /\ Goto(t, "done")
    /\ UNCHANGED <<started, current, explicit, owner, winner, flags, clocks, admission,
                   files, durable, svc, updating, delivery, teardowns, finalArchive>>

Cleanup(t) ==
    \/ TakeServices(t) \/ StopServices(t) \/ Teardown(t)
    \/ CollectFinalArtifacts(t) \/ RemoveWorkspace(t) \/ RemoveMetadata(t)
    \/ Unregister(t) \/ ReleasePermit(t) \/ BecomeTerminated(t)

(***************************************************************************)
(* The specification.                                                      *)
(***************************************************************************)
UploadStep == CancelUpload \/ UploadHandlerDropped \/ BeginInitialization
InitializerStep ==
    \/ PrepareWorkspace \/ RunPhases \/ StartServices \/ SpawnServices
    \/ AwaitServices \/ PreCommit \/ PersistReady \/ CommitElection
    \/ RevokeCommit \/ InitializerCleanup
WorkerStep(a) ==
    \/ ActionRuns(a) \/ SnapshotArtifacts(a) \/ PublishCheck(a) \/ EnqueueFinal(a)
    \/ AwaitAck(a) \/ DiscardArchive(a) \/ FinishAction(a)
StreamStep(a) == ConsumeFinal(a) \/ AcknowledgeDelivery(a) \/ DisconnectAction(a)
UpdateStep(u) ==
    \/ ApplyUpdate(u) \/ CommitUpdate(u) \/ RollBack(u) \/ FinishUpdate(u)
    \/ FinishUpdateError(u) \/ UpdateWorkerPanicked(u)

Next ==
    \/ DeadlinePasses \/ IdlePeriodPasses
    \/ Reserve \/ UploadStep \/ Disconnect
    \/ InitializationCancelled \/ InitializerStep
    \/ ServiceExits \/ ServiceFailed
    \/ ExpireLifetime \/ IdleTimerWakes \/ ExpireIdle
    \/ \E k \in Stops : Stop(k) \/ StopCompletes(k)
    \/ \E a \in Actions : \/ StartAction(a) \/ OutputCancels(a) \/ WorkerStep(a)
                          \/ StreamStep(a) \/ SendAck(a)
    \/ \E u \in Updates : RetryUpdate(u) \/ StartUpdate(u) \/ UpdateStep(u)
    \/ \E t \in Threads : Cleanup(t)

Spec == Init /\ [][Next]_vars

(***************************************************************************)
(* Every thread of the daemon that can run does run; processes, uploads    *)
(* and waits are bounded by timeouts, so their steps end too.  Idle time   *)
(* passes.  Nothing is assumed of the lifetime deadline or of clients: an  *)
(* upload may stall until its timeout, and no client needs to read,        *)
(* acknowledge, disconnect or stop.                                        *)
(***************************************************************************)
Fairness ==
    /\ WF_vars(IdlePeriodPasses)
    /\ WF_vars(UploadStep)
    /\ WF_vars(InitializerStep)
    /\ WF_vars(ServiceFailed)
    /\ WF_vars(ExpireLifetime) /\ WF_vars(IdleTimerWakes) /\ WF_vars(ExpireIdle)
    /\ \A k \in Stops : WF_vars(StopCompletes(k))
    /\ \A a \in Actions : WF_vars(WorkerStep(a)) /\ WF_vars(SendAck(a))
    /\ \A u \in Updates : WF_vars(UpdateStep(u))
    /\ \A t \in Threads : WF_vars(Cleanup(t))

FairSpec == Spec /\ Fairness

(***************************************************************************)
(* Properties.                                                             *)
(***************************************************************************)
LifecycleTypes ==
    /\ st \in Live \cup {"Absent", "Terminating", "Terminated"}
    /\ current \in Operations \cup {"none"}
    /\ owner \in {"none", "Initializer", "Action", "Update", "Requester"}
    /\ winner \in Threads \cup {"none"}

FlagTypes ==
    /\ started \in BOOLEAN /\ explicit \in BOOLEAN /\ initCancelled \in BOOLEAN
    /\ expired \in BOOLEAN /\ idleDue \in BOOLEAN /\ idleTimer \in BOOLEAN
    /\ registered \in BOOLEAN /\ permit \in BOOLEAN
    /\ workspace \in BOOLEAN /\ dirty \in BOOLEAN /\ finalArchive \in BOOLEAN

StorageTypes ==
    /\ meta \in {"none", "starting", "ready"}
    /\ metaRevision \in 0 .. MaxRevision
    /\ services \in {"off", "up", "failed", "stopping", "stopped"}
    /\ unproven \subseteq Threads
    /\ revision \in 0 .. MaxRevision
    /\ lastSuccess \subseteq Requests
    /\ applied \in [Requests -> Nat]
    /\ req \in [Updates -> Requests]
    /\ teardowns \in Nat

Streams  == {"none", "open", "final", "accepting", "refusing", "drained", "closed"}
Acks     == {"none", "pending", "accepted", "refused", "dropped"}
Archives == {"none", "stored", "discarded"}
Outcomes == {"none", "ok", "retry", "failed"}

ThreadTypes ==
    /\ pc \in [Threads -> Labels]
    /\ cancelled \in [Operations -> BOOLEAN]
    /\ stream \in [Actions -> Streams]
    /\ ack \in [Actions -> Acks]
    /\ archive \in [Actions -> Archives]
    /\ outcome \in [Stops \cup Updates -> Outcomes]

(* Every variable keeps its type: the states of SessionState and of the    *)
(* entry, revisions that fit their integer, and the threads' labels.       *)
TypeOK == LifecycleTypes /\ FlagTypes /\ StorageTypes /\ ThreadTypes

(* The stream accepted action a's final event, so the session is Ready     *)
(* again as far as the client can tell ...                                 *)
Acknowledged(a) == stream[a] = "accepting" \/ ack[a] = "accepted"

(* ... and its worker gave up on the acknowledgement all the same: its     *)
(* five second wait ended, or a detached output reader raised the flag,    *)
(* in the moment between the stream's critical section and its own.        *)
LateAbandon(a) == Acknowledged(a) /\ (pc[a] = "discard" \/ archive[a] = "discarded")
NoLateAbandon == \A a \in Actions : ~LateAbandon(a)

Cleaning(t) == pc[t] \in CleanupSteps

(* Does thread t still work in the session's workspace?                    *)
Working(t) == pc[t] \in {"prepare", "phases", "startServices", "spawnServices",
                         "awaitServices", "run", "snapshot", "apply", "mutated",
                         "undo", "undoUnproven"}

(* Competing cleanup triggers elect one owner, so cleanup_entry is run by  *)
(* one thread at a time and teardown runs at most once (README, managed    *)
(* sessions) -- unless a worker abandons an acknowledged delivery.         *)
CleanupOnce ==
    NoLateAbandon =>
        /\ teardowns <= 1
        /\ \A t1, t2 \in Threads : Cleaning(t1) /\ Cleaning(t2) => t1 = t2

(* Cleanup first joins the initializer or operation: no thread works in    *)
(* the workspace while another one stops services, tears down or removes   *)
(* it, and teardown runs after the services were stopped.                  *)
CleanupJoinsWork ==
    NoLateAbandon =>
        \A t \in Threads : Cleaning(t) =>
            /\ \A w \in Threads : ~Working(w)
            /\ pc[t] \notin {"services", "stopping"} =>
                   services \notin {"up", "failed", "stopping"}

(* The build permit covers everything the session does: once released, no  *)
(* thread works or is about to work in the workspace, stopping the         *)
(* services is over and the session cannot be looked up.  A service whose  *)
(* end was not proven within the bound (unproven) may run on: "a           *)
(* pathological survivor" does not retain the permit (README.md).          *)
PermitCoversWork ==
    NoLateAbandon /\ st # "Absent" /\ ~permit =>
        /\ st \in {"Terminating", "Terminated"}
        /\ ~registered
        /\ services \in {"off", "stopped"}
        /\ \A t \in Threads : ~Working(t) /\ pc[t] \notin CleanupSteps \ {"terminate"}

(* A session that accepts operations is durably committed: its workspace   *)
(* exists and is whole, its metadata says Ready with the revision held in  *)
(* memory, and it is registered and holds its permit.                      *)
ReadyIsDurable ==
    st \in {"Ready", "Action"} =>
        /\ workspace /\ ~dirty /\ registered /\ permit
        /\ meta = "ready" /\ metaRevision = revision

(* A stop answered with success is the one that elected termination, and   *)
(* final artifacts are only collected for such a stop: an automatic result *)
(* is never returned as an explicit success.                               *)
ExplicitStopWins ==
    /\ \A k \in Stops : outcome[k] = "ok" => winner = k
    /\ finalArchive => winner \in Stops

(* An update request is applied at most once however often it is sent, and *)
(* a success or a retry is only answered for one that was applied.         *)
UpdateAppliedOnce ==
    /\ \A q \in Requests : applied[q] <= 1
    /\ \A u \in Updates : outcome[u] \in {"ok", "retry"} => applied[req[u]] = 1

(* An archive whose final event was not acknowledged does not stay: its    *)
(* worker is still to deliver or to discard it, and is through with that   *)
(* before the session is gone (unless cleanup did not wait for it because  *)
(* another worker abandoned an acknowledged delivery).  Discarding it is   *)
(* one attempt to remove it whose failure is ignored: what such a failure  *)
(* leaves is the garbage collector's (ArtifactStore).                      *)
UndeliveredArchivesDiscarded ==
    \A a \in Actions : archive[a] = "stored" /\ ~Acknowledged(a) =>
        /\ pc[a] \in {"publish", "deliver", "awaitAck", "discard"}
        /\ NoLateAbandon => st # "Terminated"

(* Metadata is retained for fail-closed reconciliation when a service may  *)
(* have survived the cleanup of a session that had become Ready.           *)
UnprovenReadyKeepsMetadata ==
    NoLateAbandon /\ unproven # {} /\ owner # "Initializer" => meta = "ready"

(* The two statements of the README without their exceptions.              *)
(* "the configured idempotent teardown runs at most once"                  *)
TeardownAtMostOnce == teardowns <= 1

(* "If supervisor or service-group disappearance cannot be proven within   *)
(* the bound, protected metadata is deliberately retained"                 *)
UnprovenKeepsMetadata == unproven # {} => meta # "none"

(* Termination is elected once: no later trigger changes the winner, the   *)
(* cleanup owner or the explicit flag, or revives the session.             *)
ElectionIsFinal ==
    [][winner # "none" =>
          /\ UNCHANGED <<winner, owner, explicit>>
          /\ st' \in (IF st = "Terminated" THEN {"Terminated"}
                                           ELSE {"Terminating", "Terminated"})]_vars

(* What clients and admission control can tell of the state.               *)
PhaseOf ==
    CASE st = "Absent"       -> "absent"
      [] st = "Initializing" -> "starting"
      [] st = "Ready"        -> "ready"
      [] st = "Action"       -> "acting"
      [] st = "Updating"     -> "updating"
      [] st = "Terminating"  -> "closing"
      [] OTHER               -> "closed"
CloserOf == IF winner \in Stops \cup {"none"} THEN winner ELSE "daemon"
AnsweredOf == {k \in Stops : outcome[k] = "ok"}

Contract == INSTANCE SessionContract
            WITH phase <- PhaseOf, closer <- CloserOf, answered <- AnsweredOf

(* The session implements its contract: phases in order under one permit,  *)
(* revisions that move by one, one closer and only that stop told of       *)
(* success.                                                                *)
ImplementsContract == Contract!Spec

(* Where an update is, in the terms of UpdateContract.                     *)
UpdatePhase(u) ==
    CASE pc[u] = "idle" -> "idle"
      [] pc[u] \in {"apply", "mutated", "undo", "undoUnproven", "rolledBack",
                    "unprovable", "committed"} -> pc[u]
      [] OTHER -> "over"

Update(u) == INSTANCE UpdateContract WITH phase <- UpdatePhase(u)

(* The session uses each update as UpdateContract allows, which the file   *)
(* operations of SourceUpdate implement: dirty only between the first      *)
(* mutation and its commit or rollback, and an end that says which.        *)
UpdatesConform ==
    /\ \A u \in Updates : Update(u)!Init
    /\ [][\A u \in Updates :
             Update(u)!Step \/ UNCHANGED <<UpdatePhase(u), dirty>>]_vars

(* Once its deadline passed, a session ends and gives its permit back, even *)
(* one whose upload was abandoned.                                         *)
DeadlineReleasesPermit == expired ~> (st = "Terminated" /\ ~permit)

(* A stop request that elected termination is answered.                    *)
StopAnswered == \A k \in Stops : (pc[k] # "idle") ~> (pc[k] = "done")

(* A Ready session does not stay Ready, even if its deadline never comes:  *)
(* an idle timer watches every Ready period.                               *)
ReadyEventuallyExpires == (st = "Ready") ~> (st # "Ready")

=============================================================================
