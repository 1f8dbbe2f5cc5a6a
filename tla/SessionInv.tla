---------------------------- MODULE SessionInv -----------------------------
(***************************************************************************)
(* The inductive invariants behind the safety properties of Session.  TLC  *)
(* checks them on small instances (MCSession), SessionProofs proves them.  *)
(***************************************************************************)
EXTENDS Session

(* A thread that is inside the operation it was started for.               *)
Engaged(t) == pc[t] \notin {"idle", "done"} \cup CleanupSteps

Over == st \in {"Terminating", "Terminated"}

(* Which labels each kind of thread can be at, and that an update past the *)
(* overflow check has a next revision.                                     *)
UploadLabels == {"idle", "uploading", "done"} \cup CleanupSteps
StreamLabels == {"idle", "open", "done"} \cup CleanupSteps
InitializerLabels ==
    {"idle", "prepare", "phases", "startServices", "spawnServices", "awaitServices",
     "precommit", "persist", "elect", "revoke", "cleanup", "done"} \cup CleanupSteps
ActionLabels == {"idle", "run", "snapshot", "publish", "deliver", "awaitAck",
                 "discard", "finish", "done"} \cup CleanupSteps
UpdateLabels == {"idle", "apply", "mutated", "undo", "undoUnproven", "rolledBack",
                 "unprovable", "committed", "done"} \cup CleanupSteps
StopLabels == {"idle", "waiting", "done"} \cup CleanupSteps
PastOverflow == {"mutated", "undo", "undoUnproven", "committed"}

LabelsOK ==
    /\ pc["upload"] \in UploadLabels
    /\ pc["startStream"] \in StreamLabels
    /\ pc["initializer"] \in InitializerLabels
    /\ pc["service"] \in {"idle", "failed", "done"} \cup CleanupSteps
    /\ pc["lifetime"] \in {"idle", "armed", "done"} \cup CleanupSteps
    /\ pc["idle"] \in {"idle", "firing", "done"} \cup CleanupSteps
    /\ \A a \in Actions : pc[a] \in ActionLabels
    /\ \A u \in Updates : pc[u] \in UpdateLabels
    /\ \A k \in Stops : pc[k] \in StopLabels
    /\ \A u \in Updates : pc[u] \in PastOverflow => req[u].base < MaxRevision

(* The protocol of one action's response stream and acknowledgement.       *)
DeliveryOK ==
    \A a \in Actions :
        /\ pc[a] \in {"idle", "run", "snapshot", "publish", "deliver"} =>
               ack[a] = "none" /\ archive[a] # "discarded"
        /\ pc[a] \in {"idle", "run", "snapshot"} => archive[a] = "none"
        /\ ack[a] = "none" /\ archive[a] = "stored" =>
               pc[a] \in {"publish", "deliver", "discard"}
        /\ ack[a] = "none" => stream[a] \in {"none", "open", "closed"}
        /\ stream[a] \in {"final", "accepting", "refusing"} => ack[a] = "pending"
        /\ ack[a] = "accepted" => stream[a] \in {"drained", "closed"}
        /\ ack[a] # "none" /\ archive[a] # "discarded" =>
               pc[a] \in {"awaitAck", "discard"} \/ (pc[a] = "done" /\ Acknowledged(a))

(* Termination and cleanup go together, and whoever is engaged is engaged  *)
(* in the current operation, or was when termination was elected -- except *)
(* for a worker whose delivery was acknowledged.                           *)
PhaseOK ==
    /\ (winner # "none") <=> Over
    /\ \A t \in Threads : Cleaning(t) => Over
    /\ st = "Absent" => ~started /\ services = "off" /\ \A t \in Threads : pc[t] = "idle"
    /\ st \in Live => registered /\ permit
    /\ ~started => pc["initializer"] = "idle" /\ pc["startStream"] = "idle"
    /\ st \in {"Ready", "Action", "Updating"} => started
    /\ st = "Initializing" /\ started => Engaged("initializer")
    /\ Engaged("initializer") =>
           started /\ (st = "Initializing" \/ (Over /\ owner = "Initializer"))
    /\ st = "Action" => current \in Actions /\ Engaged(current)
    /\ st = "Updating" => current \in Updates /\ Engaged(current)
    /\ \A u \in Updates : Engaged(u) =>
           current = u /\ (st = "Updating" \/ (Over /\ owner = "Update"))
    /\ \A a \in Actions : Engaged(a) =>
           \/ current = a /\ (st = "Action" \/ (Over /\ owner = "Action"))
           \/ pc[a] = "awaitAck" /\ Acknowledged(a)
           \/ LateAbandon(a)
    /\ \A a \in Actions : Acknowledged(a) =>
           ~(current = a /\ (st = "Action" \/ (Over /\ owner = "Action")))

(* Services run from one spawn to one failure or stop.                     *)
ServicesOK ==
    /\ pc["initializer"] \in {"idle", "prepare", "phases", "startServices", "spawnServices"} =>
           services = "off"
    /\ pc["service"] # "idle" => services \notin {"off", "up"}
    /\ \A t \in Threads : pc[t] = "stopping" => services \in {"stopping", "stopped"}

(* The thread that owns cleanup_entry once termination is elected.         *)
Designee ==
    IF owner = "Initializer" THEN "initializer"
    ELSE IF owner = "Requester" THEN winner ELSE current

AfterStopping == CleanupSteps \ {"services", "stopping"}
AfterTeardown == AfterStopping \ {"teardown"}

(* What has been stopped, torn down and released when the owner is at a    *)
(* label.                                                                  *)
OwnerState(at) ==
    /\ teardowns = 0 \/ (teardowns = 1 /\ at \in AfterTeardown \cup {"done"})
    /\ services = "stopping" => at = "stopping"
    /\ at \in AfterStopping \cup {"done"} => services \notin {"up", "failed", "stopping"}
    /\ ~permit => at \in {"terminate", "done"}
    /\ at \in {"release", "terminate", "done"} <=> ~registered
    /\ at = "done" <=> st = "Terminated"

(* Only the designee cleans up, in order.                                  *)
SoleOwner ==
    /\ \A t \in Threads : Cleaning(t) => t = Designee
    /\ ~Over => teardowns = 0 /\ services \notin {"stopping", "stopped"}
    /\ Over =>
        /\ owner \in {"Initializer", "Action", "Update", "Requester"}
        /\ owner = "Action" => current \in Actions
        /\ owner = "Update" => current \in Updates
        /\ owner = "Requester" => pc[Designee] \in CleanupSteps \cup {"done"}
        /\ pc[Designee] # "idle"
        /\ OwnerState(pc[Designee])

OwnershipOK == NoLateAbandon => SoleOwner

(* What is durable in each phase.                                          *)
DurabilityOK ==
    /\ st = "Absent" => ~workspace /\ ~dirty /\ revision = 0
    /\ st = "Initializing" =>
           /\ ~dirty /\ revision = 0
           /\ pc["initializer"] \in {"phases", "startServices", "spawnServices",
                  "awaitServices", "precommit", "persist", "elect"} => workspace
           /\ pc["initializer"] = "elect" => meta = "ready" /\ metaRevision = 0
    /\ st \in {"Ready", "Action", "Updating"} =>
           workspace /\ meta = "ready"
    /\ st \in {"Ready", "Action"} => ~dirty /\ metaRevision = revision
    /\ st = "Updating" =>
           /\ pc[current] \in {"apply", "mutated", "undo", "rolledBack"} => metaRevision = revision
           /\ pc[current] \in {"apply", "rolledBack", "committed"} => ~dirty
           /\ pc[current] = "committed" => metaRevision = revision + 1

(* Requests applied so far have a base below the revision.                 *)
UpdatesOK ==
    /\ \A q \in Requests :
           applied[q] = 0 \/ (applied[q] = 1 /\ q.base < revision)
    /\ \A q \in lastSuccess : applied[q] = 1
    /\ st = "Updating" => req[current].base = revision
    /\ \A u \in Updates : outcome[u] \in {"ok", "retry"} => applied[req[u]] = 1

(* Stops that wait or clean up elected termination themselves.             *)
StopsOK ==
    /\ \A k \in Stops : pc[k] # "idle" => winner = k
    /\ \A k \in Stops : outcome[k] = "ok" => winner = k
    /\ explicit => winner \in Stops
    /\ finalArchive => explicit

(* Metadata is Ready from the spawn of the services that an owner other    *)
(* than the initializer stops until they are stopped, and after that as    *)
(* long as one of them may have survived.                                  *)
UnprovenOwned ==
    /\ \A t \in Threads : pc[t] = "stopping" => services = "stopping"
    /\ unproven # {} => Over /\ unproven = {Designee} /\ services = "stopped"
    /\ Over /\ owner # "Initializer" =>
           (unproven # {} \/ services \in {"up", "failed", "stopping"} => meta = "ready")

UnprovenOK == NoLateAbandon => UnprovenOwned

(* All of it together is inductive.                                        *)
Inductive ==
    /\ TypeOK /\ LabelsOK /\ DeliveryOK /\ PhaseOK /\ ServicesOK
    /\ DurabilityOK /\ UpdatesOK /\ StopsOK /\ OwnershipOK /\ UnprovenOK

=============================================================================
