------------------------------ MODULE Services ------------------------------
(***************************************************************************)
(* The retained services of one managed session, each under a supervisor   *)
(* process of its own (src/services.rs), the daemon that starts and stops  *)
(* them (src/sessions.rs), and what the next daemon does with what a       *)
(* crashed one left behind (reconcile_stale_sessions).                     *)
(*                                                                         *)
(* Three kinds of process act on a service: the daemon, which may die at   *)
(* any point and takes its ends of the pipes with it; the supervisor,      *)
(* which learns of that from the control pipe; and the service's process   *)
(* group, whose leader may exit and leave descendants behind.  Services    *)
(* are numbered in the order of their sorted names.                        *)
(***************************************************************************)
EXTENDS Naturals, Sequences, FiniteSets, FiniteSetsExt

CONSTANTS
    N,           \* number of configured services
    MaxCrashes,  \* bound: daemon crashes
    MaxFaults    \* bound: wedged or killed supervisors, groups that survive SIGKILL

ASSUME SomeService == N \in Nat \ {0}

Svc == 1 .. N

VARIABLES
    \* --- the daemon (lost in a crash)
    daemon,      \* running, down, or reconciling
    session,     \* starting, ready, ending, over
    boot,        \* where start_configured_services is
    cur,         \* the service it is at
    handed,      \* services pushed to entry.services
    cancelled,   \* entry.initialization_cancellation
    cleanup,     \* where cleanup_entry is
    left,        \* services cleanup (or reconciliation) still has to look at
    unproven,    \* service_identity_cleanup_unproven
    control,     \* the daemon's end of the control pipe is open
    reading,     \* somebody reads the status pipe
    monitor,     \* the monitor thread: none, watching, reaping, done
    stopping,    \* RunningService.stopping
    failed,      \* RunningService.failed
    callback,    \* services whose on_exit callback is due
    \* --- on disk
    meta,        \* durable state: none, starting, ready
    recorded,    \* the services it names
    workspace,   \* the session's workspace exists
    \* --- the supervisors and services (survive the daemon)
    sup,         \* none, starting, spawned, watching, terminating, reporting, erring, exited
    status,      \* the status pipe
    group,       \* the service's process group: none, up, orphans (no leader), gone
    ready,       \* the readiness pipe: open, ready, bad
    \* --- history and bounds
    seenReady,   \* services whose exact readiness message was received
    abandoned,   \* services left behind by a pending supervisor that was harmed
    lost,        \* services alive, but not recorded, when the daemon crashed
    harmed,      \* services whose supervisor could not do its work
    crashes, faults

memory == <<daemon, session, boot, cur, handed, cancelled, cleanup, left, unproven>>
pipes  == <<control, reading, monitor, stopping, failed, callback>>
disk   == <<meta, recorded, workspace>>
procs  == <<sup, status, group, ready>>
past   == <<seenReady, abandoned, lost, harmed, crashes, faults>>
vars   == <<memory, pipes, disk, procs, past>>

Alive(s) == group[s] \in {"up", "orphans"}
Running(s) == sup[s] \notin {"none", "exited"}

Init ==
    /\ daemon = "running" /\ session = "starting" /\ boot = "recordStart" /\ cur = 1
    /\ handed = {} /\ cancelled = FALSE /\ cleanup = "none" /\ left = {} /\ unproven = FALSE
    /\ control = [s \in Svc |-> FALSE] /\ reading = [s \in Svc |-> FALSE]
    /\ monitor = [s \in Svc |-> "none"] /\ stopping = [s \in Svc |-> FALSE]
    /\ failed = [s \in Svc |-> FALSE] /\ callback = {}
    /\ meta = "none" /\ recorded = {} /\ workspace = TRUE
    /\ sup = [s \in Svc |-> "none"] /\ status = [s \in Svc |-> <<>>]
    /\ group = [s \in Svc |-> "none"] /\ ready = [s \in Svc |-> "open"]
    /\ seenReady = {} /\ abandoned = {} /\ lost = {} /\ harmed = {}
    /\ crashes = 0 /\ faults = 0

(* Something that should not happen does, within the bound.                *)
Fault == faults < MaxFaults /\ faults' = faults + 1
Harm(s) == Fault /\ harmed' = harmed \cup {s}
NoFault == UNCHANGED <<faults, harmed>>

(***************************************************************************)
(* The daemon starts the services one after the other.                     *)
(***************************************************************************)
(* Initialization fails: the initializer owns the cleanup.                 *)
FailBoot ==
    /\ boot' = "none" /\ session' = "ending"
    /\ cleanup' = "stop" /\ left' = handed

(* Before the first spawn: metadata that says services are starting.       *)
RecordStart ==
    /\ boot = "recordStart"
    /\ \/ /\ meta' = "starting" /\ boot' = "next"
          /\ UNCHANGED <<session, cleanup, left>>
       \/ meta' \in {meta, "starting"} /\ FailBoot
    /\ UNCHANGED <<daemon, cur, handed, cancelled, unproven, recorded, workspace,
                   pipes, procs, past>>

(* spawn_service up to the spawn of the supervisor.                        *)
SpawnSupervisor ==
    /\ boot = "next" /\ cur <= N
    /\ \/ /\ ~cancelled
          /\ sup' = [sup EXCEPT ![cur] = "starting"]
          /\ control' = [control EXCEPT ![cur] = TRUE]
          /\ reading' = [reading EXCEPT ![cur] = TRUE]
          /\ boot' = "status"
          /\ UNCHANGED <<session, cleanup, left>>
       \/ FailBoot /\ UNCHANGED <<sup, control, reading>>
    /\ UNCHANGED <<daemon, cur, handed, cancelled, unproven, monitor, stopping, failed,
                   callback, disk, status, group, ready, past>>

(* try_read_status returns a message, or an error at the end of the pipe.  *)
StatusReadable(s) == status[s] # <<>> \/ ~Running(s)
ReadStatus(s) == status' = [status EXCEPT ![s] = IF @ = <<>> THEN @ ELSE Tail(@)]

(* The supervisor's guard is disarmed and a RunningService owns it.        *)
HandOver(s) ==
    /\ handed' = handed \cup {s}
    /\ monitor' = [monitor EXCEPT ![s] = "watching"]

(* wait_initial_status: the service's identity, an error, or no time left. *)
AwaitStatus ==
    /\ boot = "status"
    /\ \/ /\ status[cur] # <<>> /\ Head(status[cur]) = "spawned"
          /\ ReadStatus(cur) /\ HandOver(cur)
          /\ boot' = "record"
          /\ UNCHANGED <<control, reading>>
       \/ /\ control' = [control EXCEPT ![cur] = FALSE]
          /\ reading' = [reading EXCEPT ![cur] = FALSE]
          /\ boot' = "drop"
          /\ UNCHANGED <<status, handed, monitor>>
    /\ UNCHANGED <<daemon, session, cur, cancelled, cleanup, left, unproven, stopping,
                   failed, callback, disk, sup, group, ready, past>>

(* Drop of PendingSupervisor: a bounded wait, SIGTERM, SIGKILL, a warning. *)
(* It looks at the supervisor only, not at the service's group.            *)
DropPending ==
    /\ boot = "drop"
    /\ \/ /\ ~Running(cur)
          /\ UNCHANGED sup /\ NoFault
       \/ /\ Running(cur) /\ Harm(cur)
          /\ sup' \in {sup, [sup EXCEPT ![cur] = "exited"]}
    /\ abandoned' = abandoned \cup ({cur} \cap harmed')
    /\ FailBoot
    /\ UNCHANGED <<daemon, cur, handed, cancelled, unproven, pipes, disk, status,
                   group, ready, seenReady, lost, crashes>>

(* The identity of the service just spawned is made durable.               *)
RecordService ==
    /\ boot = "record"
    /\ \/ /\ recorded' = handed /\ boot' = "await"
          /\ UNCHANGED <<session, cleanup, left>>
       \/ recorded' \in {recorded, handed} /\ FailBoot
    /\ UNCHANGED <<daemon, cur, handed, cancelled, unproven, meta, workspace, pipes,
                   procs, past>>

(* Mutant: a service that failed meanwhile is taken for ready.             *)
WaitReadyLoosely ==
    /\ boot = "await"
    /\ \/ /\ ready[cur] # "open" /\ ~failed[cur]
          /\ seenReady' = seenReady \cup ({cur} \cap {s \in Svc : ready[s] = "ready"})
          /\ cur' = cur + 1 /\ boot' = "next"
          /\ UNCHANGED <<session, cleanup, left>>
       \/ FailBoot /\ UNCHANGED <<seenReady, cur>>
    /\ UNCHANGED <<daemon, handed, cancelled, unproven, pipes, disk, procs, abandoned,
                   lost, harmed, crashes, faults>>

(* wait_ready: exactly the readiness message, and no exit noticed when it  *)
(* came.  A failed output drain is looked for before each wait, not after  *)
(* the message: it is one of the reasons to fail here, or goes unnoticed   *)
(* and ends the session by its callback.                                   *)
WaitReady ==
    /\ boot = "await"
    /\ \/ /\ ready[cur] = "ready" /\ ~failed[cur]
          /\ seenReady' = seenReady \cup {cur}
          /\ cur' = cur + 1 /\ boot' = "next"
          /\ UNCHANGED <<session, cleanup, left>>
       \/ FailBoot /\ UNCHANGED <<seenReady, cur>>
    /\ UNCHANGED <<daemon, handed, cancelled, unproven, pipes, disk, procs, abandoned,
                   lost, harmed, crashes, faults>>

(* Durable Ready, then the election; a lost one removes the metadata.      *)
PersistReady ==
    /\ boot = "next" /\ cur > N
    /\ \/ /\ ~cancelled /\ meta' = "ready" /\ boot' = "elect"
          /\ UNCHANGED <<session, cleanup, left>>
       \/ meta' \in {meta, "ready"} /\ FailBoot
    /\ UNCHANGED <<daemon, cur, handed, cancelled, unproven, recorded, workspace, pipes,
                   procs, past>>

CommitReady ==
    /\ boot = "elect"
    /\ \/ /\ ~cancelled /\ session' = "ready" /\ boot' = "none"
          /\ UNCHANGED <<cleanup, left, meta, recorded>>
       \/ cancelled /\ FailBoot /\ meta' = "none" /\ recorded' = {}
    /\ UNCHANGED <<daemon, cur, handed, cancelled, unproven, workspace, pipes, procs, past>>

Boot ==
    /\ daemon = "running"
    /\ \/ RecordStart \/ SpawnSupervisor \/ AwaitStatus \/ DropPending \/ RecordService
       \/ WaitReady \/ PersistReady \/ CommitReady

(***************************************************************************)
(* The monitor of each service, and its callback.                          *)
(***************************************************************************)
(* The next status, or the end of the pipe when its writer is gone.        *)
MonitorReads(s) ==
    /\ daemon = "running" /\ monitor[s] = "watching"
    /\ StatusReadable(s) /\ ReadStatus(s)
    /\ monitor' = [monitor EXCEPT ![s] = "reaping"]
    /\ UNCHANGED <<memory, control, reading, stopping, failed, callback, disk, sup, group,
                   ready, past>>

(* stop_supervisor_process, then the outcome; unless the daemon is         *)
(* stopping the service itself, this is a failure of the session.          *)
MonitorReaps(s) ==
    /\ daemon = "running" /\ monitor[s] = "reaping"
    /\ \/ /\ ~Running(s) /\ UNCHANGED sup /\ NoFault
       \/ /\ Running(s) /\ Harm(s)
          /\ sup' \in {sup, [sup EXCEPT ![s] = "exited"]}
    /\ monitor' = [monitor EXCEPT ![s] = "done"]
    /\ failed' = [failed EXCEPT ![s] = @ \/ ~stopping[s]]
    /\ callback' = IF stopping[s] THEN callback ELSE callback \cup {s}
    /\ UNCHANGED <<memory, control, reading, stopping, disk, status, group, ready,
                   seenReady, abandoned, lost, crashes>>

(* A drain of the service's output gives up (spawn_output_drain).          *)
OutputDrainFails(s) ==
    /\ daemon = "running" /\ s \in handed /\ ~stopping[s]
    /\ Fault /\ UNCHANGED harmed
    /\ callback' = callback \cup {s}
    /\ UNCHANGED <<memory, control, reading, monitor, stopping, failed, disk, procs,
                   seenReady, abandoned, lost, crashes>>

(* Mutant: a failure during initialization does not reach the initializer. *)
TerminateReadyOnly ==
    \/ /\ session = "ready"
       /\ session' = "ending" /\ cleanup' = "stop" /\ left' = handed
       /\ UNCHANGED cancelled
    \/ session # "ready" /\ UNCHANGED <<session, cleanup, left, cancelled>>

(* service_failed, a stop, or an expiry: an initializer is cancelled and   *)
(* will clean up, a Ready session is cleaned up by whoever ends it.        *)
Terminate ==
    \/ /\ session = "starting"
       /\ session' = "ending" /\ cancelled' = TRUE
       /\ UNCHANGED <<cleanup, left>>
    \/ /\ session = "ready"
       /\ session' = "ending" /\ cleanup' = "stop" /\ left' = handed
       /\ UNCHANGED cancelled
    \/ session \in {"ending", "over"} /\ UNCHANGED <<session, cleanup, left, cancelled>>

ServiceFailed(s) ==
    /\ daemon = "running" /\ s \in callback
    /\ callback' = callback \ {s}
    /\ Terminate
    /\ UNCHANGED <<daemon, boot, cur, handed, unproven, control, reading, monitor, stopping,
                   failed, disk, procs, past>>

EndSession ==
    /\ daemon = "running" /\ session \in {"starting", "ready"}
    /\ Terminate
    /\ UNCHANGED <<daemon, boot, cur, handed, unproven, pipes, disk, procs, past>>

(***************************************************************************)
(* cleanup_entry: services are stopped in reverse order.                   *)
(***************************************************************************)
Last == Max(left)

(* RunningService::stop closes the control pipe ...                        *)
CloseControl ==
    /\ cleanup = "stop" /\ left # {}
    /\ stopping' = [stopping EXCEPT ![Last] = TRUE]
    /\ control' = [control EXCEPT ![Last] = FALSE]
    /\ cleanup' = "join"
    /\ UNCHANGED <<daemon, session, boot, cur, handed, cancelled, left, unproven, reading,
                   monitor, failed, callback, disk, procs, past>>

(* ... waits for the monitor, or signals the supervisor and gives up ...   *)
JoinMonitor ==
    /\ cleanup = "join"
    /\ \/ /\ monitor[Last] = "done"
          /\ cleanup' = "group"
          /\ UNCHANGED <<sup, unproven>> /\ NoFault
       \/ /\ monitor[Last] # "done" /\ Running(Last) /\ Harm(Last)
          /\ sup' = [sup EXCEPT ![Last] = "exited"]
          /\ UNCHANGED <<cleanup, unproven>>
       \/ /\ monitor[Last] # "done" /\ Harm(Last)
          /\ unproven' = TRUE /\ cleanup' = "group"
          /\ UNCHANGED sup
    /\ UNCHANGED <<daemon, session, boot, cur, handed, cancelled, left, pipes, disk, status,
                   group, ready, seenReady, abandoned, lost, crashes>>

(* ... and terminates the recorded group itself.                           *)
StopGroup ==
    /\ cleanup = "group"
    /\ \/ /\ group' = [group EXCEPT ![Last] = "gone"]
          /\ UNCHANGED unproven /\ NoFault
       \/ /\ Alive(Last) /\ Harm(Last)
          /\ unproven' = TRUE /\ UNCHANGED group
    /\ left' = left \ {Last} /\ cleanup' = "stop"
    /\ UNCHANGED <<daemon, session, boot, cur, handed, cancelled, pipes, disk, sup, status,
                   ready, seenReady, abandoned, lost, crashes>>

(* Teardown, the workspace, the metadata unless a service is unproven.     *)
TearDown ==
    /\ cleanup = "stop" /\ left = {}
    /\ cleanup' = "remove"
    /\ UNCHANGED <<daemon, session, boot, cur, handed, cancelled, left, unproven, pipes, disk,
                   procs, past>>

(* Mutant: an unproven stop ends cleanup early.                            *)
RemoveSessionProven ==
    /\ cleanup = "remove" /\ ~unproven
    /\ workspace' = FALSE
    /\ meta' = "none"
    /\ recorded' = {}
    /\ session' = "over" /\ cleanup' = "none"
    /\ UNCHANGED <<daemon, boot, cur, handed, cancelled, left, unproven, pipes, procs, past>>

RemoveSession ==
    /\ cleanup = "remove"
    /\ workspace' = FALSE
    /\ meta' = IF unproven THEN meta ELSE "none"
    /\ recorded' = IF unproven THEN recorded ELSE {}
    /\ session' = "over" /\ cleanup' = "none"
    /\ UNCHANGED <<daemon, boot, cur, handed, cancelled, left, unproven, pipes, procs, past>>

Cleanup ==
    /\ daemon = "running"
    /\ CloseControl \/ JoinMonitor \/ StopGroup \/ TearDown \/ RemoveSession

(***************************************************************************)
(* The supervisor (run_supervisor, supervise_service).                     *)
(***************************************************************************)
Report(s, message) ==
    status' = [status EXCEPT ![s] = IF reading[s] THEN Append(@, message) ELSE @]

(* It reads its orders and spawns the service in a group of its own, or    *)
(* reports that it could not; without a daemon there may be no orders.     *)
SpawnService(s) ==
    /\ sup[s] = "starting"
    /\ \/ /\ sup' = [sup EXCEPT ![s] = "spawned"]
          /\ group' = [group EXCEPT ![s] = "up"]
          /\ UNCHANGED status
       \/ /\ sup' = [sup EXCEPT ![s] = "exited"]
          /\ Report(s, "failed")
          /\ UNCHANGED group
    /\ UNCHANGED <<memory, pipes, disk, ready, past>>

(* The service's identity is reported; with no reader the write fails.     *)
ReportSpawned(s) ==
    /\ sup[s] = "spawned"
    /\ sup' = [sup EXCEPT ![s] = IF reading[s] THEN "watching" ELSE "erring"]
    /\ Report(s, "spawned")
    /\ UNCHANGED <<memory, pipes, disk, group, ready, past>>

(* Mutant: the control pipe is not polled.                                 *)
NoticeExitOnly(s) ==
    /\ sup[s] = "watching"
    /\ group[s] # "up"
    /\ sup' = [sup EXCEPT ![s] = "terminating"]
    /\ UNCHANGED <<memory, pipes, disk, status, group, ready, past>>

(* The poll loop: the leader has exited, or the control pipe was closed.   *)
Notice(s) ==
    /\ sup[s] = "watching"
    /\ group[s] # "up" \/ ~control[s]
    /\ sup' = [sup EXCEPT ![s] = "terminating"]
    /\ UNCHANGED <<memory, pipes, disk, status, group, ready, past>>

(* Mutant: only the leader is waited for.                                  *)
TerminateLeaderOnly(s) ==
    /\ sup[s] = "terminating"
    /\ group' = [group EXCEPT ![s] = IF @ = "up" THEN "gone" ELSE @]
    /\ sup' = [sup EXCEPT ![s] = "reporting"] /\ NoFault
    /\ UNCHANGED <<memory, pipes, disk, status, ready, seenReady, abandoned, lost, crashes>>

(* SIGTERM, the configured wait, SIGKILL, and proof that the group is gone. *)
TerminateGroup(s) ==
    /\ sup[s] = "terminating"
    /\ \/ /\ group' = [group EXCEPT ![s] = "gone"]
          /\ sup' = [sup EXCEPT ![s] = "reporting"] /\ NoFault
       \/ /\ Alive(s) /\ Harm(s)
          /\ sup' = [sup EXCEPT ![s] = "erring"] /\ UNCHANGED group
    /\ UNCHANGED <<memory, pipes, disk, status, ready, seenReady, abandoned, lost, crashes>>

(* The final status, then finish and exit.                                 *)
ReportEnd(s) ==
    /\ sup[s] = "reporting"
    /\ sup' = [sup EXCEPT ![s] = "exited"]
    /\ Report(s, "ended")
    /\ UNCHANGED <<memory, pipes, disk, group, ready, past>>

(* An error: the armed guard tries once more, then the error is reported.  *)
FailSupervision(s) ==
    /\ sup[s] = "erring"
    /\ \/ group' = [group EXCEPT ![s] = "gone"] /\ NoFault
       \/ Alive(s) /\ Harm(s) /\ UNCHANGED group
    /\ sup' = [sup EXCEPT ![s] = "exited"]
    /\ Report(s, "failed")
    /\ UNCHANGED <<memory, pipes, disk, ready, seenReady, abandoned, lost, crashes>>

Supervisor(s) ==
    \/ SpawnService(s) \/ ReportSpawned(s) \/ Notice(s) \/ TerminateGroup(s)
    \/ ReportEnd(s) \/ FailSupervision(s)

(***************************************************************************)
(* What else happens.                                                      *)
(***************************************************************************)
(* The service's leader exits, with or without leaving descendants.        *)
LeaderExits(s) ==
    /\ group[s] = "up"
    /\ \E now \in {"orphans", "gone"} : group' = [group EXCEPT ![s] = now]
    /\ UNCHANGED <<memory, pipes, disk, sup, status, ready, past>>

(* The readiness pipe is closed, after the exact message or not.           *)
CloseReadiness(s) ==
    /\ group[s] # "none" /\ ready[s] = "open"
    /\ \E how \in {"bad"} \cup (IF Alive(s) THEN {"ready"} ELSE {}) :
          ready' = [ready EXCEPT ![s] = how]
    /\ UNCHANGED <<memory, pipes, disk, sup, status, group, past>>

SupervisorDies(s) ==
    /\ Running(s) /\ Harm(s)
    /\ sup' = [sup EXCEPT ![s] = "exited"]
    /\ UNCHANGED <<memory, pipes, disk, status, group, ready, seenReady, abandoned, lost,
                   crashes>>

(* The daemon dies, or ends: its memory and its ends of the pipes are gone. *)
Crash ==
    /\ daemon # "down" /\ crashes < MaxCrashes
    /\ crashes' = crashes + 1
    /\ daemon' = "down"
    /\ session' = "over" /\ boot' = "none" /\ cleanup' = "none"
    /\ handed' = {} /\ left' = {} /\ cancelled' = FALSE /\ unproven' = FALSE
    /\ control' = [s \in Svc |-> FALSE] /\ reading' = [s \in Svc |-> FALSE]
    /\ monitor' = [s \in Svc |-> "none"] /\ callback' = {}
    /\ lost' = lost \cup {s \in Svc \ recorded : Running(s) \/ Alive(s)}
    /\ UNCHANGED <<cur, stopping, failed, disk, procs, seenReady, abandoned, harmed, faults>>

(***************************************************************************)
(* The next daemon: reconcile_stale_sessions.                              *)
(***************************************************************************)
Restart ==
    /\ daemon = "down"
    /\ daemon' = "reconciling" /\ left' = recorded
    /\ UNCHANGED <<session, boot, cur, handed, cancelled, cleanup, unproven, pipes, disk,
                   procs, past>>

(* Mutant: only the supervisor is waited for.                              *)
StaleServiceGoneMeansSupervisor(s) == ~Running(s)

(* process_exists of supervisor and leader, process_group_exists.          *)
StaleServiceGone(s) == ~Running(s) /\ ~Alive(s)

(* await_stale_service_shutdown, last service first: gone, or startup is   *)
(* refused when it is still there at the deadline.                         *)
AwaitStaleService ==
    /\ daemon = "reconciling" /\ left # {}
    /\ \/ /\ StaleServiceGone(Last)
          /\ left' = left \ {Last} /\ UNCHANGED daemon
       \/ /\ ~StaleServiceGone(Last)
          /\ daemon' = "down" /\ left' = {}
    /\ UNCHANGED <<session, boot, cur, handed, cancelled, cleanup, unproven, pipes, disk,
                   procs, past>>

(* Teardown where the task still exists, then workspace and metadata go.   *)
ReconcileTearDown ==
    /\ daemon = "reconciling" /\ left = {} /\ cleanup = "none"
    /\ cleanup' = "remove"
    /\ UNCHANGED <<daemon, session, boot, cur, handed, cancelled, left, unproven, pipes, disk,
                   procs, past>>

RemoveSessionFiles ==
    /\ daemon = "reconciling" /\ cleanup = "remove"
    /\ workspace' = FALSE /\ meta' = "none" /\ recorded' = {}
    /\ daemon' = "running" /\ cleanup' = "none"
    /\ UNCHANGED <<session, boot, cur, handed, cancelled, left, unproven, pipes, procs, past>>

Reconcile == AwaitStaleService \/ ReconcileTearDown \/ RemoveSessionFiles

Next ==
    \/ Boot \/ EndSession \/ Cleanup \/ Crash \/ Restart \/ Reconcile
    \/ \E s \in Svc :
          \/ MonitorReads(s) \/ MonitorReaps(s) \/ OutputDrainFails(s) \/ ServiceFailed(s)
          \/ Supervisor(s) \/ LeaderExits(s) \/ CloseReadiness(s) \/ SupervisorDies(s)

Spec == Init /\ [][Next]_vars

(* Threads of a running daemon and supervisor processes are scheduled;     *)
(* nobody has to stop a session, and nothing has to fail.                  *)
Fairness ==
    /\ WF_vars(Boot) /\ WF_vars(Cleanup) /\ WF_vars(Reconcile)
    /\ \A s \in Svc :
          /\ WF_vars(MonitorReads(s)) /\ WF_vars(MonitorReaps(s)) /\ WF_vars(ServiceFailed(s))
          /\ WF_vars(Supervisor(s))

FairSpec == Spec /\ Fairness

(***************************************************************************)
(* Properties.                                                             *)
(***************************************************************************)
(* A Ready session has every configured service recorded durably, and each *)
(* one sent its exact readiness message, its exit not yet noticed, before  *)
(* the next was started (start_configured_services, wait_ready).           *)
ReadyIsServed ==
    session = "ready" =>
        meta = "ready" /\ recorded = Svc /\ handed = Svc /\ seenReady = Svc

(* Teardown and the removal of the workspace find no service alive, in     *)
(* cleanup_entry as in startup reconciliation, except for one whose stop   *)
(* was given up as unproven, one whose supervisor died or was killed       *)
(* before it was handed over, and, after a crash, one that was not yet     *)
(* recorded: that one its supervisor is still ending.                      *)
TeardownFindsServicesGone ==
    cleanup = "remove" =>
        \A s \in Svc : Alive(s) =>
            \/ s \in abandoned \cup lost
            \/ daemon = "running" /\ unproven

(* A supervisor that could do its work leaves nothing of its service       *)
(* behind, whoever closed the control pipe and however the service ended.  *)
SupervisorLeavesNothing ==
    \A s \in Svc : sup[s] = "exited" /\ s \notin harmed => ~Alive(s)

(* Once nobody holds its control pipe any more (the daemon crashed, gave   *)
(* up on it or stops it), a supervisor ends.                               *)
OrphanedSupervisorEnds ==
    \A s \in Svc : (Running(s) /\ ~control[s]) ~> ~Running(s)

(* A service whose leader exits takes a Ready session with it.             *)
FailureEndsSession ==
    \A s \in Svc : (session = "ready" /\ group[s] # "up") ~> (session # "ready")

(* The end of a session, once elected, is reached (unless the daemon dies, *)
(* which ends it too).                                                     *)
EndingEnds == (session = "ending") ~> (session = "over")

=============================================================================
