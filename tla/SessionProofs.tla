--------------------------- MODULE SessionProofs ---------------------------
(***************************************************************************)
(* Proofs about Session for every set of actions, updates, stops and       *)
(* requests, with and without services, and for every largest revision:    *)
(* types, the delivery of an action's final event, and the agreement of    *)
(* phases and threads.                                                     *)
(***************************************************************************)
EXTENDS SessionInv, TLAPS

(***************************************************************************)
(* Facts about the constants.                                              *)
(***************************************************************************)
(* Every label a thread is sent to is a label.                             *)
LEMMA LabelFacts ==
    /\ CleanupSteps \subseteq Labels
    /\ \A l \in {"services", "stopping", "teardown", "artifacts", "workspace",
                 "metadata", "unregister", "release", "terminate"} : l \in Labels
    /\ \A l \in {"idle", "done", "uploading", "open", "prepare", "phases",
                 "startServices", "spawnServices", "awaitServices", "precommit",
                 "persist", "elect", "revoke", "cleanup", "failed", "armed",
                 "firing", "run", "snapshot", "publish", "deliver", "awaitAck",
                 "discard", "finish", "apply", "mutated", "undo", "undoUnproven",
                 "rolledBack", "unprovable", "committed", "waiting"} : l \in Labels
  BY Zenon DEF Labels, CleanupSteps

(* The threads, and which of them are operations.                          *)
LEMMA ThreadFacts ==
    /\ \A t \in {"upload", "startStream", "initializer", "service", "lifetime", "idle"} :
           t \in Threads
    /\ \A a \in Actions : a \in Threads /\ a \in Operations
    /\ \A u \in Updates : u \in Threads /\ u \in Operations
    /\ \A k \in Stops : k \in Threads
  BY Zenon DEF Threads, System, Operations

(* No thread plays two parts.                                              *)
LEMMA DistinctThreads ==
    /\ \A t \in Actions \cup Updates \cup Stops :
           /\ t # "upload" /\ t # "startStream" /\ t # "initializer"
           /\ t # "service" /\ t # "lifetime" /\ t # "idle" /\ t # "none"
    /\ \A a \in Actions : a \notin Updates /\ a \notin Stops
    /\ \A u \in Updates : u \notin Actions /\ u \notin Stops
    /\ \A k \in Stops : k \notin Actions /\ k \notin Updates
  BY ThreadsDistinct, Zenon DEF Threads, System, Operations

(***************************************************************************)
(* What a step does to each group of variables, whichever action it is.    *)
(***************************************************************************)
Owners == {"Initializer", "Action", "Update", "Requester"}
Others == System \cup Updates \cup Stops

(* The owners named by elections, and the live states they start from.     *)
LEMMA LifecycleFacts ==
    /\ \A o \in {"Initializer", "Action", "Update", "Requester"} : o \in Owners
    /\ \A s \in {"Initializing", "Ready", "Action", "Updating"} : s \in Live
    /\ ActiveOwner \in Owners
    /\ TRUE \in BOOLEAN /\ FALSE \in BOOLEAN
  BY Zenon DEF Owners, ActiveOwner, Live

(* The moves of SessionState: reservation, start of the initializer, an    *)
(* election, Ready, an operation, Terminated.                              *)
LifecycleMove ==
    \/ UNCHANGED lifecycle
    \/ /\ st = "Absent" /\ st' = "Initializing"
       /\ UNCHANGED <<started, current, explicit, owner, winner>>
    \/ /\ st = "Initializing" /\ started' = TRUE
       /\ UNCHANGED <<st, current, explicit, owner, winner>>
    \/ /\ st \in Live
       /\ \E t \in Threads, e \in BOOLEAN, o \in Owners : Elect(t, e, o)
    \/ /\ st \in Live /\ st' = "Ready"
       /\ UNCHANGED <<started, current, explicit, owner, winner>>
    \/ \E a \in Actions : /\ st = "Ready" /\ st' = "Action" /\ current' = a
                          /\ UNCHANGED <<started, explicit, owner, winner>>
    \/ \E u \in Updates : /\ st = "Ready" /\ st' = "Updating" /\ current' = u
                          /\ UNCHANGED <<started, explicit, owner, winner>>
    \/ \E t \in Threads : /\ pc[t] = "terminate" /\ st' = "Terminated"
                          /\ UNCHANGED <<started, current, explicit, owner, winner>>

(* Every step is one of these moves for the lifecycle.                     *)
LEMMA LifecycleMoves == [Next]_vars => LifecycleMove
  <1> USE ThreadFacts, LifecycleFacts, Zenon DEF LifecycleMove
  <1>1. ASSUME Reserve \/ UploadStep \/ Disconnect PROVE LifecycleMove
    BY <1>1, Zenon DEF Reserve, UploadStep, CancelUpload, UploadHandlerDropped,
       BeginInitialization, Disconnect
  <1>2. ASSUME InitializerStep PROVE LifecycleMove
    BY <1>2, Zenon DEF InitializerStep, PrepareWorkspace, RunPhases, StartServices,
       SpawnServices, AwaitServices, PreCommit, PersistReady, CommitElection,
       BecomeReady, RevokeCommit, InitializerCleanup
  <1>3. ASSUME ServiceFailed \/ ExpireLifetime \/ ExpireIdle PROVE LifecycleMove
    BY <1>3, Zenon DEF ServiceFailed, ExpireLifetime, ExpireIdle, Preempt
  <1>4. ASSUME NEW k \in Stops, Stop(k) PROVE LifecycleMove
    BY <1>4, Zenon DEF Stop, Preempt
  <1>5. ASSUME NEW a \in Actions, StartAction(a) \/ WorkerStep(a) \/ StreamStep(a)
        PROVE  LifecycleMove
    BY <1>5, Zenon DEF StartAction, WorkerStep, ActionRuns, SnapshotArtifacts, PublishCheck,
       EnqueueFinal, AwaitAck, DiscardArchive, FinishAction, StreamStep, ConsumeFinal,
       AcknowledgeDelivery, DisconnectAction, BecomeReady, ActionCanPublish
  <1>6. ASSUME NEW u \in Updates, StartUpdate(u) \/ UpdateStep(u) PROVE LifecycleMove
    BY <1>6, Zenon DEF StartUpdate, UpdateStep, ApplyUpdate, CommitUpdate, RollBack,
       FinishUpdate, FinishUpdateError, UpdateWorkerPanicked, BecomeReady
  <1>7. ASSUME NEW t \in Threads, Cleanup(t) PROVE LifecycleMove
    BY <1>7, Zenon DEF Cleanup, TakeServices, StopServices, Teardown, CollectFinalArtifacts,
       RemoveWorkspace, RemoveMetadata, Unregister, ReleasePermit, BecomeTerminated
  <1> QED
    BY <1>1, <1>2, <1>3, <1>4, <1>5, <1>6, <1>7, Zenon DEF Next, vars, DeadlinePasses,
       IdlePeriodPasses, InitializationCancelled, ServiceExits, IdleTimerWakes,
       StopCompletes, OutputCancels, SendAck, RetryUpdate

(* The cancellation flag of an operation is only ever raised.              *)
LEMMA CancelMoves ==
    ASSUME [Next]_vars
    PROVE  UNCHANGED cancelled \/ \E o : cancelled' = [cancelled EXCEPT ![o] = TRUE]
  BY ZenonT(60) DEF Preempt, flags, vars,
     Next, DeadlinePasses, IdlePeriodPasses, Reserve, Disconnect,
     InitializationCancelled, ServiceExits, ServiceFailed, ExpireLifetime,
     IdleTimerWakes, ExpireIdle, Stop, StopCompletes, StartAction, OutputCancels,
     SendAck, RetryUpdate, StartUpdate, UploadStep, CancelUpload, UploadHandlerDropped,
     BeginInitialization, InitializerStep, PrepareWorkspace, RunPhases, StartServices,
     SpawnServices, AwaitServices, PreCommit, PersistReady, CommitElection,
     RevokeCommit, InitializerCleanup, WorkerStep, ActionRuns, SnapshotArtifacts,
     PublishCheck, EnqueueFinal, AwaitAck, DiscardArchive, FinishAction, StreamStep,
     ConsumeFinal, AcknowledgeDelivery, DisconnectAction, UpdateStep, ApplyUpdate,
     CommitUpdate, RollBack, FinishUpdate, FinishUpdateError, UpdateWorkerPanicked,
     Cleanup, TakeServices, StopServices, Teardown, CollectFinalArtifacts,
     RemoveWorkspace, RemoveMetadata, Unregister, ReleasePermit, BecomeTerminated

(* Flags are raised, lowered or left alone.                                *)
LEMMA FlagMoves ==
    ASSUME [Next]_vars
    PROVE  /\ initCancelled' \in {TRUE, initCancelled}
           /\ expired' \in {TRUE, expired}
           /\ idleDue' \in {TRUE, FALSE, idleDue}
           /\ idleTimer' \in {TRUE, FALSE, idleTimer}
           /\ registered' \in {TRUE, FALSE, registered}
           /\ permit' \in {TRUE, FALSE, permit}
           /\ dirty' \in {TRUE, FALSE, dirty}
           /\ workspace' \in BOOLEAN \cup {workspace}
           /\ finalArchive' \in {TRUE, finalArchive}
  <1> USE ZenonT(60) DEF BecomeReady, Preempt, flags, clocks, admission, files, results,
     vars,
     Next, DeadlinePasses, IdlePeriodPasses, Reserve, Disconnect,
     InitializationCancelled, ServiceExits, ServiceFailed, ExpireLifetime,
     IdleTimerWakes, ExpireIdle, Stop, StopCompletes, StartAction, OutputCancels,
     SendAck, RetryUpdate, StartUpdate, UploadStep, CancelUpload, UploadHandlerDropped,
     BeginInitialization, InitializerStep, PrepareWorkspace, RunPhases, StartServices,
     SpawnServices, AwaitServices, PreCommit, PersistReady, CommitElection,
     RevokeCommit, InitializerCleanup, WorkerStep, ActionRuns, SnapshotArtifacts,
     PublishCheck, EnqueueFinal, AwaitAck, DiscardArchive, FinishAction, StreamStep,
     ConsumeFinal, AcknowledgeDelivery, DisconnectAction, UpdateStep, ApplyUpdate,
     CommitUpdate, RollBack, FinishUpdate, FinishUpdateError, UpdateWorkerPanicked,
     Cleanup, TakeServices, StopServices, Teardown, CollectFinalArtifacts,
     RemoveWorkspace, RemoveMetadata, Unregister, ReleasePermit, BecomeTerminated
  <1>1. initCancelled' \in {TRUE, initCancelled}
    OBVIOUS
  <1>2. expired' \in {TRUE, expired}
    OBVIOUS
  <1>3. idleDue' \in {TRUE, FALSE, idleDue}
    OBVIOUS
  <1>4. idleTimer' \in {TRUE, FALSE, idleTimer}
    OBVIOUS
  <1>5. registered' \in {TRUE, FALSE, registered}
    OBVIOUS
  <1>6. permit' \in {TRUE, FALSE, permit}
    OBVIOUS
  <1>7. dirty' \in {TRUE, FALSE, dirty}
    OBVIOUS
  <1>8. workspace' \in BOOLEAN \cup {workspace}
    OBVIOUS
  <1>9. finalArchive' \in {TRUE, finalArchive}
    OBVIOUS
  <1> QED
    BY <1>1, <1>2, <1>3, <1>4, <1>5, <1>6, <1>7, <1>8, <1>9, Zenon

(* Only these actions change the files, services and revisions of the      *)
(* session, and what it recorded about them.                               *)
LEMMA StorageMoves ==
    ASSUME [Next]_vars
    PROVE  \/ UNCHANGED <<durable, svc, updating, teardowns>>
           \/ StartServices \/ SpawnServices \/ PersistReady \/ RevokeCommit \/ ServiceExits
           \/ \E u \in Updates : CommitUpdate(u) \/ FinishUpdate(u)
           \/ \E t \in Threads : \/ TakeServices(t) \/ StopServices(t) \/ Teardown(t)
                                 \/ RemoveMetadata(t)
  BY ZenonT(60) DEF results, vars,
     Next, DeadlinePasses, IdlePeriodPasses, Reserve, Disconnect,
     InitializationCancelled, ServiceFailed, ExpireLifetime, IdleTimerWakes, ExpireIdle,
     Stop, StopCompletes, StartAction, OutputCancels, SendAck, RetryUpdate, StartUpdate,
     UploadStep, CancelUpload, UploadHandlerDropped, BeginInitialization,
     InitializerStep, PrepareWorkspace, RunPhases, AwaitServices, PreCommit,
     CommitElection, InitializerCleanup, WorkerStep, ActionRuns, SnapshotArtifacts,
     PublishCheck, EnqueueFinal, AwaitAck, DiscardArchive, FinishAction, StreamStep,
     ConsumeFinal, AcknowledgeDelivery, DisconnectAction, UpdateStep, ApplyUpdate,
     RollBack, FinishUpdateError, UpdateWorkerPanicked, Cleanup, CollectFinalArtifacts,
     RemoveWorkspace, Unregister, ReleasePermit, BecomeTerminated

(* Only these actions touch the response streams, acknowledgements and     *)
(* archives of actions.                                                    *)
LEMMA DeliveryMoves ==
    ASSUME [Next]_vars
    PROVE  \/ UNCHANGED delivery
           \/ \E a \in Actions :
                  \/ StartAction(a) \/ SnapshotArtifacts(a) \/ EnqueueFinal(a)
                  \/ DiscardArchive(a) \/ ConsumeFinal(a) \/ AcknowledgeDelivery(a)
                  \/ DisconnectAction(a) \/ SendAck(a)
  BY ZenonT(60) DEF vars,
     Next, DeadlinePasses, IdlePeriodPasses, Reserve, Disconnect,
     InitializationCancelled, ServiceExits, ServiceFailed, ExpireLifetime,
     IdleTimerWakes, ExpireIdle, Stop, StopCompletes, OutputCancels, RetryUpdate,
     StartUpdate, UploadStep, CancelUpload, UploadHandlerDropped, BeginInitialization,
     InitializerStep, PrepareWorkspace, RunPhases, StartServices, SpawnServices,
     AwaitServices, PreCommit, PersistReady, CommitElection, RevokeCommit,
     InitializerCleanup, WorkerStep, ActionRuns, PublishCheck, AwaitAck, FinishAction,
     StreamStep, UpdateStep, ApplyUpdate, CommitUpdate, RollBack, FinishUpdate,
     FinishUpdateError, UpdateWorkerPanicked, Cleanup, TakeServices, StopServices,
     Teardown, CollectFinalArtifacts, RemoveWorkspace, RemoveMetadata, Unregister,
     ReleasePermit, BecomeTerminated

(* A request is answered once its thread is done.                          *)
LEMMA OutcomeMoves ==
    ASSUME [Next]_vars
    PROVE  \/ UNCHANGED outcome
           \/ \E t \in Stops : /\ outcome' = [outcome EXCEPT ![t] = "ok"]
                               /\ pc[t] \in {"waiting", "terminate"}
           \/ \E u \in Updates : \/ outcome' = [outcome EXCEPT ![u] = "failed"]
                                 \/ RetryUpdate(u) \/ FinishUpdate(u)
  BY ZenonT(60) DEF results, vars,
     Next, DeadlinePasses, IdlePeriodPasses, Reserve, Disconnect,
     InitializationCancelled, ServiceExits, ServiceFailed, ExpireLifetime,
     IdleTimerWakes, ExpireIdle, Stop, StopCompletes, StartAction, OutputCancels,
     SendAck, StartUpdate, UploadStep, CancelUpload, UploadHandlerDropped,
     BeginInitialization, InitializerStep, PrepareWorkspace, RunPhases, StartServices,
     SpawnServices, AwaitServices, PreCommit, PersistReady, CommitElection,
     RevokeCommit, InitializerCleanup, WorkerStep, ActionRuns, SnapshotArtifacts,
     PublishCheck, EnqueueFinal, AwaitAck, DiscardArchive, FinishAction, StreamStep,
     ConsumeFinal, AcknowledgeDelivery, DisconnectAction, UpdateStep, ApplyUpdate,
     CommitUpdate, RollBack, FinishUpdateError, UpdateWorkerPanicked, Cleanup,
     TakeServices, StopServices, Teardown, CollectFinalArtifacts, RemoveWorkspace,
     RemoveMetadata, Unregister, ReleasePermit, BecomeTerminated

(* Where threads go.                                                       *)
PcMove ==
    \/ UNCHANGED pc
    \/ pc' = [pc EXCEPT !["upload"] = "uploading", !["lifetime"] = "armed"]
    \/ pc' = [pc EXCEPT !["upload"] = "done", !["initializer"] = "prepare",
                        !["startStream"] = "open"]
    \/ \E t \in {"upload", "startStream", "lifetime"} :
           \E l \in {"done", "services"} : Goto(t, l)
    \/ \E l \in InitializerLabels : Goto("initializer", l)
    \/ \E l \in {"failed", "done", "services"} : Goto("service", l)
    \/ \E l \in {"firing", "idle", "services"} : Goto("idle", l)
    \/ \E k \in Stops : \E l \in {"waiting", "services", "done"} : Goto(k, l)
    \/ \E a \in Actions : \E l \in ActionLabels : Goto(a, l)
    \/ \E u \in Updates : \E l \in UpdateLabels :
           /\ Goto(u, l)
           /\ l \in PastOverflow => pc[u] \in PastOverflow \/ req[u].base # MaxRevision
    \/ \E t \in Threads : Cleaning(t) /\ \E l \in CleanupSteps \cup {"done"} : Goto(t, l)
    \/ \E t \in Threads : TakeServices(t)

(* Every step moves threads in one of these ways.                          *)
LEMMA PcMoves == [Next]_vars => PcMove
  <1> USE ZenonT(60) DEF PcMove
  <1>1. ASSUME Reserve \/ UploadStep \/ Disconnect PROVE PcMove
    BY <1>1, Zenon DEF Reserve, UploadStep, CancelUpload, UploadHandlerDropped,
       BeginInitialization, Disconnect
  <1>2. ASSUME InitializerStep PROVE PcMove
    BY <1>2, Zenon DEF InitializerStep, PrepareWorkspace, RunPhases, StartServices,
       SpawnServices, AwaitServices, PreCommit, PersistReady, CommitElection,
       WriteMetadata, RevokeCommit, InitializerCleanup, InitializerLabels, CleanupSteps
  <1>3. ASSUME ServiceFailed \/ ExpireLifetime \/ ExpireIdle PROVE PcMove
    BY <1>3, Zenon DEF ServiceFailed, ExpireLifetime, ExpireIdle, Preempt
  <1>4. ASSUME NEW k \in Stops, Stop(k) PROVE PcMove
    BY <1>4, Zenon DEF Stop, Preempt
  <1>5. ASSUME NEW a \in Actions, WorkerStep(a) PROVE PcMove
    BY <1>5, Zenon DEF WorkerStep, ActionRuns, SnapshotArtifacts, PublishCheck,
       EnqueueFinal, AwaitAck, DiscardArchive, FinishAction, ActionLabels, CleanupSteps
  <1>6. ASSUME NEW u \in Updates, RetryUpdate(u) \/ StartUpdate(u) \/ UpdateStep(u)
        PROVE  PcMove
    BY <1>6, Zenon DEF RetryUpdate, StartUpdate, UpdateStep, ApplyUpdate, CommitUpdate,
       RollBack, FinishUpdate, FinishUpdateError, UpdateWorkerPanicked, WriteMetadata,
       UpdateLabels, PastOverflow, CleanupSteps
  <1>7. ASSUME NEW t \in Threads, Cleanup(t) PROVE PcMove
    BY <1>7, Zenon DEF Cleanup, StopServices, Teardown, CollectFinalArtifacts,
       RemoveWorkspace, RemoveMetadata, Unregister, ReleasePermit, BecomeTerminated,
       Cleaning, CleanupSteps
  <1> QED
    BY <1>1, <1>2, <1>3, <1>4, <1>5, <1>6, <1>7, Zenon DEF Next, vars, DeadlinePasses,
       IdlePeriodPasses, InitializationCancelled, ServiceExits, IdleTimerWakes,
       StopCompletes, StartAction, OutputCancels, StreamStep, ConsumeFinal,
       AcknowledgeDelivery, DisconnectAction, SendAck, ActionLabels

(* What an update asks for does not change.                                *)
LEMMA RequestsFixed == [Next]_vars => UNCHANGED req
  BY ZenonT(60) DEF updating, vars,
     Next, DeadlinePasses, IdlePeriodPasses, Reserve, Disconnect,
     InitializationCancelled, ServiceExits, ServiceFailed, ExpireLifetime,
     IdleTimerWakes, ExpireIdle, Stop, StopCompletes, StartAction, OutputCancels,
     SendAck, RetryUpdate, StartUpdate, UploadStep, CancelUpload, UploadHandlerDropped,
     BeginInitialization, InitializerStep, PrepareWorkspace, RunPhases, StartServices,
     SpawnServices, AwaitServices, PreCommit, PersistReady, CommitElection,
     RevokeCommit, InitializerCleanup, WorkerStep, ActionRuns, SnapshotArtifacts,
     PublishCheck, EnqueueFinal, AwaitAck, DiscardArchive, FinishAction, StreamStep,
     ConsumeFinal, AcknowledgeDelivery, DisconnectAction, UpdateStep, ApplyUpdate,
     CommitUpdate, RollBack, FinishUpdate, FinishUpdateError, UpdateWorkerPanicked,
     Cleanup, TakeServices, StopServices, Teardown, CollectFinalArtifacts,
     RemoveWorkspace, RemoveMetadata, Unregister, ReleasePermit, BecomeTerminated

(***************************************************************************)
(* The type invariant, one lemma per group of variables.                   *)
(***************************************************************************)
(* The state tag, the running operation, the cleanup owner and the winner. *)
LEMMA LifecycleTypesStep ==
    ASSUME TypeOK, [Next]_vars
    PROVE  LifecycleTypes' /\ started' \in BOOLEAN /\ explicit' \in BOOLEAN
  <1>1. LifecycleMove
    BY LifecycleMoves, Zenon
  <1>2. LifecycleTypes /\ started \in BOOLEAN /\ explicit \in BOOLEAN
    BY Zenon DEF TypeOK, FlagTypes
  <1> QED
    BY <1>1, <1>2, Zenon DEF LifecycleMove, LifecycleTypes, Owners, Live, Elect,
       lifecycle, Operations

(* The Boolean variables.                                                  *)
LEMMA FlagTypesStep == ASSUME TypeOK, [Next]_vars PROVE FlagTypes'
  <1>1. started' \in BOOLEAN /\ explicit' \in BOOLEAN
    BY LifecycleTypesStep, Zenon
  <1>2. /\ initCancelled \in BOOLEAN /\ expired \in BOOLEAN /\ idleDue \in BOOLEAN
        /\ idleTimer \in BOOLEAN /\ registered \in BOOLEAN /\ permit \in BOOLEAN
        /\ workspace \in BOOLEAN /\ dirty \in BOOLEAN /\ finalArchive \in BOOLEAN
    BY Zenon DEF TypeOK, FlagTypes
  <1>3. initCancelled' \in BOOLEAN
    BY <1>2, FlagMoves, Zenon
  <1>4. expired' \in BOOLEAN
    BY <1>2, FlagMoves, Zenon
  <1>5. idleDue' \in BOOLEAN
    BY <1>2, FlagMoves, Zenon
  <1>6. idleTimer' \in BOOLEAN
    BY <1>2, FlagMoves, Zenon
  <1>7. registered' \in BOOLEAN
    BY <1>2, FlagMoves, Zenon
  <1>8. permit' \in BOOLEAN
    BY <1>2, FlagMoves, Zenon
  <1>9. dirty' \in BOOLEAN
    BY <1>2, FlagMoves, Zenon
  <1>10. workspace' \in BOOLEAN
    BY <1>2, FlagMoves, Zenon
  <1>11. finalArchive' \in BOOLEAN
    BY <1>2, FlagMoves, Zenon
  <1> QED
    BY <1>1, <1>3, <1>4, <1>5, <1>6, <1>7, <1>8, <1>9, <1>10, <1>11, Zenon DEF FlagTypes

(* Metadata, services and revisions.  That the next revision still fits    *)
(* needs LabelsOK: no update gets past the overflow check otherwise.       *)
LEMMA StorageTypesStep == ASSUME TypeOK, LabelsOK, [Next]_vars PROVE StorageTypes'
  <1> USE ThreadFacts, ConstantTypes DEF TypeOK, StorageTypes, durable, svc, updating,
     results
  <1>1. CASE UNCHANGED <<durable, svc, updating, teardowns>>
    BY <1>1, Zenon
  <1>2. CASE StartServices \/ PersistReady
    BY <1>2 DEF StartServices, PersistReady, WriteMetadata
  <1>3. CASE SpawnServices \/ RevokeCommit \/ ServiceExits
    BY <1>3, Zenon DEF SpawnServices, RevokeCommit, ServiceExits
  <1>4. ASSUME NEW u \in Updates, CommitUpdate(u) PROVE StorageTypes'
    <2>1. req[u].base + 1 \in 0 .. MaxRevision
      BY <1>4 DEF CommitUpdate, LabelsOK, PastOverflow
    <2>2. \/ UNCHANGED durable
          \/ meta' = "ready" /\ metaRevision' = req[u].base + 1
      BY <1>4, Zenon DEF CommitUpdate, WriteMetadata
    <2> QED
      BY <1>4, <2>1, <2>2, Zenon DEF CommitUpdate
  <1>5. ASSUME NEW u \in Updates, FinishUpdate(u) PROVE StorageTypes'
    <2>1. req[u].base + 1 \in 0 .. MaxRevision
      BY <1>5 DEF FinishUpdate, LabelsOK, PastOverflow
    <2>2. /\ UNCHANGED <<durable, svc, teardowns>>
          /\ \/ UNCHANGED updating
             \/ /\ revision' = req[u].base + 1 /\ lastSuccess' = {req[u]}
                /\ applied' = [applied EXCEPT ![req[u]] = @ + 1] /\ UNCHANGED req
      BY <1>5, Zenon DEF FinishUpdate
    <2> QED
      BY <2>1, <2>2
  <1>6. ASSUME NEW t \in Threads, TakeServices(t) \/ StopServices(t) PROVE StorageTypes'
    BY <1>6, Zenon DEF TakeServices, StopServices
  <1>7. ASSUME NEW t \in Threads, Teardown(t) \/ RemoveMetadata(t) PROVE StorageTypes'
    BY <1>7 DEF Teardown, RemoveMetadata
  <1> QED
    BY StorageMoves, <1>1, <1>2, <1>3, <1>4, <1>5, <1>6, <1>7, Zenon

(* Each thread stays within its own labels.                                *)
LEMMA LabelsStep == ASSUME TypeOK, LabelsOK, [Next]_vars PROVE LabelsOK'
  <1> USE ThreadFacts, DistinctThreads, RequestsFixed DEF LabelsOK, UploadLabels,
     StreamLabels, InitializerLabels, ActionLabels, UpdateLabels, StopLabels,
     CleanupSteps, Cleaning, Goto
  <1>1. pc \in [Threads -> Labels] /\ \A u \in Updates : req[u].base \in 0 .. MaxRevision
    BY ConstantTypes, Zenon DEF TypeOK, ThreadTypes, StorageTypes
  <1>2. CASE UNCHANGED pc
    BY <1>2
  <1>3. CASE \/ pc' = [pc EXCEPT !["upload"] = "uploading", !["lifetime"] = "armed"]
             \/ pc' = [pc EXCEPT !["upload"] = "done", !["initializer"] = "prepare",
                                 !["startStream"] = "open"]
    BY <1>1, <1>3
  <1>4. CASE \/ \E t \in {"upload", "startStream", "lifetime"} :
                    \E l \in {"done", "services"} : Goto(t, l)
             \/ \E l \in InitializerLabels : Goto("initializer", l)
             \/ \E l \in {"failed", "done", "services"} : Goto("service", l)
             \/ \E l \in {"firing", "idle", "services"} : Goto("idle", l)
    BY <1>1, <1>4
  <1>5. ASSUME NEW k \in Stops, NEW l \in {"waiting", "services", "done"}, Goto(k, l)
        PROVE  LabelsOK'
    BY <1>1, <1>5
  <1>6. ASSUME NEW a \in Actions, NEW l \in ActionLabels, Goto(a, l) PROVE LabelsOK'
    BY <1>1, <1>6
  <1>7. ASSUME NEW u \in Updates, NEW l \in UpdateLabels, Goto(u, l),
               l \in PastOverflow => pc[u] \in PastOverflow \/ req[u].base # MaxRevision
        PROVE  LabelsOK'
    BY <1>1, <1>7, ConstantTypes
  <1>8. ASSUME NEW t \in Threads, Cleaning(t), NEW l \in CleanupSteps \cup {"done"}, Goto(t, l)
        PROVE  LabelsOK'
    BY <1>1, <1>8 DEF PastOverflow
  <1>9. ASSUME NEW t \in Threads, TakeServices(t) PROVE LabelsOK'
    BY <1>1, <1>9 DEF PastOverflow, TakeServices
  <1> QED
    <2> HIDE DEF LabelsOK, InitializerLabels, ActionLabels, UpdateLabels,
       CleanupSteps, Cleaning, Goto
    <2> QED
      BY PcMoves, <1>2, <1>3, <1>4, <1>5, <1>6, <1>7, <1>8, <1>9, Zenon DEF PcMove

(* The threads' labels and what belongs to single operations and stops.    *)
LEMMA ThreadTypesStep == ASSUME TypeOK, LabelsOK', [Next]_vars PROVE ThreadTypes'
  <1> USE LabelFacts, ThreadFacts DEF TypeOK, ThreadTypes
  <1>1. cancelled' \in [Operations -> BOOLEAN]
    BY CancelMoves, Zenon
  <1>2. /\ stream' \in [Actions -> Streams]
        /\ ack' \in [Actions -> Acks]
        /\ archive' \in [Actions -> Archives]
    <2>1. /\ \/ UNCHANGED stream
             \/ \E a \in Actions, s \in Streams : stream' = [stream EXCEPT ![a] = s]
          /\ \/ UNCHANGED archive
             \/ \E a \in Actions, s \in Archives : archive' = [archive EXCEPT ![a] = s]
      BY DeliveryMoves, Zenon DEF StartAction, SnapshotArtifacts, EnqueueFinal,
         DiscardArchive, ConsumeFinal, AcknowledgeDelivery, DisconnectAction, SendAck,
         delivery, Streams, Archives
    <2>2. \A a \in Actions : ack[a] \in Acks
      OBVIOUS
    <2>3. UNCHANGED ack \/ \E a \in Actions, s \in Acks : ack' = [ack EXCEPT ![a] = s]
      BY <2>2, DeliveryMoves, Zenon DEF StartAction, SnapshotArtifacts, EnqueueFinal,
         DiscardArchive, ConsumeFinal, AcknowledgeDelivery, DisconnectAction, SendAck,
         delivery, Acks
    <2> QED
      BY <2>1, <2>3
  <1>3. outcome' \in [Stops \cup Updates -> Outcomes]
    <2>1. \/ UNCHANGED outcome
          \/ \E t \in Stops \cup Updates, r \in Outcomes : outcome' = [outcome EXCEPT ![t] = r]
      BY OutcomeMoves, Zenon DEF RetryUpdate, FinishUpdate, Outcomes
    <2> QED
      BY <2>1, Zenon
  <1>4. pc' \in [Threads -> Labels]
    BY PcMoves DEF PcMove, Goto, InitializerLabels, ActionLabels, UpdateLabels,
       TakeServices
  <1> QED
    BY <1>1, <1>2, <1>3, <1>4, Zenon

(* All initial values have their types.                                    *)
LEMMA TypeInit == Init => TypeOK /\ LabelsOK
  <1> SUFFICES ASSUME Init PROVE TypeOK /\ LabelsOK
    OBVIOUS
  <1>1. LifecycleTypes
    BY Zenon DEF Init, LifecycleTypes
  <1>2. FlagTypes
    BY Zenon DEF Init, FlagTypes
  <1>3. StorageTypes
    BY ConstantTypes DEF Init, StorageTypes
  <1>4. ThreadTypes
    BY LabelFacts, Zenon DEF Init, ThreadTypes, Streams, Acks, Archives, Outcomes
  <1>5. LabelsOK
    BY ThreadFacts, Zenon DEF Init, LabelsOK, UploadLabels, StreamLabels, InitializerLabels,
       ActionLabels, UpdateLabels, StopLabels, PastOverflow
  <1> QED
    BY <1>1, <1>2, <1>3, <1>4, <1>5, Zenon DEF TypeOK

(* Types and labels are preserved together: only with the labels is it     *)
(* known that an update that commits still has a next revision.            *)
LEMMA TypeStep == TypeOK /\ LabelsOK /\ [Next]_vars => TypeOK' /\ LabelsOK'
  BY LifecycleTypesStep, FlagTypesStep, StorageTypesStep, ThreadTypesStep, LabelsStep, Zenon
     DEF TypeOK

(* Every variable keeps its type in every behaviour; in particular no      *)
(* source update pushes the revision past the largest u64.                 *)
THEOREM TypeCorrect == Spec => []TypeOK
  <1>1. Spec => [](TypeOK /\ LabelsOK)
    BY TypeInit, TypeStep, PTL DEF Spec
  <1> QED
    BY <1>1, PTL

(***************************************************************************)
(* Delivery of an action's final event.                                    *)
(***************************************************************************)
Undelivering == {"finish"} \cup CleanupSteps

(* Actions stay where they are, or clean up.                               *)
OtherMove ==
    \/ UNCHANGED pc
    \/ pc' = [pc EXCEPT !["upload"] = "uploading", !["lifetime"] = "armed"]
    \/ pc' = [pc EXCEPT !["upload"] = "done", !["initializer"] = "prepare",
                        !["startStream"] = "open"]
    \/ \E t \in Others : \E l : Goto(t, l)
    \/ \E t \in Threads :
           pc[t] \in Undelivering /\ \E l \in CleanupSteps \cup {"done"} : Goto(t, l)
    \/ \E t \in Threads : TakeServices(t)

(* Only the worker and the stream of an action take part in its delivery.  *)
LEMMA DeliverySteps ==
    ASSUME [Next]_vars
    PROVE  \/ UNCHANGED delivery /\ OtherMove
           \/ \E a \in Actions :
                  \/ StartAction(a) \/ ActionRuns(a) \/ SnapshotArtifacts(a)
                  \/ PublishCheck(a) \/ EnqueueFinal(a) \/ AwaitAck(a)
                  \/ DiscardArchive(a) \/ ConsumeFinal(a) \/ AcknowledgeDelivery(a)
                  \/ DisconnectAction(a) \/ SendAck(a)
  <1>1. \/ OtherMove
        \/ \E a \in Actions : WorkerStep(a) \/ StreamStep(a) \/ SendAck(a) \/ StartAction(a)
    <2>1. Updates \subseteq Others /\ Stops \subseteq Others /\ System \subseteq Others
      BY Zenon DEF Others
    <2> QED
      BY <2>1, PcMoves, ZenonT(60) DEF OtherMove, Preempt, WriteMetadata, vars,
         System, Undelivering, CleanupSteps, Next, DeadlinePasses, IdlePeriodPasses,
         Reserve, Disconnect, InitializationCancelled, ServiceExits, ServiceFailed,
         ExpireLifetime, IdleTimerWakes, ExpireIdle, Stop, StopCompletes,
         OutputCancels, RetryUpdate, StartUpdate, UploadStep, CancelUpload,
         UploadHandlerDropped, BeginInitialization, InitializerStep, PrepareWorkspace,
         RunPhases, StartServices, SpawnServices, AwaitServices, PreCommit,
         PersistReady, CommitElection, RevokeCommit, InitializerCleanup, UpdateStep,
         ApplyUpdate, CommitUpdate, RollBack, FinishUpdate, FinishUpdateError,
         UpdateWorkerPanicked, Cleanup, StopServices, Teardown, CollectFinalArtifacts,
         RemoveWorkspace, RemoveMetadata, Unregister, ReleasePermit, BecomeTerminated
  <1>2. ASSUME NEW a \in Actions, FinishAction(a) PROVE UNCHANGED delivery /\ OtherMove
    BY <1>2, ThreadFacts, Zenon DEF FinishAction, OtherMove, Undelivering, CleanupSteps
  <1> QED
    BY <1>1, <1>2, DeliveryMoves, ZenonT(60) DEF WorkerStep, StreamStep

(* An action that is not delivering keeps its archive and its channel.     *)
LEMMA DeliveryFrame ==
    ASSUME TypeOK, DeliveryOK, UNCHANGED delivery, OtherMove
    PROVE  DeliveryOK'
  <1>1. \A a \in Actions : \/ pc'[a] = pc[a]
                           \/ pc[a] \in Undelivering /\ pc'[a] \in CleanupSteps \cup {"done"}
    BY ThreadFacts, DistinctThreads DEF TypeOK, ThreadTypes, OtherMove, Others,
       System, Goto, TakeServices, Undelivering, CleanupSteps
  <1> QED
    BY <1>1 DEF DeliveryOK, Acknowledged, Undelivering, CleanupSteps, delivery

(* The response stream and the worker keep to the acknowledgement protocol. *)
LEMMA DeliveryStep == ASSUME TypeOK, LabelsOK, DeliveryOK, [Next]_vars PROVE DeliveryOK'
  <1> USE ThreadFacts DEF TypeOK, ThreadTypes, DeliveryOK, Acknowledged, Goto, delivery
  <1>1. CASE UNCHANGED delivery /\ OtherMove
    BY <1>1, DeliveryFrame, Zenon
  <1>2. ASSUME NEW a \in Actions,
               StartAction(a) \/ ActionRuns(a) \/ SnapshotArtifacts(a) \/ PublishCheck(a)
        PROVE  DeliveryOK'
    BY <1>2 DEF StartAction, ActionRuns, SnapshotArtifacts, PublishCheck
  <1>3. ASSUME NEW a \in Actions, EnqueueFinal(a) \/ AwaitAck(a) \/ DiscardArchive(a)
        PROVE  DeliveryOK'
    BY <1>3 DEF EnqueueFinal, AwaitAck, DiscardArchive
  <1>4. ASSUME NEW a \in Actions, ConsumeFinal(a) \/ SendAck(a) PROVE DeliveryOK'
    BY <1>4 DEF ConsumeFinal, SendAck
  <1>5. ASSUME NEW a \in Actions, AcknowledgeDelivery(a) PROVE DeliveryOK'
    <2>1. /\ stream[a] = "final" /\ UNCHANGED <<ack, archive, pc>>
          /\ \E s \in {"accepting", "refusing"} : stream' = [stream EXCEPT ![a] = s]
      BY <1>5, Zenon DEF AcknowledgeDelivery
    <2> QED
      BY <2>1, Zenon
  <1>6. ASSUME NEW a \in Actions, DisconnectAction(a) PROVE DeliveryOK'
    BY <1>6 DEF DisconnectAction
  <1> QED
    <2> HIDE DEF DeliveryOK, delivery
    <2> QED
      BY DeliverySteps, <1>1, <1>2, <1>3, <1>4, <1>5, <1>6, Zenon

-----------------------------------------------------------------------------
(***************************************************************************)
(* Phases and threads.  A step is one of a few moves of the lifecycle and  *)
(* one thread; each kind of move keeps PhaseOK.                            *)
(***************************************************************************)
(* The threads that work for the session: the initializer and operations.  *)
Workers == {"initializer"} \cup Operations

(* Whether t has been told to become the owner of a current operation.     *)
Running(t) ==
    \/ t = "initializer" /\ st = "Initializing"
    \/ t \in Actions /\ st = "Action" /\ current = t
    \/ t \in Updates /\ st = "Updating" /\ current = t

(* What has been acknowledged does not change, and no archive but t's.     *)
AcksKept(t) ==
    \A a \in Actions : /\ Acknowledged(a)' <=> Acknowledged(a)
                       /\ a # t => archive'[a] = archive[a]

(* The labels of a thread inside the operation it was started for.         *)
Inside == Labels \ ({"idle", "done"} \cup CleanupSteps)

(* A worker goes on inside its operation.                                  *)
Advances(t) ==
    /\ pc[t] \in Inside /\ \E l \in Inside : Goto(t, l)
    /\ UNCHANGED <<lifecycle, admission>>
    /\ AcksKept(t)
    /\ t \in Actions => ~Acknowledged(t) \/ LateAbandon(t)'

(* A worker ends its operation, to clean up or not.                        *)
Retires(t) ==
    /\ st # "Absent" /\ ~Running(t) /\ (t = "initializer" => started)
    /\ \E l \in CleanupSteps \cup {"done"} : Goto(t, l) /\ (l = "done" \/ Over)
    /\ UNCHANGED lifecycle /\ (Over \/ UNCHANGED admission) /\ AcksKept(t)

(* A thread that is no worker moves.                                       *)
StepsAside(t) ==
    /\ st # "Absent" /\ (t = "startStream" => started)
    /\ \E l \in Labels : Goto(t, l) /\ (l \notin CleanupSteps \/ Over)
    /\ UNCHANGED lifecycle /\ (Over \/ UNCHANGED admission) /\ AcksKept("none")

(* The owner an election must name.                                        *)
Named(o) ==
    /\ o = "Initializer" => st = "Initializing"
    /\ st = "Initializing" /\ started => o = "Initializer"
    /\ o = "Action" <=> st = "Action"
    /\ o = "Update" => st = "Updating"

(* An election; whoever makes it goes on, cleans up or is done.            *)
Elects(t) ==
    /\ st \in Live
    /\ \E w \in Threads, e \in BOOLEAN, o \in Owners : Named(o) /\ Elect(w, e, o)
    /\ owner' = "Update" \/ st # "Updating" \/ t = current
    /\ t = "initializer" \/ t = "startStream" => started
    /\ \/ UNCHANGED pc /\ (owner' = "Update" \/ st # "Updating")
       \/ \E l \in CleanupSteps \cup {"done"} : Goto(t, l)
       \/ t \notin Workers /\ \E l \in Labels : Goto(t, l)
       \/ t = "initializer" /\ pc[t] \in Inside /\ \E l \in Inside : Goto(t, l)
    /\ UNCHANGED admission /\ AcksKept("none")

(* An operation ends and the session is Ready.                             *)
Readies(t) ==
    /\ t \in {"initializer"} \cup Updates
    /\ Running(t) /\ pc[t] \in Inside
    /\ st' = "Ready" /\ Goto(t, "done")
    /\ UNCHANGED <<started, current, explicit, owner, winner, admission>>
    /\ AcksKept("none")

(* Nothing has happened yet.                                               *)
LEMMA PhaseInit == Init => DeliveryOK /\ PhaseOK
  BY ThreadFacts, Zenon DEF Init, DeliveryOK, PhaseOK, Acknowledged, LateAbandon, Engaged,
     Over, Cleaning, CleanupSteps, Live

(* A step that moves no thread and changes nothing of the lifecycle.       *)
LEMMA PhaseFrame ==
    ASSUME PhaseOK, UNCHANGED <<lifecycle, svc, admission, delivery, pc>>
    PROVE  PhaseOK'
  BY Zenon DEF PhaseOK, Over, Cleaning, Live, Engaged, Acknowledged, LateAbandon, lifecycle,
     svc, admission, delivery

(* Facts about threads used below.                                         *)
LEMMA WorkerFacts ==
    /\ \A a \in Actions : a \in Workers
    /\ \A u \in Updates : u \in Workers
    /\ "initializer" \in Workers
    /\ \A t \in {"upload", "startStream", "service", "lifetime", "idle"} \cup Stops : t \notin Workers
    /\ "none" \notin Threads
  BY DistinctThreads, ThreadFacts DEF Workers, Operations, Threads, System

(* A worker that goes on changes no phase.                                 *)
LEMMA AdvanceStep ==
    ASSUME TypeOK, PhaseOK, NEW t \in Workers, t \in Threads, Advances(t)
    PROVE  PhaseOK'
  BY ThreadFacts, DistinctThreads, WorkerFacts
     DEF PhaseOK, Advances, Inside, AcksKept, Engaged, Cleaning, Over, Goto, lifecycle, admission,
         LateAbandon, TypeOK, ThreadTypes, Live

(* A worker that is no longer the current one may leave or clean up.       *)
LEMMA RetireStep ==
    ASSUME TypeOK, PhaseOK, NEW t \in Workers, t \in Threads, Retires(t)
    PROVE  PhaseOK'
  BY ThreadFacts, DistinctThreads, WorkerFacts
     DEF PhaseOK, Retires, AcksKept, Engaged, Cleaning, Over, Goto, lifecycle, admission, Running,
         LateAbandon, TypeOK, ThreadTypes, CleanupSteps, Workers, Operations, Live

(* Timers, stops and streams move without changing a phase.                *)
LEMMA AsideStep ==
    ASSUME TypeOK, PhaseOK, NEW t \in Threads, t \notin Workers, StepsAside(t)
    PROVE  PhaseOK'
  BY ThreadFacts, DistinctThreads, WorkerFacts
     DEF PhaseOK, StepsAside, AcksKept, Engaged, Cleaning, Over, Goto, lifecycle, admission,
         LateAbandon, TypeOK, ThreadTypes, Live

(* An election names the owner that fits the phase, and ends the phase.    *)
LEMMA ElectStep ==
    ASSUME TypeOK, PhaseOK, NEW t \in Threads, Elects(t)
    PROVE  PhaseOK'
  BY ThreadFacts, DistinctThreads, WorkerFacts
     DEF PhaseOK, Elects, Inside, Elect, Named, AcksKept, Engaged, Cleaning, Over, Goto, admission,
         LateAbandon, TypeOK, ThreadTypes, CleanupSteps, Workers, Operations, Live, Owners

(* The initializer or an update that is current makes the session Ready.   *)
LEMMA ReadyStep ==
    ASSUME TypeOK, PhaseOK, NEW t \in Threads, Readies(t)
    PROVE  PhaseOK'
  BY ThreadFacts, DistinctThreads, WorkerFacts
     DEF PhaseOK, Readies, Inside, Running, AcksKept, Engaged, Cleaning, Over, Goto, admission,
         LateAbandon, TypeOK, ThreadTypes, CleanupSteps, Live

(* Where a label stands.                                                   *)
LEMMA InsideFacts ==
    /\ \A l \in {"prepare", "phases", "startServices", "spawnServices", "awaitServices",
                 "precommit", "persist", "elect", "revoke", "cleanup", "run", "snapshot",
                 "publish", "deliver", "awaitAck", "discard", "finish", "apply", "mutated",
                 "undo", "undoUnproven", "rolledBack", "unprovable", "committed"} : l \in Inside
    /\ \A l \in {"services", "stopping", "teardown", "artifacts", "workspace",
                 "metadata", "unregister", "release", "terminate"} : l \in CleanupSteps
    /\ "done" \notin CleanupSteps /\ "done" \in Labels
    /\ \A l \in {"waiting", "failed", "firing", "idle", "uploading", "open", "armed"} :
           l \in Labels /\ l \notin CleanupSteps
  BY DEF Inside, CleanupSteps, Labels

(* Nothing of the delivery changes.                                        *)
LEMMA AcksFrame == ASSUME UNCHANGED delivery PROVE \A t : AcksKept(t)
  BY Zenon DEF AcksKept, Acknowledged, delivery

(* What a worker that is engaged tells of the session.                     *)
LEMMA WorkerState ==
    ASSUME TypeOK, PhaseOK, NEW t \in Workers, pc[t] \in Inside
    PROVE  /\ st # "Absent"
           /\ t = "initializer" => started
           /\ t \in Updates /\ st = "Updating" => current = t
  <1>1. Engaged(t) BY Zenon DEF Inside, Engaged
  <1>2. t \in Threads /\ pc[t] # "idle"
    BY ThreadFacts, Zenon DEF Workers, Operations, Inside
  <1> QED BY <1>1, <1>2, Zenon DEF PhaseOK, Over

(* The initializer.                                                        *)
LEMMA PhaseInitializer ==
    ASSUME TypeOK, PhaseOK, InitializerStep
    PROVE  PhaseOK'
  <1> DEFINE i == "initializer"
  <1>0. i \in Workers /\ i \in Threads /\ (pc[i] \in Inside => st # "Absent" /\ started)
    BY ThreadFacts, WorkerFacts, WorkerState, Zenon
  <1>1. pc[i] \in Inside /\ UNCHANGED <<delivery, admission>>
    BY InsideFacts, Zenon DEF InitializerStep, PrepareWorkspace, RunPhases, StartServices,
       SpawnServices, AwaitServices, PreCommit, PersistReady, CommitElection,
       WriteMetadata, RevokeCommit, InitializerCleanup
  <1>2. AcksKept(i) /\ AcksKept("none") BY <1>1, AcksFrame, Zenon
  <1>3. ASSUME UNCHANGED lifecycle, \E l \in Inside : Goto(i, l) PROVE PhaseOK'
    <2>1. i \notin Actions BY DistinctThreads, Zenon
    <2> QED BY <1>0, <1>1, <1>2, <1>3, <2>1, AdvanceStep, Zenon DEF Advances
  <1>4. ASSUME st = "Initializing", Elect(i, FALSE, "Initializer"),
               \E l \in Inside \cup CleanupSteps : Goto(i, l)
        PROVE  PhaseOK'
    <2>1. Elects(i)
      BY <1>0, <1>1, <1>2, <1>4, LifecycleFacts, Zenon DEF Elects, Named, Elect
    <2> QED BY <1>0, <2>1, ElectStep, Zenon
  <1>5. ASSUME UNCHANGED lifecycle, st # "Initializing", \E l \in CleanupSteps \cup {"done"} :
                  Goto(i, l) /\ (l = "done" \/ Over)
        PROVE  PhaseOK'
    <2>1. i \notin Actions /\ i \notin Updates BY DistinctThreads, Zenon
    <2> QED BY <1>0, <1>1, <1>2, <1>5, <2>1, RetireStep, Zenon DEF Retires, Running
  <1>6. ASSUME PrepareWorkspace \/ RunPhases \/ StartServices \/ SpawnServices
               \/ AwaitServices \/ PersistReady \/ RevokeCommit
        PROVE  PhaseOK'
    BY <1>3, <1>6, InsideFacts, Zenon DEF PrepareWorkspace, RunPhases, StartServices,
       SpawnServices, AwaitServices, PersistReady, RevokeCommit, WriteMetadata
  <1>7. ASSUME PreCommit PROVE PhaseOK'
    BY <1>3, <1>4, <1>7, InsideFacts, Zenon DEF PreCommit
  <1>8. ASSUME CommitElection PROVE PhaseOK'
    <2>1. ASSUME st = "Initializing", BecomeReady, Goto(i, "done") PROVE PhaseOK'
      BY <1>0, <1>1, <1>2, <2>1, ReadyStep, Zenon DEF Readies, Running, BecomeReady
    <2> QED BY <1>3, <1>4, <1>8, <2>1, InsideFacts, Zenon DEF CommitElection
  <1>9. ASSUME InitializerCleanup PROVE PhaseOK'
    BY <1>4, <1>5, <1>9, InsideFacts, Zenon DEF InitializerCleanup, Over
  <1> QED BY <1>6, <1>7, <1>8, <1>9, Zenon DEF InitializerStep

(* A source update.                                                        *)
LEMMA PhaseUpdate ==
    ASSUME TypeOK, PhaseOK, NEW u \in Updates, RetryUpdate(u) \/ UpdateStep(u)
    PROVE  PhaseOK'
  <1>0. /\ u \in Workers /\ u \in Threads /\ u \notin Actions
        /\ u # "initializer" /\ u # "startStream"
        /\ pc[u] \in Inside => st # "Absent" /\ (st = "Updating" => current = u)
    BY ThreadFacts, DistinctThreads, WorkerFacts, WorkerState, Zenon
  <1>1. (pc[u] \in Inside \/ RetryUpdate(u)) /\ UNCHANGED <<delivery, admission>>
    BY InsideFacts, Zenon DEF RetryUpdate, UpdateStep, ApplyUpdate, CommitUpdate, RollBack,
       FinishUpdate, FinishUpdateError, UpdateWorkerPanicked
  <1>2. AcksKept(u) /\ AcksKept("none") BY <1>1, AcksFrame, Zenon
  <1>3. ASSUME UNCHANGED lifecycle, pc[u] \in Inside, \E l \in Inside : Goto(u, l) PROVE PhaseOK'
    BY <1>0, <1>1, <1>2, <1>3, AdvanceStep, Zenon DEF Advances
  <1>4. ASSUME st = "Updating", pc[u] \in Inside, Goto(u, "services"),
               Elect(u, FALSE, "Update") \/ Elect(u, FALSE, "Requester")
        PROVE  PhaseOK'
    <2>1. Elects(u)
      BY <1>0, <1>1, <1>2, <1>4, LifecycleFacts, InsideFacts, Zenon DEF Elects, Named, Elect
    <2> QED BY <1>0, <2>1, ElectStep, Zenon
  <1>5. ASSUME UNCHANGED lifecycle, st # "Absent", ~(st = "Updating" /\ current = u),
               \E l \in CleanupSteps \cup {"done"} : Goto(u, l) /\ (l = "done" \/ Over)
        PROVE  PhaseOK'
    BY <1>0, <1>1, <1>2, <1>5, RetireStep, Zenon DEF Retires, Running
  <1>6. ASSUME st = "Updating", current = u, pc[u] \in Inside, BecomeReady, Goto(u, "done")
        PROVE  PhaseOK'
    BY <1>0, <1>1, <1>2, <1>6, ReadyStep, Zenon DEF Readies, Running, BecomeReady
  <1>7. CASE RetryUpdate(u) BY <1>5, <1>7, Zenon DEF RetryUpdate
  <1>8. CASE ApplyUpdate(u) \/ CommitUpdate(u) \/ RollBack(u)
    BY <1>3, <1>8, InsideFacts, Zenon DEF ApplyUpdate, CommitUpdate, RollBack, WriteMetadata
  <1>9. CASE FinishUpdate(u)
    BY <1>0, <1>4, <1>5, <1>6, <1>9, InsideFacts, Zenon DEF FinishUpdate, Over
  <1>10. CASE FinishUpdateError(u)
    BY <1>0, <1>4, <1>5, <1>6, <1>10, InsideFacts, Zenon DEF FinishUpdateError, Over
  <1>11. CASE UpdateWorkerPanicked(u)
    <2>1. st = "Updating" => registered
      BY Zenon DEF PhaseOK, Live
    <2> QED BY <1>0, <1>4, <1>5, <1>11, <2>1, InsideFacts, Zenon DEF UpdateWorkerPanicked, Over
  <1> QED BY <1>7, <1>8, <1>9, <1>10, <1>11, Zenon DEF UpdateStep

(* The reservation, and the hand-over to the initializer.                  *)
LEMMA PhaseReserve ==
    ASSUME TypeOK, PhaseOK,
           Reserve \/ /\ st = "Initializing" /\ ~started /\ started' = TRUE
                      /\ pc' = [pc EXCEPT !["upload"] = "done", !["initializer"] = "prepare",
                                          !["startStream"] = "open"]
                      /\ UNCHANGED <<st, current, explicit, owner, winner, admission, delivery>>
    PROVE  PhaseOK'
  BY ThreadFacts, DistinctThreads DEF Reserve, PhaseOK, Engaged, Cleaning, Over, CleanupSteps,
     Acknowledged, LateAbandon, TypeOK, ThreadTypes, LifecycleTypes, Live, admission, delivery

(* An operation starts.                                                    *)
LEMMA PhaseOperation ==
    ASSUME TypeOK, LabelsOK, DeliveryOK, PhaseOK,
           \/ \E a \in Actions : StartAction(a)
           \/ \E u \in Updates : StartUpdate(u)
    PROVE  PhaseOK'
  <1>1. \E t \in Operations :
            /\ pc[t] = "idle" /\ st = "Ready" /\ current' = t
            /\ st' = IF t \in Actions THEN "Action" ELSE "Updating"
            /\ Goto(t, IF t \in Actions THEN "run" ELSE "apply")
            /\ UNCHANGED <<started, explicit, owner, winner, admission>>
    BY ThreadFacts, DistinctThreads, Zenon DEF StartAction, StartUpdate
  <1>2. \A a \in Actions : (Acknowledged(a)' <=> Acknowledged(a)) /\ archive'[a] = archive[a]
                           /\ (pc[a] = "idle" => ~Acknowledged(a))
    BY DEF StartAction, StartUpdate, Acknowledged, DeliveryOK, TypeOK, ThreadTypes, delivery
  <1> QED
    BY <1>1, <1>2, ThreadFacts, DistinctThreads DEF PhaseOK, Engaged, Cleaning, Over, CleanupSteps,
       LateAbandon, TypeOK, ThreadTypes, Goto, Live, Operations, admission

(* The start request.                                                      *)
LEMMA PhaseStart ==
    ASSUME TypeOK, PhaseOK, UploadStep \/ Disconnect
    PROVE  PhaseOK'
  <1>0. /\ "upload" \in Threads /\ "upload" \notin Workers
        /\ "startStream" \in Threads /\ "startStream" \notin Workers
        /\ pc["upload"] # "idle" => st # "Absent"
        /\ pc["startStream"] # "idle" => st # "Absent" /\ started
    BY ThreadFacts, WorkerFacts, Zenon DEF PhaseOK
  <1>1. UNCHANGED <<delivery, admission>>
    BY Zenon DEF UploadStep, CancelUpload, UploadHandlerDropped, BeginInitialization, Disconnect
  <1>2. AcksKept("none") BY <1>1, AcksFrame, Zenon
  <1>3. ASSUME NEW t \in {"upload", "startStream"}, pc[t] # "idle", UNCHANGED lifecycle, Goto(t, "done")
        PROVE  PhaseOK'
    BY <1>0, <1>1, <1>2, <1>3, AsideStep, InsideFacts, Zenon DEF StepsAside
  <1>4. ASSUME NEW t \in {"upload", "startStream"}, pc[t] # "idle", st = "Initializing",
               Elect(t, FALSE, IF started THEN "Initializer" ELSE "Requester"),
               Goto(t, "services") \/ Goto(t, "done")
        PROVE  PhaseOK'
    <2>1. Elects(t)
      BY <1>0, <1>1, <1>2, <1>4, LifecycleFacts, InsideFacts, Zenon DEF Elects, Named, Elect
    <2> QED BY <1>0, <1>4, <2>1, ElectStep, Zenon
  <1>5. CASE CancelUpload \/ UploadHandlerDropped
    BY <1>3, <1>4, <1>5, Zenon DEF CancelUpload, UploadHandlerDropped
  <1>6. CASE BeginInitialization
    BY <1>1, <1>3, <1>4, <1>6, PhaseReserve, Zenon DEF BeginInitialization
  <1>7. CASE Disconnect
    BY <1>3, <1>4, <1>7, Zenon DEF Disconnect
  <1> QED BY <1>5, <1>6, <1>7, Zenon DEF UploadStep

(* The triggers of termination that no request makes, and a stop.          *)
LEMMA PhaseTriggers ==
    ASSUME TypeOK, PhaseOK,
           \/ ServiceExits \/ ServiceFailed \/ ExpireLifetime \/ IdleTimerWakes \/ ExpireIdle
           \/ \E k \in Stops : Stop(k) \/ StopCompletes(k)
    PROVE  PhaseOK'
  <1> DEFINE Bystanders == {"service", "lifetime", "idle"} \cup Stops
  <1>0. \A t \in Bystanders :
            /\ t \in Threads /\ t \notin Workers /\ t # "startStream" /\ t # "initializer"
            /\ pc[t] # "idle" => st # "Absent"
    BY ThreadFacts, DistinctThreads, WorkerFacts, Zenon DEF PhaseOK
  <1>1. UNCHANGED <<delivery, admission>>
    BY Zenon DEF ServiceExits, ServiceFailed, ExpireLifetime, IdleTimerWakes, ExpireIdle, Stop,
       StopCompletes
  <1>2. AcksKept("none") BY <1>1, AcksFrame, Zenon
  <1>3. ASSUME NEW t \in Bystanders, st # "Absent", UNCHANGED lifecycle,
               \E l \in {"done", "failed", "firing", "idle"} : Goto(t, l)
        PROVE  PhaseOK'
    BY <1>0, <1>1, <1>2, <1>3, AsideStep, InsideFacts, Zenon DEF StepsAside
  <1>4. ASSUME NEW t \in Bystanders, st \in Live, NEW e \in BOOLEAN, NEW o \in Owners, Named(o),
               st = "Updating" => o = "Update",
               Elect(t, e, o), \E l \in {"done", "waiting", "services"} : Goto(t, l)
        PROVE  PhaseOK'
    <2>1. Elects(t)
      BY <1>0, <1>1, <1>2, <1>4, LifecycleFacts, InsideFacts, Zenon DEF Elects, Elect
    <2> QED BY <1>0, <1>4, <2>1, ElectStep, Zenon
  <1>5. Named(ActiveOwner) /\ (st = "Updating" => ActiveOwner = "Update")
    BY DEF Named, ActiveOwner
  <1>6. CASE ServiceExits
    <2>1. st # "Absent" BY <1>6, Zenon DEF PhaseOK, ServiceExits
    <2> QED BY <1>3, <1>6, <2>1, Zenon DEF ServiceExits
  <1>7. CASE ServiceFailed
    BY <1>0, <1>3, <1>4, <1>7, LifecycleFacts, Zenon DEF ServiceFailed, Named
  <1>8. CASE ExpireLifetime
    BY <1>0, <1>3, <1>4, <1>5, <1>8, LifecycleFacts, Zenon DEF ExpireLifetime, Preempt
  <1>9. CASE IdleTimerWakes
    BY <1>1, <1>3, <1>9, PhaseFrame, Zenon DEF IdleTimerWakes
  <1>10. CASE ExpireIdle
    BY <1>0, <1>3, <1>4, <1>10, LifecycleFacts, Zenon DEF ExpireIdle, Named
  <1>11. ASSUME NEW k \in Stops, Stop(k) PROVE PhaseOK'
    BY <1>4, <1>5, <1>11, LifecycleFacts, Zenon DEF Stop, Preempt
  <1>12. ASSUME NEW k \in Stops, StopCompletes(k) PROVE PhaseOK'
    BY <1>3, <1>12, Zenon DEF StopCompletes
  <1> QED BY <1>6, <1>7, <1>8, <1>9, <1>10, <1>11, <1>12, Zenon

(* An action from its start to its finish.                                 *)
LEMMA PhaseWorker ==
    ASSUME TypeOK, DeliveryOK, PhaseOK, NEW a \in Actions, WorkerStep(a)
    PROVE  PhaseOK'
  <1>0. /\ a \in Workers /\ a \in Threads /\ a \notin Updates
        /\ a # "initializer" /\ a # "startStream"
    BY ThreadFacts, DistinctThreads, WorkerFacts, Zenon
  <1>1. pc[a] \in Inside /\ UNCHANGED admission
    BY InsideFacts, Zenon DEF WorkerStep, ActionRuns, SnapshotArtifacts, PublishCheck,
       EnqueueFinal, AwaitAck, DiscardArchive, FinishAction
  <1>2. st # "Absent" BY <1>0, <1>1, WorkerState, Zenon
  <1>3. pc[a] \in {"run", "snapshot", "publish", "deliver"} => ack[a] = "none" /\ ~Acknowledged(a)
    BY DEF DeliveryOK, Acknowledged
  <1>4. \A b \in Actions : (Acknowledged(b)' <=> Acknowledged(b)) /\ (b # a => archive'[b] = archive[b])
    <2>1. CASE EnqueueFinal(a)
      BY <1>3, <2>1 DEF EnqueueFinal, Acknowledged, DeliveryOK, TypeOK, ThreadTypes, delivery
    <2>2. CASE ~EnqueueFinal(a)
      <3>1. UNCHANGED <<stream, ack>>
        BY <2>2, Zenon DEF WorkerStep, ActionRuns, SnapshotArtifacts, PublishCheck,
           AwaitAck, DiscardArchive, FinishAction, delivery
      <3>2. UNCHANGED archive \/ \E x \in Archives : archive' = [archive EXCEPT ![a] = x]
        BY <2>2, Zenon DEF WorkerStep, ActionRuns, SnapshotArtifacts, PublishCheck,
           AwaitAck, DiscardArchive, FinishAction, delivery, Archives
      <3> QED BY <3>1, <3>2, Zenon DEF Acknowledged, TypeOK, ThreadTypes
    <2> QED BY <2>1, <2>2, Zenon
  <1>5. AcksKept(a) BY <1>4, Zenon DEF AcksKept
  <1>6. ASSUME UNCHANGED lifecycle, NEW l \in Inside, Goto(a, l), Acknowledged(a) => LateAbandon(a)'
        PROVE  PhaseOK'
    BY <1>0, <1>1, <1>5, <1>6, AdvanceStep, Zenon DEF Advances
  <1>7. ASSUME UNCHANGED lifecycle, ~(st = "Action" /\ current = a), NEW l \in CleanupSteps \cup {"done"},
               Goto(a, l), l = "done" \/ Over
        PROVE  PhaseOK'
    BY <1>0, <1>1, <1>2, <1>5, <1>7, RetireStep, Zenon DEF Retires, Running
  <1>8. CASE ActionRuns(a)
    BY <1>3, <1>6, <1>8, InsideFacts, Zenon DEF ActionRuns
  <1>9. CASE SnapshotArtifacts(a)
    BY <1>3, <1>6, <1>9, InsideFacts, Zenon DEF SnapshotArtifacts
  <1>10. CASE PublishCheck(a)
    BY <1>3, <1>6, <1>10, InsideFacts, Zenon DEF PublishCheck
  <1>11. CASE EnqueueFinal(a)
    BY <1>3, <1>6, <1>11, InsideFacts, Zenon DEF EnqueueFinal
  <1>12. CASE AwaitAck(a)
    <2>1. Acknowledged(a) => ~(st = "Action" /\ current = a) BY Zenon DEF PhaseOK
    <2>2. ASSUME Goto(a, "discard"), UNCHANGED lifecycle PROVE PhaseOK'
      <3>1. pc'[a] = "discard" BY <1>0, <2>2, Zenon DEF Goto, TypeOK, ThreadTypes
      <3> QED BY <1>4, <1>6, <2>2, <3>1, InsideFacts, Zenon DEF LateAbandon
    <2>3. ASSUME Goto(a, "done"), ack[a] = "accepted", UNCHANGED lifecycle PROVE PhaseOK'
      BY <1>7, <2>1, <2>3, Zenon DEF Acknowledged
    <2> QED BY <1>12, <2>2, <2>3, Zenon DEF AwaitAck
  <1>13. CASE DiscardArchive(a)
    <2>1. archive'[a] = "discarded" BY <1>13, Zenon DEF DiscardArchive, TypeOK, ThreadTypes
    <2> QED BY <1>4, <1>6, <1>13, <2>1, InsideFacts, Zenon DEF DiscardArchive, LateAbandon
  <1>14. CASE FinishAction(a)
    <2>1. ASSUME st = "Action", current = a, Elect(a, FALSE, "Action"), Goto(a, "services")
          PROVE  PhaseOK'
      <3>1. AcksKept("none") BY <1>14, AcksFrame, Zenon DEF FinishAction
      <3>2. Elects(a)
        BY <1>0, <1>1, <2>1, <3>1, LifecycleFacts, InsideFacts, Zenon DEF Elects, Named, Elect
      <3> QED BY <1>0, <3>2, ElectStep, Zenon
    <2> QED BY <1>7, <1>14, <2>1, InsideFacts, Zenon DEF FinishAction, Over
  <1> QED BY <1>8, <1>9, <1>10, <1>11, <1>12, <1>13, <1>14, Zenon DEF WorkerStep

(* The response stream of an action and its acknowledgement.               *)
LEMMA PhaseStream ==
    ASSUME TypeOK, LabelsOK, DeliveryOK, PhaseOK, NEW a \in Actions, StreamStep(a) \/ SendAck(a)
    PROVE  PhaseOK'
  <1>0. a \in Threads /\ a # "initializer" /\ a # "startStream"
    BY ThreadFacts, DistinctThreads, Zenon
  <1>1. UNCHANGED <<pc, svc, admission, archive>>
    BY Zenon DEF StreamStep, ConsumeFinal, AcknowledgeDelivery, DisconnectAction, SendAck
  <1>2. ASSUME AcksKept("none"), UNCHANGED lifecycle PROVE PhaseOK'
    BY <1>1, <1>2, Zenon DEF AcksKept, PhaseOK, Over, Cleaning, Live, Engaged, LateAbandon,
       lifecycle, svc, admission
  <1>3. ASSUME AcksKept("none"), st = "Action", current = a, Elect(a, FALSE, "Action") PROVE PhaseOK'
    <2>1. Elects(a)
      BY <1>0, <1>1, <1>3, LifecycleFacts, Zenon DEF Elects, Named, Elect
    <2> QED BY <1>0, <2>1, ElectStep, Zenon
  <1>4. ASSUME st = "Action", current = a, pc[a] = "awaitAck" \/ LateAbandon(a)',
               st' = "Ready", UNCHANGED <<started, current, explicit, owner, winner>>,
               Acknowledged(a)', \A b \in Actions : b # a => (Acknowledged(b)' <=> Acknowledged(b))
        PROVE  PhaseOK'
    BY <1>0, <1>1, <1>4, ThreadFacts, DistinctThreads DEF PhaseOK, Over, Cleaning, Live, Engaged,
       LateAbandon, svc, admission
  <1>5. CASE ConsumeFinal(a)
    <2>1. AcksKept("none")
      BY <1>5 DEF ConsumeFinal, AcksKept, Acknowledged, TypeOK, ThreadTypes
    <2> QED BY <1>2, <1>5, <2>1, Zenon DEF ConsumeFinal
  <1>6. CASE AcknowledgeDelivery(a)
    <2>0. stream[a] = "final" /\ UNCHANGED ack BY <1>6, Zenon DEF AcknowledgeDelivery
    <2>1. ASSUME stream' = [stream EXCEPT ![a] = "refusing"] PROVE AcksKept("none")
      BY <1>1, <2>0, <2>1 DEF AcksKept, Acknowledged, DeliveryOK, TypeOK, ThreadTypes
    <2>2. ASSUME stream' = [stream EXCEPT ![a] = "accepting"]
          PROVE  /\ Acknowledged(a)'
                 /\ \A b \in Actions : b # a => (Acknowledged(b)' <=> Acknowledged(b))
      BY <2>0, <2>2, Zenon DEF Acknowledged, TypeOK, ThreadTypes
    <2>3. ASSUME Acknowledged(a)' PROVE st = "Action" /\ current = a => pc[a] = "awaitAck" \/ LateAbandon(a)'
      <3>1. ack[a] = "pending" BY <2>0 DEF DeliveryOK
      <3>2. archive[a] # "discarded" => pc[a] \in {"awaitAck", "discard"} \/ (pc[a] = "done" /\ Acknowledged(a))
        BY <3>1 DEF DeliveryOK
      <3>3. Acknowledged(a) => ~(st = "Action" /\ current = a) BY Zenon DEF PhaseOK
      <3> QED BY <1>1, <2>3, <3>2, <3>3, Zenon DEF LateAbandon
    <2> QED BY <1>2, <1>3, <1>4, <1>6, <2>1, <2>2, <2>3, Zenon DEF AcknowledgeDelivery, BecomeReady, ActionCanPublish
  <1>7. CASE DisconnectAction(a)
    <2>1. AcksKept("none")
      BY <1>7 DEF DisconnectAction, AcksKept, Acknowledged, TypeOK, ThreadTypes
    <2> QED BY <1>2, <1>3, <1>7, <2>1, Zenon DEF DisconnectAction
  <1>8. CASE SendAck(a)
    <2>1. AcksKept("none")
      BY <1>8 DEF SendAck, AcksKept, Acknowledged, DeliveryOK, TypeOK, ThreadTypes
    <2> QED BY <1>2, <1>8, <2>1, Zenon DEF SendAck
  <1> QED BY <1>5, <1>6, <1>7, <1>8, Zenon DEF StreamStep

(* The cleanup, whichever thread runs it.                                  *)
LEMMA PhaseCleanup ==
    ASSUME TypeOK, PhaseOK, NEW t \in Threads, Cleanup(t)
    PROVE  PhaseOK'
  <1>1. Cleaning(t) /\ Over /\ UNCHANGED <<delivery, started, current, explicit, owner, winner>>
    <2>1. Cleaning(t) /\ UNCHANGED <<delivery, started, current, explicit, owner, winner>>
      BY InsideFacts, Zenon DEF Cleanup, TakeServices, StopServices, Teardown, CollectFinalArtifacts,
         RemoveWorkspace, RemoveMetadata, Unregister, ReleasePermit, BecomeTerminated, Cleaning,
         lifecycle
    <2> QED BY <2>1, Zenon DEF PhaseOK
  <1>2. \A x : AcksKept(x) BY <1>1, AcksFrame, Zenon
  <1>3. ASSUME UNCHANGED lifecycle, NEW l \in CleanupSteps, Goto(t, l) PROVE PhaseOK'
    <2>1. st # "Absent" /\ ~Running(t) BY <1>1, Zenon DEF Over, Running
    <2>2. /\ t = "initializer" => started
          /\ t = "startStream" => started
          /\ l \in Labels
      BY <1>1, LabelFacts, InsideFacts, Zenon DEF PhaseOK, Cleaning, CleanupSteps
    <2>3. CASE t \in Workers
      BY <1>1, <1>2, <1>3, <2>1, <2>2, <2>3, RetireStep, Zenon DEF Retires
    <2>4. CASE t \notin Workers
      BY <1>1, <1>2, <1>3, <2>1, <2>2, <2>4, AsideStep, Zenon DEF StepsAside
    <2> QED BY <2>3, <2>4, Zenon
  <1>4. CASE TakeServices(t) \/ BecomeTerminated(t)
    <2>1. \A p \in Threads : \/ pc'[p] = pc[p]
                             \/ p = t /\ pc'[p] \in CleanupSteps \cup {"done"}
                             \/ p = "lifetime" /\ pc'[p] = "done"
      BY <1>4, InsideFacts, Zenon DEF TakeServices, BecomeTerminated, Goto, TypeOK, ThreadTypes
    <2>2. st' = st \/ st' = "Terminated"
      BY <1>4, Zenon DEF TakeServices, BecomeTerminated, lifecycle
    <2>3. UNCHANGED admission BY <1>4, Zenon DEF TakeServices, BecomeTerminated
    <2> QED
      BY <1>1, <1>2, <2>1, <2>2, <2>3, ThreadFacts, DistinctThreads DEF PhaseOK, AcksKept, Over,
         Cleaning, Live, Engaged, LateAbandon, CleanupSteps, admission
  <1>5. CASE ~TakeServices(t) /\ ~BecomeTerminated(t)
    BY <1>3, <1>5, InsideFacts, Zenon DEF Cleanup, StopServices, Teardown, CollectFinalArtifacts,
       RemoveWorkspace, RemoveMetadata, Unregister, ReleasePermit
  <1> QED BY <1>4, <1>5, Zenon

(* Every step keeps phases and threads in agreement.                       *)
LEMMA PhaseStep == TypeOK /\ LabelsOK /\ DeliveryOK /\ PhaseOK /\ [Next]_vars => PhaseOK'
  <1> SUFFICES ASSUME TypeOK, LabelsOK, DeliveryOK, PhaseOK, [Next]_vars PROVE PhaseOK'
    OBVIOUS
  <1>1. CASE UNCHANGED <<lifecycle, svc, admission, delivery, pc>>
    BY <1>1, PhaseFrame, Zenon
  <1>2. ASSUME \/ UNCHANGED vars \/ DeadlinePasses \/ IdlePeriodPasses
               \/ InitializationCancelled \/ \E a \in Actions : OutputCancels(a)
        PROVE  UNCHANGED <<lifecycle, svc, admission, delivery, pc>>
    BY <1>2, Zenon DEF vars, DeadlinePasses, IdlePeriodPasses, InitializationCancelled,
       OutputCancels
  <1> QED
    BY <1>1, <1>2, PhaseReserve, PhaseStart, PhaseInitializer, PhaseTriggers, PhaseOperation,
       PhaseWorker, PhaseStream, PhaseUpdate, PhaseCleanup, Zenon DEF Next

(* These invariants hold in every behaviour.                               *)
THEOREM PhaseCorrect == Spec => [](TypeOK /\ LabelsOK /\ DeliveryOK /\ PhaseOK)
  <1> DEFINE Inv == TypeOK /\ LabelsOK /\ DeliveryOK /\ PhaseOK
  <1>1. Init => Inv
    BY TypeInit, PhaseInit, Zenon
  <1>2. Inv /\ [Next]_vars => Inv'
    BY TypeStep, DeliveryStep, PhaseStep, Zenon
  <1> QED
    BY <1>1, <1>2, PTL DEF Spec

(* Termination is elected once: no later trigger changes who won, who      *)
(* cleans up and whether the stop was explicit, or revives the session.    *)
THEOREM ElectionFinal == Spec => ElectionIsFinal
  <1>1. ASSUME TypeOK, PhaseOK, winner # "none", LifecycleMove
        PROVE  /\ UNCHANGED <<winner, owner, explicit>>
               /\ st' \in (IF st = "Terminated" THEN {"Terminated"}
                                              ELSE {"Terminating", "Terminated"})
    <2>1. st \in {"Terminating", "Terminated"}
      BY <1>1, Zenon DEF PhaseOK, Over
    <2> QED
      BY <1>1, <2>1, Zenon DEF LifecycleMove, lifecycle, Live
  <1>2. TypeOK /\ PhaseOK /\ [Next]_vars =>
            [winner # "none" =>
                /\ UNCHANGED <<winner, owner, explicit>>
                /\ st' \in (IF st = "Terminated" THEN {"Terminated"}
                                               ELSE {"Terminating", "Terminated"})]_vars
    BY <1>1, LifecycleMoves, Zenon
  <1> QED
    BY <1>2, PhaseCorrect, PTL DEF Spec, ElectionIsFinal
=============================================================================
