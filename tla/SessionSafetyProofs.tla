------------------------ MODULE SessionSafetyProofs ------------------------
(***************************************************************************)
(* The safety of Session for every instance: services, updates, durability *)
(* and stops; one cleanup by one owner; and the contracts of the session   *)
(* and of its updates, step by step.                                       *)
(***************************************************************************)
EXTENDS SessionProofs

(***************************************************************************)
(* Services.                                                               *)
(***************************************************************************)
BeforeSpawn == {"idle", "prepare", "phases", "startServices", "spawnServices"}

(* A thread goes somewhere that does not concern the services.             *)
Elsewhere(t, l) ==
    /\ Goto(t, l) /\ l # "stopping"
    /\ t = "initializer" /\ l \in BeforeSpawn => pc[t] \in BeforeSpawn
    /\ t = "service" => pc[t] # "idle"

(* Services are spawned once, exit, are taken and are stopped; no other    *)
(* step touches them.                                                      *)
LEMMA ServicesMoves ==
    ASSUME [Next]_vars
    PROVE  \/ SpawnServices \/ ServiceExits
           \/ \E t \in Threads : TakeServices(t) \/ StopServices(t)
           \/ /\ UNCHANGED services
              /\ \/ UNCHANGED pc \/ \E t \in Threads, l \in Labels : Elsewhere(t, l)
                 \/ Reserve \/ BeginInitialization
  <1> USE ThreadFacts, LabelFacts, DistinctThreads, ZenonT(60) DEF Elsewhere,
     BeforeSpawn, svc
  <1>1. ASSUME UploadStep \/ Disconnect \/ ServiceFailed \/ ExpireLifetime \/ ExpireIdle
               \/ IdleTimerWakes
        PROVE  /\ UNCHANGED services
               /\ \/ UNCHANGED pc \/ \E t \in Threads, l \in Labels : Elsewhere(t, l)
                  \/ BeginInitialization
    BY <1>1, Zenon DEF UploadStep, CancelUpload, UploadHandlerDropped, BeginInitialization,
       Disconnect, ServiceFailed, ExpireLifetime, ExpireIdle, IdleTimerWakes, Preempt
  <1>2. ASSUME InitializerStep
        PROVE  \/ SpawnServices
               \/ UNCHANGED services /\ \E t \in Threads, l \in Labels : Elsewhere(t, l)
    BY <1>2, Zenon DEF InitializerStep, PrepareWorkspace, RunPhases, StartServices,
       AwaitServices, PreCommit, PersistReady, CommitElection, WriteMetadata,
       RevokeCommit, InitializerCleanup
  <1>3. ASSUME NEW k \in Stops, Stop(k) \/ StopCompletes(k)
        PROVE  UNCHANGED services /\ \E t \in Threads, l \in Labels : Elsewhere(t, l)
    BY <1>3, Zenon DEF Stop, StopCompletes, Preempt
  <1>4. ASSUME NEW a \in Actions, StartAction(a) \/ WorkerStep(a)
        PROVE  UNCHANGED services /\ \E t \in Threads, l \in Labels : Elsewhere(t, l)
    BY <1>4, Zenon DEF StartAction, WorkerStep, ActionRuns, SnapshotArtifacts, PublishCheck,
       EnqueueFinal, AwaitAck, DiscardArchive, FinishAction
  <1>5. ASSUME NEW u \in Updates, RetryUpdate(u) \/ StartUpdate(u) \/ UpdateStep(u)
        PROVE  UNCHANGED services /\ \E t \in Threads, l \in Labels : Elsewhere(t, l)
    BY <1>5, Zenon DEF RetryUpdate, StartUpdate, UpdateStep, ApplyUpdate, CommitUpdate,
       RollBack, FinishUpdate, FinishUpdateError, UpdateWorkerPanicked, WriteMetadata
  <1>6. ASSUME NEW t \in Threads, Cleanup(t)
        PROVE  \/ TakeServices(t) \/ StopServices(t)
               \/ UNCHANGED services /\ \E p \in Threads, l \in Labels : Elsewhere(p, l)
    BY <1>6, Zenon DEF Cleanup, Teardown, CollectFinalArtifacts, RemoveWorkspace,
       RemoveMetadata, Unregister, ReleasePermit, BecomeTerminated
  <1> HIDE DEF Elsewhere
  <1> QED
    BY <1>1, <1>2, <1>3, <1>4, <1>5, <1>6, Zenon DEF Next, vars, Reserve, DeadlinePasses,
       IdlePeriodPasses, InitializationCancelled, OutputCancels, StreamStep,
       ConsumeFinal, AcknowledgeDelivery, DisconnectAction, SendAck

(* Services run from one spawn to one failure or stop.                     *)
LEMMA ServicesStep ==
    ASSUME TypeOK, PhaseOK, ServicesOK, [Next]_vars
    PROVE  ServicesOK'
  <1> USE ThreadFacts DEF TypeOK, ThreadTypes, Goto, ServicesOK, svc
  <1>1. CASE SpawnServices
    <2>1. /\ services = "off" /\ services' \in {"off", "up"} /\ pc["service"] = "idle"
          /\ \A t \in Threads : pc[t] # "stopping"
      BY <1>1, Zenon DEF SpawnServices
    <2>2. \E l \in {"awaitServices", "cleanup"} : Goto("initializer", l)
      BY <1>1, Zenon DEF SpawnServices
    <2> QED
      BY <2>1, <2>2, Zenon
  <1>2. CASE ServiceExits
    BY <1>2, Zenon DEF ServiceExits
  <1>3. ASSUME NEW t \in Threads, TakeServices(t) PROVE ServicesOK'
    BY <1>3, Zenon DEF TakeServices
  <1>4. ASSUME NEW t \in Threads, StopServices(t) PROVE ServicesOK'
    BY <1>4, Zenon DEF StopServices
  <1>5. CASE UNCHANGED <<services, pc>>
    BY <1>5, Zenon
  <1>6. CASE UNCHANGED services /\ (Reserve \/ BeginInitialization)
    BY <1>6, DistinctThreads, Zenon DEF Reserve, BeginInitialization, PhaseOK
  <1>7. ASSUME UNCHANGED services, NEW t \in Threads, NEW l \in Labels, Elsewhere(t, l)
        PROVE  ServicesOK'
    BY <1>7, Zenon DEF Elsewhere, BeforeSpawn
  <1> QED
    <2> HIDE DEF ServicesOK
    <2> QED
      BY ServicesMoves, <1>1, <1>2, <1>3, <1>4, <1>5, <1>6, <1>7, Zenon

(***************************************************************************)
(* Updates.                                                                *)
(***************************************************************************)
(* Only a finished update moves the revision and the cache of the last     *)
(* success, and only an admitted one makes the session Updating.           *)
LEMMA UpdatesMoves ==
    ASSUME [Next]_vars
    PROVE  /\ UNCHANGED updating \/ \E u \in Updates : FinishUpdate(u)
           /\ \/ st' = "Updating" => UNCHANGED <<st, current>>
              \/ \E u \in Updates : StartUpdate(u)
  <1>1. UNCHANGED updating \/ \E u \in Updates : FinishUpdate(u)
    BY StorageMoves, Zenon DEF StartServices, SpawnServices, PersistReady, RevokeCommit,
       ServiceExits, CommitUpdate, TakeServices, StopServices, Teardown, RemoveMetadata
  <1>2. \/ st' = "Updating" => UNCHANGED <<st, current>>
        \/ \E u \in Updates : StartUpdate(u)
    BY ZenonT(60) DEF Elect, BecomeReady, Preempt, lifecycle, vars, Next,
       DeadlinePasses, IdlePeriodPasses, Reserve, Disconnect, InitializationCancelled,
       ServiceExits, ServiceFailed, ExpireLifetime, IdleTimerWakes, ExpireIdle, Stop,
       StopCompletes, StartAction, OutputCancels, SendAck, RetryUpdate, UploadStep,
       CancelUpload, UploadHandlerDropped, BeginInitialization, InitializerStep,
       PrepareWorkspace, RunPhases, StartServices, SpawnServices, AwaitServices,
       PreCommit, PersistReady, CommitElection, RevokeCommit, InitializerCleanup,
       WorkerStep, ActionRuns, SnapshotArtifacts, PublishCheck, EnqueueFinal,
       AwaitAck, DiscardArchive, FinishAction, StreamStep, ConsumeFinal,
       AcknowledgeDelivery, DisconnectAction, UpdateStep, ApplyUpdate, CommitUpdate,
       RollBack, FinishUpdate, FinishUpdateError, UpdateWorkerPanicked, Cleanup,
       TakeServices, StopServices, Teardown, CollectFinalArtifacts, RemoveWorkspace,
       RemoveMetadata, Unregister, ReleasePermit, BecomeTerminated
  <1> QED
    BY <1>1, <1>2, Zenon

(* No revision or cached request changes, and no update is answered with   *)
(* success.                                                                *)
LEMMA UpdatesFrame ==
    ASSUME UpdatesOK, UNCHANGED updating, st' = "Updating" => UNCHANGED <<st, current>>,
           \A u \in Updates : outcome'[u] \in {"ok", "retry"} => outcome'[u] = outcome[u]
    PROVE  UpdatesOK'
  BY Zenon DEF UpdatesOK, updating

(* An update is applied for the revision it names and raises it.           *)
LEMMA UpdatesStep ==
    ASSUME TypeOK, UpdatesOK, [Next]_vars
    PROVE  UpdatesOK'
  <1> USE DEF TypeOK, ThreadTypes
  <1>1. ASSUME NEW u \in Updates, StartUpdate(u) PROVE UpdatesOK'
    BY <1>1, Zenon DEF StartUpdate, UpdatesOK, updating, results
  <1>2. ASSUME NEW u \in Updates, RetryUpdate(u) PROVE UpdatesOK'
    BY <1>2, Zenon DEF RetryUpdate, UpdatesOK, updating, lifecycle
  <1>3. ASSUME NEW u \in Updates, outcome' = [outcome EXCEPT ![u] = "failed"],
               UNCHANGED updating, st' = "Updating" => UNCHANGED <<st, current>>
        PROVE  UpdatesOK'
    BY <1>3, UpdatesFrame, Zenon
  <1>4. ASSUME NEW u \in Updates, FinishUpdate(u) PROVE UpdatesOK'
    <2>1. CASE /\ UNCHANGED updating /\ st' # "Updating"
               /\ outcome' = [outcome EXCEPT ![u] = "failed"]
      BY <2>1, <1>3, Zenon
    <2>2. CASE /\ st = "Updating" /\ current = u /\ st' = "Ready"
               /\ revision' = req[u].base + 1 /\ lastSuccess' = {req[u]}
               /\ applied' = [applied EXCEPT ![req[u]] = applied[req[u]] + 1]
               /\ outcome' = [outcome EXCEPT ![u] = "ok"] /\ UNCHANGED req
      <3>1. /\ req[u] \in Requests /\ req[u].base = revision /\ revision' = revision + 1
            /\ revision \in Nat
        BY <2>2 DEF UpdatesOK, StorageTypes
      <3>2. applied[req[u]] = 0
        BY <3>1 DEF UpdatesOK
      <3>3. applied'[req[u]] = 1
        BY <2>2, <3>1, <3>2 DEF StorageTypes
      <3>4. \A q \in Requests : applied'[q] = 0 \/ (applied'[q] = 1 /\ q.base < revision')
        BY <2>2, <3>1, <3>3, ConstantTypes DEF UpdatesOK, StorageTypes
      <3>5. \A v \in Updates : outcome'[v] \in {"ok", "retry"} => applied'[req'[v]] = 1
        BY <2>2, <3>1, <3>3, Zenon DEF UpdatesOK, StorageTypes
      <3> QED
        BY <2>2, <3>3, <3>4, <3>5, Zenon DEF UpdatesOK
    <2> QED
      BY <1>4, <2>1, <2>2, Zenon DEF FinishUpdate, Elect, BecomeReady, lifecycle
  <1>5. CASE UNCHANGED <<updating, outcome>> /\ (st' = "Updating" => UNCHANGED <<st, current>>)
    BY <1>5, UpdatesFrame, Zenon
  <1>6. ASSUME NEW k \in Stops, outcome' = [outcome EXCEPT ![k] = "ok"], UNCHANGED updating,
               st' = "Updating" => UNCHANGED <<st, current>>
        PROVE  UpdatesOK'
    BY <1>6, UpdatesFrame, DistinctThreads, Zenon
  <1> QED
    BY UpdatesMoves, OutcomeMoves, <1>1, <1>2, <1>3, <1>4, <1>5, <1>6, Zenon

(***************************************************************************)
(* Durability.                                                             *)
(***************************************************************************)
(* The threads that do not write the session's files while it is live.     *)
Bystanders == (System \ {"initializer"}) \cup Actions \cup Stops

(* Files are written by the initializer, an update or cleanup; every other *)
(* step elects termination or moves a bystander.                           *)
LEMMA DurabilityMoves ==
    ASSUME [Next]_vars
    PROVE  \/ Reserve \/ BeginInitialization \/ InitializerStep
           \/ \E a \in Actions : StartAction(a) \/ AcknowledgeDelivery(a)
           \/ \E u \in Updates : RetryUpdate(u) \/ StartUpdate(u) \/ UpdateStep(u)
           \/ \E t \in Threads : Cleanup(t)
           \/ \E t \in Threads, e \in BOOLEAN, o \in Owners : Elect(t, e, o)
           \/ /\ UNCHANGED <<lifecycle, files, durable, revision>>
              /\ UNCHANGED pc \/ \E t \in Bystanders : \E l \in Labels : Goto(t, l)
  <1>1. /\ Actions \subseteq Bystanders /\ Stops \subseteq Bystanders
        /\ \A t \in {"upload", "startStream", "service", "lifetime", "idle"} : t \in Bystanders
    BY Zenon DEF Bystanders, System
  <1> QED
    BY <1>1, ThreadFacts, LabelFacts, LifecycleFacts, ZenonT(60) DEF Preempt,
       updating, vars, Next, DeadlinePasses, IdlePeriodPasses, Disconnect,
       InitializationCancelled, ServiceExits, ServiceFailed, ExpireLifetime,
       IdleTimerWakes, ExpireIdle, Stop, StopCompletes, OutputCancels, SendAck,
       UploadStep, CancelUpload, UploadHandlerDropped, WorkerStep, ActionRuns,
       SnapshotArtifacts, PublishCheck, EnqueueFinal, AwaitAck, DiscardArchive,
       FinishAction, StreamStep, ConsumeFinal, DisconnectAction

(* A session that is over promises nothing about its files.                *)
LEMMA DurabilityOver == ASSUME Over' PROVE DurabilityOK'
  BY Zenon DEF Over, DurabilityOK

(* Neither the files nor the state change, nor the place of the thread     *)
(* that is writing them.                                                   *)
LEMMA DurabilityFrame ==
    ASSUME DurabilityOK, UNCHANGED <<st, current, files, durable, revision>>,
           st = "Initializing" => pc'["initializer"] = pc["initializer"],
           st = "Updating" => pc'[current] = pc[current]
    PROVE  DurabilityOK'
  BY Zenon DEF DurabilityOK, files, durable

(* The initializer writes while the session is Initializing.               *)
LEMMA DurabilityInitializer ==
    ASSUME TypeOK, PhaseOK, DurabilityOK, InitializerStep
    PROVE  DurabilityOK'
  <1> USE ThreadFacts DEF TypeOK, ThreadTypes, Goto, lifecycle, files, durable, updating
  <1>1. pc["initializer"] \notin {"idle", "done"} \cup CleanupSteps
    BY Zenon DEF InitializerStep, PrepareWorkspace, RunPhases, StartServices,
       SpawnServices, AwaitServices, PreCommit, PersistReady, CommitElection,
       RevokeCommit, InitializerCleanup, CleanupSteps
  <1>2. CASE Over
    <2>1. UNCHANGED st
      BY <1>2, Zenon DEF Over, InitializerStep, PrepareWorkspace, RunPhases,
         StartServices, SpawnServices, AwaitServices, PreCommit, PersistReady,
         CommitElection, RevokeCommit, InitializerCleanup
    <2> QED
      BY <1>2, <2>1, DurabilityOver, Zenon DEF Over
  <1>3. CASE st = "Initializing"
    <2>1. CASE PrepareWorkspace
      BY <1>3, <2>1, Zenon DEF PrepareWorkspace, DurabilityOK
    <2>2. CASE RunPhases
      BY <1>3, <2>2, Zenon DEF RunPhases, DurabilityOK
    <2>3. CASE StartServices
      BY <1>3, <2>3, Zenon DEF StartServices, WriteMetadata, DurabilityOK
    <2>4. CASE SpawnServices
      BY <1>3, <2>4, Zenon DEF SpawnServices, DurabilityOK
    <2>5. CASE AwaitServices
      BY <1>3, <2>5, Zenon DEF AwaitServices, DurabilityOK
    <2>6. CASE PreCommit
      BY <1>3, <2>6, Zenon DEF PreCommit, Elect, DurabilityOK
    <2>7. CASE PersistReady
      BY <1>3, <2>7, Zenon DEF PersistReady, WriteMetadata, DurabilityOK
    <2>8. CASE CommitElection
      BY <1>3, <2>8, Zenon DEF CommitElection, Elect, BecomeReady, DurabilityOK
    <2>9. CASE RevokeCommit
      BY <1>3, <2>9, Zenon DEF RevokeCommit, DurabilityOK
    <2>10. CASE InitializerCleanup
      BY <1>3, <2>10, Zenon DEF InitializerCleanup, Elect, DurabilityOK
    <2> QED
      BY <2>1, <2>2, <2>3, <2>4, <2>5, <2>6, <2>7, <2>8, <2>9, <2>10, Zenon DEF InitializerStep
  <1> QED
    BY <1>1, <1>2, <1>3, Zenon DEF PhaseOK, Engaged

(* The update that runs writes while the session is Updating.              *)
LEMMA DurabilityUpdate ==
    ASSUME TypeOK, PhaseOK, UpdatesOK, DurabilityOK, NEW u \in Updates, UpdateStep(u)
    PROVE  DurabilityOK'
  <1> USE ThreadFacts DEF TypeOK, ThreadTypes, Goto, lifecycle, files, durable, updating
  <1>1. pc[u] \notin {"idle", "done"} \cup CleanupSteps
    BY Zenon DEF UpdateStep, ApplyUpdate, CommitUpdate, RollBack, FinishUpdate,
       FinishUpdateError, UpdateWorkerPanicked, CleanupSteps
  <1>2. CASE Over
    <2>1. UNCHANGED st
      BY <1>2, Zenon DEF Over, UpdateStep, ApplyUpdate, CommitUpdate, RollBack,
         FinishUpdate, FinishUpdateError, UpdateWorkerPanicked
    <2> QED
      BY <1>2, <2>1, DurabilityOver, Zenon DEF Over
  <1>3. CASE st = "Updating" /\ current = u
    <2>0. req[u].base = revision /\ revision \in Nat /\ registered
      BY <1>3 DEF StorageTypes, UpdatesOK, PhaseOK, Live
    <2>1. CASE ApplyUpdate(u)
      BY <1>3, <2>1 DEF ApplyUpdate, DurabilityOK
    <2>2. CASE CommitUpdate(u)
      BY <1>3, <2>0, <2>2, Zenon DEF CommitUpdate, WriteMetadata, DurabilityOK
    <2>3. CASE RollBack(u)
      BY <1>3, <2>3, Zenon DEF RollBack, DurabilityOK
    <2>4. CASE FinishUpdate(u)
      BY <1>3, <2>0, <2>4, Zenon DEF FinishUpdate, BecomeReady, Elect, DurabilityOK
    <2>5. CASE FinishUpdateError(u)
      BY <1>3, <2>5, Zenon DEF FinishUpdateError, BecomeReady, Elect, DurabilityOK
    <2>6. CASE UpdateWorkerPanicked(u)
      BY <1>3, <2>0, <2>6, Zenon DEF UpdateWorkerPanicked, Elect, DurabilityOK
    <2> QED
      BY <2>1, <2>2, <2>3, <2>4, <2>5, <2>6, Zenon DEF UpdateStep
  <1> QED
    BY <1>1, <1>2, <1>3, Zenon DEF PhaseOK, Engaged

(* What is on disk keeps up with the session's state.                      *)
LEMMA DurabilityStep ==
    ASSUME TypeOK, PhaseOK, UpdatesOK, DurabilityOK, [Next]_vars
    PROVE  DurabilityOK'
  <1> USE ThreadFacts DEF TypeOK, ThreadTypes, Goto, lifecycle, files, durable, updating
  <1>1. CASE Reserve
    BY <1>1, Zenon DEF Reserve, DurabilityOK, PhaseOK
  <1>2. CASE BeginInitialization
    <2>1. CASE Over'
      BY <2>1, DurabilityOver, Zenon
    <2>2. CASE UNCHANGED lifecycle
      BY <1>2, <2>2, DurabilityFrame, DistinctThreads, Zenon
         DEF BeginInitialization, PhaseOK
    <2>3. CASE st = "Initializing" /\ pc'["initializer"] = "prepare" /\ UNCHANGED st
      BY <1>2, <2>3, Zenon DEF BeginInitialization, DurabilityOK
    <2> QED
      BY <1>2, <2>1, <2>2, <2>3, Zenon DEF BeginInitialization, Elect, Over
  <1>3. ASSUME NEW a \in Actions, StartAction(a) PROVE DurabilityOK'
    BY <1>3, Zenon DEF StartAction, DurabilityOK
  <1>4. ASSUME NEW a \in Actions, AcknowledgeDelivery(a) PROVE DurabilityOK'
    BY <1>4, DurabilityFrame, Zenon DEF AcknowledgeDelivery, ActionCanPublish, BecomeReady,
       Elect, DurabilityOK
  <1>5. ASSUME NEW u \in Updates, RetryUpdate(u) \/ StartUpdate(u) PROVE DurabilityOK'
    BY <1>5 DEF RetryUpdate, StartUpdate, DurabilityOK
  <1>6. ASSUME NEW t \in Threads, Cleanup(t) PROVE DurabilityOK'
    <2>1. Cleaning(t) /\ (UNCHANGED st \/ st' = "Terminated")
      BY <1>6, Zenon DEF Cleanup, TakeServices, StopServices, Teardown,
         CollectFinalArtifacts, RemoveWorkspace, RemoveMetadata, Unregister,
         ReleasePermit, BecomeTerminated, Cleaning, CleanupSteps
    <2> QED
      BY <2>1, DurabilityOver, Zenon DEF PhaseOK, Over
  <1>7. ASSUME NEW t \in Threads, NEW e \in BOOLEAN, NEW o \in Owners, Elect(t, e, o)
        PROVE  DurabilityOK'
    BY <1>7, DurabilityOver, Zenon DEF Elect, Over
  <1>8. CASE UNCHANGED <<lifecycle, files, durable, revision, pc>>
    BY <1>8, DurabilityFrame, Zenon
  <1>9. ASSUME UNCHANGED <<lifecycle, files, durable, revision>>, NEW t \in Bystanders,
               NEW l \in Labels, Goto(t, l)
        PROVE  DurabilityOK'
    BY <1>9, DurabilityFrame, DistinctThreads, Zenon DEF PhaseOK, Bystanders, System, Threads
  <1> QED
    <2> HIDE DEF DurabilityOK, Goto, lifecycle, files, durable
    <2> QED
      BY DurabilityMoves, DurabilityInitializer, DurabilityUpdate, <1>1, <1>2, <1>3,
         <1>4,
         <1>5, <1>6, <1>7, <1>8, <1>9, Zenon

(***************************************************************************)
(* Stops.                                                                  *)
(***************************************************************************)
(* Only a stop request makes its own thread leave "idle" and termination   *)
(* explicit, and only cleanup for an explicit stop collects an archive.    *)
LEMMA StopsMoves ==
    ASSUME [Next]_vars
    PROVE  /\ \/ \E k \in Stops : Stop(k)
              \/ UNCHANGED <<winner, explicit>>
              \/ st \in Live /\ \E t \in Threads, o \in Owners : Elect(t, FALSE, o)
           /\ finalArchive' => finalArchive \/ explicit
           /\ (\E k \in Stops : Stop(k)) => UNCHANGED <<finalArchive, outcome>>
  <1>1. \/ \E k \in Stops : Stop(k)
        \/ UNCHANGED <<winner, explicit>>
        \/ st \in Live /\ \E t \in Threads, o \in Owners : Elect(t, FALSE, o)
    BY ThreadFacts, LifecycleFacts, ZenonT(60) DEF BecomeReady, Preempt, lifecycle,
       vars, Next, DeadlinePasses, IdlePeriodPasses, Reserve, Disconnect,
       InitializationCancelled, ServiceExits, ServiceFailed, ExpireLifetime,
       IdleTimerWakes, ExpireIdle, StopCompletes, StartAction, OutputCancels, SendAck,
       RetryUpdate, StartUpdate, UploadStep, CancelUpload, UploadHandlerDropped,
       BeginInitialization, InitializerStep, PrepareWorkspace, RunPhases,
       StartServices, SpawnServices, AwaitServices, PreCommit, PersistReady,
       CommitElection, RevokeCommit, InitializerCleanup, WorkerStep, ActionRuns,
       SnapshotArtifacts, PublishCheck, EnqueueFinal, AwaitAck, DiscardArchive,
       FinishAction, StreamStep, ConsumeFinal, AcknowledgeDelivery, DisconnectAction,
       UpdateStep, ApplyUpdate, CommitUpdate, RollBack, FinishUpdate,
       FinishUpdateError, UpdateWorkerPanicked, Cleanup, TakeServices, StopServices,
       Teardown, CollectFinalArtifacts, RemoveWorkspace, RemoveMetadata, Unregister,
       ReleasePermit, BecomeTerminated
  <1>2. finalArchive' => finalArchive \/ explicit
    BY ZenonT(60) DEF results, vars, Next, DeadlinePasses, IdlePeriodPasses, Reserve,
       Disconnect, InitializationCancelled, ServiceExits, ServiceFailed,
       ExpireLifetime, IdleTimerWakes, ExpireIdle, Stop, StopCompletes, StartAction,
       OutputCancels, SendAck, RetryUpdate, StartUpdate, UploadStep, CancelUpload,
       UploadHandlerDropped, BeginInitialization, InitializerStep, PrepareWorkspace,
       RunPhases, StartServices, SpawnServices, AwaitServices, PreCommit,
       PersistReady, CommitElection, RevokeCommit, InitializerCleanup, WorkerStep,
       ActionRuns, SnapshotArtifacts, PublishCheck, EnqueueFinal, AwaitAck,
       DiscardArchive, FinishAction, StreamStep, ConsumeFinal, AcknowledgeDelivery,
       DisconnectAction, UpdateStep, ApplyUpdate, CommitUpdate, RollBack,
       FinishUpdate, FinishUpdateError, UpdateWorkerPanicked, Cleanup, TakeServices,
       StopServices, Teardown, CollectFinalArtifacts, RemoveWorkspace, RemoveMetadata,
       Unregister, ReleasePermit, BecomeTerminated
  <1> QED
    BY <1>1, <1>2, Zenon DEF Stop, results

(* A thread that moves was not an idle stop, unless it is a stop request.  *)
LEMMA StopLabelMoves ==
    ASSUME TypeOK, [Next]_vars, NEW k \in Stops, pc[k] = "idle"
    PROVE  pc'[k] = "idle" \/ Stop(k)
  <1> USE ThreadFacts, DistinctThreads DEF TypeOK, ThreadTypes
  <1>1. \/ Stop(k) \/ UNCHANGED pc \/ Reserve \/ BeginInitialization
        \/ \E t \in Threads : TakeServices(t)
        \/ \E t \in Threads \ {k}, l \in Labels : Goto(t, l)
    <2>1. /\ \A t \in {"upload", "startStream", "initializer", "service", "lifetime", "idle"} :
                 t \in Threads \ {k}
          /\ Actions \subseteq Threads \ {k} /\ Updates \subseteq Threads \ {k}
          /\ \A t \in Threads : pc[t] # "idle" => t \in Threads \ {k}
      OBVIOUS
    <2> QED
      BY <2>1, LabelFacts, ZenonT(60) DEF WriteMetadata, Preempt, vars, Next,
         DeadlinePasses, IdlePeriodPasses, Disconnect, InitializationCancelled,
         ServiceExits, ServiceFailed, ExpireLifetime, IdleTimerWakes, ExpireIdle,
         Stop, StopCompletes, StartAction, OutputCancels, SendAck, RetryUpdate,
         StartUpdate, UploadStep, CancelUpload, UploadHandlerDropped, InitializerStep,
         PrepareWorkspace, RunPhases, StartServices, SpawnServices, AwaitServices,
         PreCommit, PersistReady, CommitElection, RevokeCommit, InitializerCleanup,
         WorkerStep, ActionRuns, SnapshotArtifacts, PublishCheck, EnqueueFinal,
         AwaitAck, DiscardArchive, FinishAction, StreamStep, ConsumeFinal,
         AcknowledgeDelivery, DisconnectAction, UpdateStep, ApplyUpdate, CommitUpdate,
         RollBack, FinishUpdate, FinishUpdateError, UpdateWorkerPanicked, Cleanup,
         StopServices, Teardown, CollectFinalArtifacts, RemoveWorkspace,
         RemoveMetadata, Unregister, ReleasePermit, BecomeTerminated
  <1>2. CASE Reserve \/ BeginInitialization
    BY <1>2, Zenon DEF Reserve, BeginInitialization, Goto
  <1>3. CASE \E t \in Threads : TakeServices(t)
    BY <1>3, Zenon DEF TakeServices
  <1>4. CASE \E t \in Threads \ {k}, l \in Labels : Goto(t, l)
    BY <1>4, Zenon DEF Goto
  <1> QED
    BY <1>1, <1>2, <1>3, <1>4, Zenon

(* A stop is answered with success only by the election it won.            *)
LEMMA StopsStep ==
    ASSUME TypeOK, PhaseOK, StopsOK, [Next]_vars
    PROVE  StopsOK'
  <1> USE DEF TypeOK, ThreadTypes
  <1>1. st \in Live => winner = "none"
    BY Zenon DEF PhaseOK, Over, Live
  <1>2. \A k \in Stops : outcome'[k] = "ok" => outcome[k] = "ok" \/ pc[k] # "idle"
    <2>1. \/ UNCHANGED outcome
          \/ \E t \in Stops : outcome' = [outcome EXCEPT ![t] = "ok"] /\ pc[t] # "idle"
          \/ \E u \in Updates, r \in Outcomes : outcome' = [outcome EXCEPT ![u] = r]
      BY OutcomeMoves, Zenon DEF RetryUpdate, FinishUpdate, Outcomes
    <2> QED
      BY <2>1, DistinctThreads, Zenon
  <1>3. ASSUME NEW k \in Stops, Stop(k) PROVE StopsOK'
    <2>1. st \in Live /\ Elect(k, TRUE, ActiveOwner) /\ \E l \in Labels : Goto(k, l)
      BY <1>3, LabelFacts, Zenon DEF Stop, Preempt
    <2> QED
      BY <1>1, <1>3, <2>1, StopsMoves, ThreadFacts, DistinctThreads, Zenon
         DEF StopsOK, Elect, Goto
  <1>4. CASE ~\E k \in Stops : Stop(k)
    <2>1. \A k \in Stops : pc'[k] # "idle" => pc[k] # "idle"
      BY <1>4, StopLabelMoves, Zenon
    <2>2. CASE UNCHANGED <<winner, explicit>>
      BY <1>2, <2>1, <2>2, StopsMoves, Zenon DEF StopsOK
    <2>3. ASSUME st \in Live, NEW t \in Threads, NEW o \in Owners, Elect(t, FALSE, o)
          PROVE  StopsOK'
      <3>1. /\ \A k \in Stops : pc[k] = "idle" /\ outcome[k] # "ok"
            /\ ~explicit /\ ~finalArchive
        BY <1>1, <2>3, DistinctThreads, Zenon DEF StopsOK
      <3> QED
        BY <3>1, <1>2, <2>1, <2>3, StopsMoves, Zenon DEF StopsOK, Elect
    <2> QED
      BY <1>4, <2>2, <2>3, StopsMoves, Zenon
  <1> QED
    BY <1>3, <1>4, Zenon

(***************************************************************************)
(* The theorems.                                                           *)
(***************************************************************************)
(* Everything proved so far is preserved together.                         *)
Sound == /\ TypeOK /\ LabelsOK /\ DeliveryOK /\ PhaseOK
         /\ ServicesOK /\ DurabilityOK /\ UpdatesOK /\ StopsOK

(* The initial state is sound.                                             *)
LEMMA SoundInit == Init => Sound
  <1> SUFFICES ASSUME Init PROVE Sound
    OBVIOUS
  <1>1. ServicesOK
    BY ThreadFacts, Zenon DEF Init, ServicesOK
  <1>2. DurabilityOK
    BY Zenon DEF Init, DurabilityOK
  <1>3. UpdatesOK
    BY Zenon DEF Init, UpdatesOK
  <1>4. StopsOK
    BY ThreadFacts, Zenon DEF Init, StopsOK
  <1> QED
    BY <1>1, <1>2, <1>3, <1>4, TypeInit, PhaseInit, Zenon DEF Sound

(* Every step keeps it sound.                                              *)
LEMMA SoundStep == Sound /\ [Next]_vars => Sound'
  BY TypeStep, DeliveryStep, PhaseStep, ServicesStep, DurabilityStep, UpdatesStep,
     StopsStep, Zenon DEF Sound

(* The session is sound in every behaviour.                                *)
THEOREM SoundCorrect == Spec => []Sound
  BY SoundInit, SoundStep, PTL DEF Spec

(* A session that accepts or runs actions has its workspace whole, its     *)
(* metadata committed at the revision held in memory, its registration and *)
(* its permit, whatever interleaving of timers, stops, updates, failures   *)
(* and disconnects led there.                                              *)
THEOREM ReadyDurable == Spec => []ReadyIsDurable
  <1>1. Sound => ReadyIsDurable
    BY Zenon DEF Sound, DurabilityOK, PhaseOK, Live, ReadyIsDurable
  <1> QED
    BY <1>1, SoundCorrect, PTL

(* Only the stop that elected termination is answered with success, and    *)
(* final artifacts are only collected for it.                              *)
THEOREM ExplicitStop == Spec => []ExplicitStopWins
  <1>1. Sound => ExplicitStopWins
    BY Zenon DEF Sound, StopsOK, ExplicitStopWins
  <1> QED
    BY <1>1, SoundCorrect, PTL

(* An update request is applied at most once, however often it is sent,    *)
(* and is only answered with success if it was.                            *)
THEOREM UpdateOnce == Spec => []UpdateAppliedOnce
  <1>1. Sound => UpdateAppliedOnce
    BY DEF Sound, UpdatesOK, UpdateAppliedOnce
  <1> QED
    BY <1>1, SoundCorrect, PTL

-----------------------------------------------------------------------------
(***************************************************************************)
(* Cleanup is owned by one thread and runs once, as long as no worker      *)
(* abandons an acknowledged delivery.                                      *)
(***************************************************************************)
(* What the cleanup consumes.                                              *)
held == <<services, teardowns, registered, permit>>

(* Neither running nor finished cleaning up.                               *)
Outside(t) == pc[t] \notin CleanupSteps \cup {"done"}

(* The premises every lemma below starts from.                             *)
Known == TypeOK /\ PhaseOK /\ NoLateAbandon /\ SoleOwner

(***************************************************************************)
(* The five ways in which a step can touch the ownership of cleanup.       *)
(***************************************************************************)
(* Nothing the owner depends on changes.                                   *)
LEMMA Untouched ==
    ASSUME Known, UNCHANGED <<lifecycle, held, pc>>
    PROVE  SoleOwner'
  BY Zenon DEF Known, SoleOwner, OwnerState, Designee, Over, Cleaning, lifecycle, held

(* A thread moves on outside the cleanup, and it is not the owner if that  *)
(* ends its operation.                                                     *)
LEMMA MovesOn ==
    ASSUME Known, UNCHANGED <<lifecycle, held>>,
           NEW t \in Threads, NEW l, Goto(t, l), l \notin CleanupSteps,
           Over => Outside(t),
           Over /\ l \in {"idle", "done"} => t # Designee
    PROVE  SoleOwner'
  <1> USE DEF Known, TypeOK, ThreadTypes, Goto, Over, Cleaning, Designee, lifecycle,
     held, Outside
  <1>1. \A p \in Threads : Cleaning(p)' => Cleaning(p)
    OBVIOUS
  <1>2. Designee' = Designee
    OBVIOUS
  <1>3. CASE ~Over
    BY <1>1, <1>2, <1>3, Zenon DEF SoleOwner
  <1>4. CASE Over /\ t # Designee
    BY <1>1, <1>2, <1>4 DEF SoleOwner, OwnerState
  <1>5. CASE Over /\ t = Designee
    BY <1>1, <1>2, <1>5, Zenon DEF SoleOwner, OwnerState, AfterStopping, AfterTeardown,
       CleanupSteps
  <1> QED
    BY <1>3, <1>4, <1>5, Zenon

(* The session stays live: nobody cleans up.                               *)
LEMMA StaysLive ==
    ASSUME Known, ~Over, ~Over', UNCHANGED <<services, teardowns>>,
           \A p \in Threads : pc'[p] \in CleanupSteps => pc[p] \in CleanupSteps
    PROVE  SoleOwner'
  BY Zenon DEF Known, PhaseOK, SoleOwner, Cleaning

(* Termination is elected and names a thread that is in its operation or   *)
(* enters the cleanup in the same step.                                    *)
LEMMA Elected ==
    ASSUME Known, ~Over, st' = "Terminating", UNCHANGED held, st # "Absent",
           owner' \in {"Initializer", "Action", "Update", "Requester"},
           owner' = "Action" => current' \in Actions,
           owner' = "Update" => current' \in Updates,
           LET at == pc'[Designee'] IN
               /\ at \notin {"idle", "done"} \cup (CleanupSteps \ {"services"})
               /\ owner' = "Requester" => at = "services",
           \A p \in Threads : pc'[p] \in CleanupSteps => p = Designee' \/ pc[p] \in CleanupSteps
    PROVE  SoleOwner'
  <1>1. \A p \in Threads : pc[p] \notin CleanupSteps
    BY Zenon DEF Known, PhaseOK, Cleaning
  <1>2. teardowns = 0 /\ services \notin {"stopping", "stopped"} /\ permit /\ registered
    BY Zenon DEF Known, SoleOwner, PhaseOK, Over, TypeOK, LifecycleTypes
  <1>3. OwnerState(pc[Designee])'
    BY <1>2, Zenon DEF OwnerState, held, AfterStopping, AfterTeardown, CleanupSteps
  <1> QED
    BY <1>1, <1>3, Zenon DEF SoleOwner, Over, Cleaning, CleanupSteps

(* The owner, done with its operation, enters the cleanup.                 *)
LEMMA EntersCleanup ==
    ASSUME Known, Over, UNCHANGED <<lifecycle, held>>, Outside(Designee),
           Designee \in Threads, Goto(Designee, "services")
    PROVE  SoleOwner'
  <1>1. Designee' = Designee /\ (Over <=> Over')
    BY Zenon DEF Designee, Over, lifecycle
  <1>2. /\ \A p \in Threads : p # Designee => pc'[p] = pc[p]
        /\ pc'[Designee] = "services"
    BY Zenon DEF Known, TypeOK, ThreadTypes, Goto
  <1>3. /\ teardowns = 0 /\ services # "stopping" /\ permit
        /\ registered /\ st # "Terminated"
    BY Zenon DEF Known, SoleOwner, OwnerState, Outside, AfterTeardown, AfterStopping,
       CleanupSteps
  <1>4. OwnerState(pc[Designee])'
    BY <1>1, <1>2, <1>3, Zenon DEF OwnerState, held, lifecycle, AfterStopping, AfterTeardown,
       CleanupSteps
  <1> QED
    BY <1>1, <1>2, <1>4, Zenon DEF Known, SoleOwner, Cleaning, lifecycle, CleanupSteps

(* The owner advances within the cleanup.                                  *)
LEMMA OwnerAdvances ==
    ASSUME Known, NEW t \in Threads, Cleaning(t), Over', UNCHANGED <<current, owner, winner>>,
           \A p \in Threads : p # t => pc'[p] = pc[p] \/ pc'[p] \notin CleanupSteps,
           pc'[t] \in CleanupSteps \cup {"done"},
           OwnerState(pc[t]) => OwnerState(pc[t])'
    PROVE  SoleOwner'
  <1>1. Over /\ t = Designee /\ Designee' = Designee
    BY Zenon DEF Known, PhaseOK, SoleOwner, Designee
  <1> QED
    BY <1>1, Zenon DEF Known, SoleOwner, Cleaning, CleanupSteps

(* Services start or fail while their cleanup has not begun.               *)
LEMMA ServicesChange ==
    ASSUME Known, UNCHANGED <<lifecycle, teardowns, registered, permit>>,
           services # "stopping", services' \notin {"stopping", "stopped"},
           NEW t \in Threads, NEW l, Goto(t, l), l \notin CleanupSteps \cup {"idle", "done"},
           Over => Outside(t) /\ pc[Designee] \notin AfterStopping \cup {"done"}
    PROVE  SoleOwner'
  <1> USE DEF Known, TypeOK, ThreadTypes, Goto, Over, Cleaning, Designee, lifecycle,
     Outside
  <1>1. \A p \in Threads : Cleaning(p)' => Cleaning(p)
    OBVIOUS
  <1>2. Designee' = Designee
    OBVIOUS
  <1>3. CASE ~Over
    BY <1>1, <1>2, <1>3, Zenon DEF SoleOwner
  <1>4. CASE Over /\ t # Designee
    BY <1>1, <1>2, <1>4 DEF SoleOwner, OwnerState
  <1>5. CASE Over /\ t = Designee
    BY <1>1, <1>2, <1>5, Zenon DEF SoleOwner, OwnerState, AfterStopping, AfterTeardown,
       CleanupSteps
  <1> QED
    BY <1>3, <1>4, <1>5, Zenon

(* Who can be the owner once termination is elected.                       *)
LEMMA DesigneeFacts ==
    ASSUME Known, LabelsOK
    PROVE  /\ Over => Designee \in Threads
           /\ Over /\ Engaged("initializer") => Designee = "initializer"
           /\ \A u \in Updates : Over /\ Engaged(u) => Designee = u
           /\ \A a \in Actions : Over /\ Engaged(a) => Designee = a \/ Acknowledged(a)
           /\ \A t \in Threads \ (Operations \cup {"initializer"}) :
                  Over /\ Outside(t) => Designee # t
  <1> USE DEF Known, Over, Designee
  <1>1. Over => Designee \in Threads
    BY ThreadFacts, Zenon DEF SoleOwner, TypeOK, LifecycleTypes, PhaseOK
  <1>2. Over /\ Engaged("initializer") => Designee = "initializer"
    BY Zenon DEF PhaseOK
  <1>3. \A u \in Updates : Over /\ Engaged(u) => Designee = u
    BY Zenon DEF PhaseOK
  <1>4. \A a \in Actions : Over /\ Engaged(a) => Designee = a \/ Acknowledged(a)
    BY Zenon DEF PhaseOK, LateAbandon
  <1>5. \A t \in Threads \ (Operations \cup {"initializer"}) :
            Over /\ Outside(t) => Designee # t
    BY ThreadFacts, Zenon DEF SoleOwner, Outside
  <1> QED
    BY <1>1, <1>2, <1>3, <1>4, <1>5, Zenon

(* A stop or the lifetime timer terminates a live session.                 *)
LEMMA Preempted ==
    ASSUME Known, NEW t \in Threads \ (Operations \cup {"initializer"}), NEW e, NEW l,
           Preempt(t, e, l), l \notin CleanupSteps, UNCHANGED held
    PROVE  SoleOwner'
  <1> USE DEF Known, TypeOK, ThreadTypes
  <1>1. /\ st \in Live /\ ~Over /\ st' = "Terminating" /\ st # "Absent"
        /\ owner' = ActiveOwner /\ winner' = t /\ current' = current
        /\ Goto(t, IF ActiveOwner = "Requester" THEN "services" ELSE l)
    BY Zenon DEF Preempt, Elect, Live, Over
  <1>2. CASE st = "Initializing" /\ started
    <2>1. ActiveOwner = "Initializer"
      BY <1>2, Zenon DEF ActiveOwner
    <2>2. Engaged("initializer")
      BY <1>2, Zenon DEF PhaseOK
    <2> QED
      BY <1>1, <2>1, <2>2, Elected, ThreadFacts, Zenon DEF Goto, Designee, Engaged
  <1>3. CASE st \in {"Action", "Updating"}
    <2>1. /\ ActiveOwner = IF st = "Action" THEN "Action" ELSE "Update"
          /\ current \in IF st = "Action" THEN Actions ELSE Updates
          /\ Engaged(current)
      BY <1>3, Zenon DEF ActiveOwner, PhaseOK
    <2>2. current \in Threads /\ current # t
      BY <1>3, <2>1, ThreadFacts, Zenon DEF Operations
    <2> QED
      BY <1>1, <1>3, <2>1, <2>2, Elected, Zenon DEF Goto, Designee, Engaged
  <1>4. CASE st = "Ready" \/ (st = "Initializing" /\ ~started)
    <2>1. ActiveOwner = "Requester"
      BY <1>4, Zenon DEF ActiveOwner
    <2> QED
      BY <1>1, <2>1, Elected, Zenon DEF Goto, Designee, CleanupSteps
  <1> QED
    BY <1>1, <1>2, <1>3, <1>4, Zenon DEF Live

(* Until its owner has cleaned up, the session is Terminating and can be   *)
(* looked up.                                                              *)
LEMMA NotYetTerminated ==
    ASSUME Known, Over, Outside(Designee)
    PROVE  st = "Terminating" /\ registered
  BY Zenon DEF Known, SoleOwner, OwnerState, Outside, Over, CleanupSteps, TypeOK, FlagTypes

(* A thread moves on within its operation.                                 *)
Within(t, l) ==
    /\ Goto(t, l) /\ l \notin CleanupSteps \cup {"idle", "done"}
    /\ Over => Outside(t)

(* A timer, callback or request that is not cleaning up returns.           *)
Returns(t) ==
    /\ Outside(t) /\ \E l \in {"idle", "done"} : Goto(t, l)
    /\ t \in Threads \ (Operations \cup {"initializer"})

(* Most steps touch neither the lifecycle nor what the cleanup consumes.   *)
LEMMA OwnershipMoves ==
    ASSUME [Next]_vars
    PROVE  \/ UNCHANGED <<lifecycle, held, pc>>
           \/ UNCHANGED <<lifecycle, held>> /\ \E t \in Threads, l \in Labels : Within(t, l)
           \/ UNCHANGED <<lifecycle, held>> /\ \E t \in Threads : Returns(t)
           \/ Reserve \/ CancelUpload \/ BeginInitialization \/ Disconnect
           \/ SpawnServices \/ PreCommit \/ CommitElection \/ InitializerCleanup
           \/ ServiceExits \/ ServiceFailed \/ ExpireLifetime \/ ExpireIdle
           \/ \E k \in Stops : Stop(k)
           \/ \E a \in Actions : \/ StartAction(a) \/ AwaitAck(a) \/ FinishAction(a)
                                 \/ AcknowledgeDelivery(a) \/ DisconnectAction(a)
           \/ \E u \in Updates : \/ RetryUpdate(u) \/ StartUpdate(u) \/ FinishUpdate(u)
                                 \/ FinishUpdateError(u) \/ UpdateWorkerPanicked(u)
           \/ \E t \in Threads : Cleanup(t)
  <1> USE ThreadFacts, LabelFacts, ZenonT(60) DEF Within, Outside, held, admission, svc,
     results, CleanupSteps
  <1>1. ASSUME PrepareWorkspace \/ RunPhases \/ StartServices \/ AwaitServices
               \/ PersistReady \/ RevokeCommit
        PROVE  UNCHANGED <<lifecycle, held>> /\ \E t \in Threads, l \in Labels : Within(t, l)
    BY <1>1, Zenon DEF PrepareWorkspace, RunPhases, StartServices, AwaitServices, PersistReady,
       RevokeCommit, WriteMetadata
  <1>2. ASSUME NEW a \in Actions, \/ ActionRuns(a) \/ SnapshotArtifacts(a) \/ PublishCheck(a)
                                  \/ EnqueueFinal(a) \/ DiscardArchive(a)
        PROVE  UNCHANGED <<lifecycle, held>> /\ \E t \in Threads, l \in Labels : Within(t, l)
    BY <1>2, Zenon DEF ActionRuns, SnapshotArtifacts, PublishCheck, EnqueueFinal,
       DiscardArchive
  <1>3. ASSUME NEW u \in Updates, ApplyUpdate(u) \/ CommitUpdate(u) \/ RollBack(u)
        PROVE  UNCHANGED <<lifecycle, held>> /\ \E t \in Threads, l \in Labels : Within(t, l)
    BY <1>3, Zenon DEF ApplyUpdate, CommitUpdate, RollBack, WriteMetadata
  <1>4. ASSUME IdleTimerWakes
        PROVE  \/ UNCHANGED <<lifecycle, held, pc>>
               \/ UNCHANGED <<lifecycle, held>> /\ \E t \in Threads, l \in Labels : Within(t, l)
    BY <1>4, Zenon DEF IdleTimerWakes, Over
  <1>5. /\ "upload" \in Threads \ (Operations \cup {"initializer"})
        /\ Stops \subseteq Threads \ (Operations \cup {"initializer"})
    BY DistinctThreads, SMT DEF Operations
  <1>6. ASSUME UploadHandlerDropped PROVE UNCHANGED <<lifecycle, held>> /\ Returns("upload")
    BY <1>5, <1>6, Zenon DEF UploadHandlerDropped, Returns
  <1>7. ASSUME NEW k \in Stops, StopCompletes(k)
        PROVE  UNCHANGED <<lifecycle, held>> /\ Returns(k)
    BY <1>5, <1>7, Zenon DEF StopCompletes, Returns
  <1> HIDE DEF Within, Outside, CleanupSteps
  <1> QED
    BY <1>1, <1>2, <1>3, <1>4, <1>6, <1>7, Zenon DEF Next, vars, DeadlinePasses,
       IdlePeriodPasses, UploadStep, InitializationCancelled, InitializerStep,
       OutputCancels, WorkerStep, StreamStep, ConsumeFinal, SendAck, UpdateStep

(* The owner runs cleanup_entry from one end to the other.                 *)
LEMMA CleanupAdvances ==
    ASSUME Known, NEW t \in Threads, Cleanup(t)
    PROVE  SoleOwner'
  <1>1. /\ Cleaning(t) /\ UNCHANGED <<current, owner, winner>>
        /\ UNCHANGED st \/ st' = "Terminated"
    BY Zenon DEF Cleanup, TakeServices, StopServices, Teardown, CollectFinalArtifacts,
       RemoveWorkspace, RemoveMetadata, Unregister, ReleasePermit, BecomeTerminated,
       Cleaning, CleanupSteps, lifecycle
  <1>2. \/ TakeServices(t)
        \/ \E l \in CleanupSteps \cup {"done"} : Goto(t, l)
    BY Zenon DEF Cleanup, StopServices, Teardown, CollectFinalArtifacts,
       RemoveWorkspace, RemoveMetadata, Unregister, ReleasePermit, BecomeTerminated,
       CleanupSteps
  <1>3. /\ \A p \in Threads : p # t => pc'[p] = pc[p] \/ pc'[p] \notin CleanupSteps
        /\ pc'[t] \in CleanupSteps \cup {"done"}
    BY <1>2, Zenon DEF TakeServices, Goto, Known, TypeOK, ThreadTypes, CleanupSteps
  <1>4. OwnerState(pc[t]) => OwnerState(pc[t])'
    <2> USE DEF OwnerState, AfterStopping, AfterTeardown, CleanupSteps, lifecycle,
       admission, svc, results, Goto, Known, TypeOK, ThreadTypes
    <2>1. CASE TakeServices(t)
      BY <2>1, Zenon DEF TakeServices
    <2>2. CASE StopServices(t)
      BY <2>2, Zenon DEF StopServices
    <2>3. CASE Teardown(t)
      BY <2>3 DEF Teardown
    <2>4. CASE CollectFinalArtifacts(t)
      BY <2>4, Zenon DEF CollectFinalArtifacts
    <2>5. CASE RemoveWorkspace(t)
      BY <2>5, Zenon DEF RemoveWorkspace
    <2>6. CASE RemoveMetadata(t)
      BY <2>6, Zenon DEF RemoveMetadata
    <2>7. CASE Unregister(t)
      BY <2>7, Zenon DEF Unregister
    <2>8. CASE ReleasePermit(t)
      BY <2>8, Zenon DEF ReleasePermit
    <2>9. CASE BecomeTerminated(t)
      BY <2>9, Zenon DEF BecomeTerminated
    <2> QED
      BY <2>1, <2>2, <2>3, <2>4, <2>5, <2>6, <2>7, <2>8, <2>9, Zenon DEF Cleanup
  <1>5. Over'
    BY <1>1, Zenon DEF Known, PhaseOK, Over
  <1> QED
    BY <1>1, <1>3, <1>4, <1>5, OwnerAdvances, Zenon

(* Every step leaves the cleanup with one owner.                           *)
LEMMA OwnershipStep ==
    ASSUME Known, LabelsOK, DeliveryOK, ServicesOK, NoLateAbandon', [Next]_vars
    PROVE  SoleOwner'
  <1> USE DEF held, admission, svc, results
  <1>1. CASE UNCHANGED <<lifecycle, held, pc>>
    BY <1>1, Untouched, Zenon
  <1>2. ASSUME UNCHANGED <<lifecycle, held>>, NEW t \in Threads, NEW l \in Labels, Within(t, l)
        PROVE  SoleOwner'
    BY <1>2, MovesOn, Zenon DEF Within
  <1>3. ASSUME UNCHANGED <<lifecycle, held>>, NEW t \in Threads, Returns(t) PROVE SoleOwner'
    BY <1>3, MovesOn, DesigneeFacts, Zenon DEF Returns, CleanupSteps
  <1>4. CASE Reserve
    BY <1>4, StaysLive, ThreadFacts, Zenon
       DEF Reserve, Known, TypeOK, ThreadTypes, Over, Goto, CleanupSteps
  <1>5. CASE CancelUpload
    <2>1. UNCHANGED held /\ pc["upload"] = "uploading"
      BY <1>5, Zenon DEF CancelUpload
    <2>2. CASE /\ st = "Initializing" /\ Elect("upload", FALSE, "Requester")
               /\ Goto("upload", "services")
      BY <2>1, <2>2, Elected, ThreadFacts, Zenon
         DEF Elect, Goto, Designee, Known, TypeOK, ThreadTypes, Over, CleanupSteps
    <2>3. CASE Goto("upload", "done") /\ UNCHANGED lifecycle
      <3>1. Over => "upload" # Designee
        BY <2>1, DesigneeFacts, ThreadFacts, DistinctThreads, Zenon DEF Outside,
           CleanupSteps, Operations
      <3> QED
        BY <2>1, <2>3, <3>1, MovesOn, ThreadFacts, Zenon DEF Outside, CleanupSteps
    <2> QED
      BY <1>5, <2>2, <2>3, Zenon DEF CancelUpload
  <1>6. CASE BeginInitialization
    <2>1. UNCHANGED held /\ pc["upload"] = "uploading"
      BY <1>6, Zenon DEF BeginInitialization
    <2>2. CASE /\ st = "Initializing" /\ UNCHANGED st
               /\ pc' = [pc EXCEPT !["upload"] = "done", !["initializer"] = "prepare",
                                   !["startStream"] = "open"]
      BY <2>1, <2>2, StaysLive, ThreadFacts, Zenon DEF Known, TypeOK, ThreadTypes, Over,
         CleanupSteps
    <2>3. CASE /\ st = "Initializing" /\ Elect("upload", FALSE, "Requester")
               /\ Goto("upload", "services")
      BY <2>1, <2>3, Elected, ThreadFacts, Zenon
         DEF Elect, Goto, Designee, Known, TypeOK, ThreadTypes, Over, CleanupSteps
    <2>4. CASE Goto("upload", "done") /\ UNCHANGED lifecycle
      <3>1. Over => "upload" # Designee
        BY <2>1, DesigneeFacts, ThreadFacts, DistinctThreads, Zenon DEF Outside,
           CleanupSteps, Operations
      <3> QED
        BY <2>1, <2>4, <3>1, MovesOn, ThreadFacts, Zenon DEF Outside, CleanupSteps
    <2> QED
      BY <1>6, <2>2, <2>3, <2>4, Zenon DEF BeginInitialization
  <1>7. CASE Disconnect
    <2>1. UNCHANGED held /\ pc["startStream"] = "open"
      BY <1>7, Zenon DEF Disconnect
    <2>2. CASE /\ st = "Initializing" /\ started
               /\ Elect("startStream", FALSE, "Initializer") /\ Goto("startStream", "done")
      <3>1. pc["initializer"] \notin {"idle", "done"} \cup CleanupSteps
        BY <2>2, ThreadFacts, Zenon DEF Known, PhaseOK, Engaged
      <3> QED
        BY <2>1, <2>2, <3>1, Elected, ThreadFacts, Zenon
           DEF Elect, Goto, Designee, Known, TypeOK, ThreadTypes, Over, CleanupSteps
    <2>3. CASE /\ st = "Initializing"
               /\ Elect("startStream", FALSE, "Requester") /\ Goto("startStream", "services")
      BY <2>1, <2>3, Elected, ThreadFacts, Zenon
         DEF Elect, Goto, Designee, Known, TypeOK, ThreadTypes, Over, CleanupSteps
    <2>4. CASE Goto("startStream", "done") /\ UNCHANGED lifecycle
      <3>1. Over => "startStream" # Designee
        BY <2>1, DesigneeFacts, ThreadFacts, DistinctThreads, Zenon DEF Outside,
           CleanupSteps, Operations
      <3> QED
        BY <2>1, <2>4, <3>1, MovesOn, ThreadFacts, Zenon DEF Outside, CleanupSteps
    <2> QED
      BY <1>7, <2>2, <2>3, <2>4, Zenon DEF Disconnect
  <1>8. CASE SpawnServices
    <2>1. /\ pc["initializer"] = "spawnServices" /\ services = "off"
          /\ services' \in {"off", "up"}
          /\ UNCHANGED <<lifecycle, teardowns, registered, permit>>
      BY <1>8, Zenon DEF SpawnServices, ServicesOK
    <2>2. \E l \in {"awaitServices", "cleanup"} : Goto("initializer", l)
      BY <1>8, Zenon DEF SpawnServices
    <2>3. Over => Designee = "initializer"
      BY <2>1, DesigneeFacts, Zenon DEF Engaged, CleanupSteps
    <2> QED
      BY <2>1, <2>2, <2>3, ServicesChange, ThreadFacts, Zenon DEF Outside, AfterStopping,
         CleanupSteps
  <1>9. CASE PreCommit
    <2>1. UNCHANGED held /\ pc["initializer"] = "precommit"
      BY <1>9, Zenon DEF PreCommit
    <2>2. CASE /\ st = "Initializing" /\ Elect("initializer", FALSE, "Initializer")
               /\ Goto("initializer", "cleanup")
      BY <2>1, <2>2, Elected, ThreadFacts, Zenon
         DEF Elect, Goto, Designee, Known, TypeOK, ThreadTypes, Over, CleanupSteps
    <2>3. CASE UNCHANGED lifecycle /\ \E l \in {"persist", "cleanup"} : Goto("initializer", l)
      BY <2>1, <2>3, MovesOn, ThreadFacts, Zenon DEF Outside, CleanupSteps
    <2> QED
      BY <1>9, <2>2, <2>3, Zenon DEF PreCommit
  <1>10. CASE CommitElection
    <2>1. UNCHANGED held /\ pc["initializer"] = "elect"
      BY <1>10, Zenon DEF CommitElection
    <2>2. CASE st = "Initializing" /\ BecomeReady /\ Goto("initializer", "done")
      BY <2>1, <2>2, StaysLive, ThreadFacts, Zenon
         DEF BecomeReady, Goto, Known, TypeOK, ThreadTypes, Over, CleanupSteps
    <2>3. CASE /\ st = "Initializing" /\ Elect("initializer", FALSE, "Initializer")
               /\ Goto("initializer", "revoke")
      BY <2>1, <2>3, Elected, ThreadFacts, Zenon
         DEF Elect, Goto, Designee, Known, TypeOK, ThreadTypes, Over, CleanupSteps
    <2>4. CASE UNCHANGED lifecycle /\ Goto("initializer", "revoke")
      BY <2>1, <2>4, MovesOn, ThreadFacts, Zenon DEF Outside, CleanupSteps
    <2> QED
      BY <1>10, <2>2, <2>3, <2>4, Zenon DEF CommitElection
  <1>11. CASE InitializerCleanup
    <2>1. UNCHANGED held /\ pc["initializer"] = "cleanup"
      BY <1>11, Zenon DEF InitializerCleanup
    <2>2. CASE /\ st = "Initializing" /\ Elect("initializer", FALSE, "Initializer")
               /\ Goto("initializer", "services")
      BY <2>1, <2>2, Elected, ThreadFacts, Zenon
         DEF Elect, Goto, Designee, Known, TypeOK, ThreadTypes, Over, CleanupSteps
    <2>3. CASE /\ st = "Terminating" /\ owner = "Initializer" /\ UNCHANGED lifecycle
               /\ Goto("initializer", "services")
      BY <2>1, <2>3, EntersCleanup, ThreadFacts, Zenon DEF Over, Designee, Outside,
         CleanupSteps
    <2>4. CASE /\ st # "Initializing" /\ ~(st = "Terminating" /\ owner = "Initializer")
               /\ Goto("initializer", "done") /\ UNCHANGED lifecycle
      <3>1. Over /\ owner = "Initializer" /\ Outside(Designee)
        BY <2>1, <2>4, Zenon DEF Known, PhaseOK, Engaged, Over, Designee, Outside, CleanupSteps
      <3> QED
        BY <2>4, <3>1, NotYetTerminated, Zenon
    <2> QED
      BY <1>11, <2>2, <2>3, <2>4, Zenon DEF InitializerCleanup
  <1>12. CASE ServiceExits
    <2>1. /\ services = "up" /\ services' = "failed" /\ Goto("service", "failed")
          /\ pc["service"] = "idle"
          /\ UNCHANGED <<lifecycle, teardowns, registered, permit>>
      BY <1>12, Zenon DEF ServiceExits, ServicesOK
    <2>2. Over => pc[Designee] \notin AfterStopping \cup {"done"}
      BY <2>1, Zenon DEF Known, SoleOwner, OwnerState
    <2> QED
      BY <2>1, <2>2, ServicesChange, ThreadFacts, Zenon DEF Outside, CleanupSteps
  <1>13. CASE ServiceFailed
    <2>1. UNCHANGED held /\ pc["service"] = "failed"
      BY <1>13, Zenon DEF ServiceFailed
    <2>2. CASE /\ st = "Initializing" /\ Elect("service", FALSE, "Initializer")
               /\ Goto("service", "done")
      <3>1. Engaged("initializer")
        BY <2>1, <2>2, Zenon DEF Known, PhaseOK, ServicesOK
      <3> QED
        BY <2>1, <2>2, <3>1, Elected, ThreadFacts, Zenon DEF Elect, Goto, Designee, Known,
           TypeOK, ThreadTypes, Over, CleanupSteps, Engaged
    <2>3. CASE /\ st = "Ready" /\ Elect("service", FALSE, "Requester")
               /\ Goto("service", "services")
      BY <2>1, <2>3, Elected, ThreadFacts, Zenon
         DEF Elect, Goto, Designee, Known, TypeOK, ThreadTypes, Over, CleanupSteps
    <2>4. CASE /\ st \in {"Action", "Updating"}
               /\ Elect("service", FALSE, IF st = "Action" THEN "Action" ELSE "Update")
               /\ Goto("service", "done")
      <3>1. /\ current \in IF st = "Action" THEN Actions ELSE Updates
            /\ Engaged(current)
        BY <2>4, Zenon DEF Known, PhaseOK
      <3>2. current \in Threads /\ current # "service"
        BY <2>4, <3>1, ThreadFacts, DistinctThreads, Zenon
      <3> QED
        BY <2>1, <2>4, <3>1, <3>2, Elected, Zenon DEF Elect, Goto, Designee, Known, TypeOK,
           ThreadTypes, Over, CleanupSteps, Engaged
    <2>5. CASE Goto("service", "done") /\ UNCHANGED lifecycle
      <3>1. Over => "service" # Designee
        BY <2>1, DesigneeFacts, ThreadFacts, DistinctThreads, Zenon DEF Outside,
           CleanupSteps, Operations
      <3> QED
        BY <2>1, <2>5, <3>1, MovesOn, ThreadFacts, Zenon DEF Outside, CleanupSteps
    <2> QED
      BY <1>13, <2>2, <2>3, <2>4, <2>5, Zenon DEF ServiceFailed
  <1>14. CASE ExpireLifetime
    <2>1. UNCHANGED held /\ pc["lifetime"] = "armed"
      BY <1>14, Zenon DEF ExpireLifetime
    <2>2. CASE Preempt("lifetime", FALSE, "done")
      BY <2>1, <2>2, Preempted, ThreadFacts, DistinctThreads, Zenon DEF Operations,
         CleanupSteps
    <2>3. CASE Goto("lifetime", "done") /\ UNCHANGED lifecycle
      <3>1. Over => "lifetime" # Designee
        BY <2>1, DesigneeFacts, ThreadFacts, DistinctThreads, Zenon DEF Outside,
           CleanupSteps, Operations
      <3> QED
        BY <2>1, <2>3, <3>1, MovesOn, ThreadFacts, Zenon DEF Outside, CleanupSteps
    <2> QED
      BY <1>14, <2>2, <2>3, Zenon DEF ExpireLifetime
  <1>15. CASE ExpireIdle
    <2>1. UNCHANGED held /\ pc["idle"] = "firing"
      BY <1>15, Zenon DEF ExpireIdle
    <2>2. CASE st = "Ready" /\ Elect("idle", FALSE, "Requester") /\ Goto("idle", "services")
      BY <2>1, <2>2, Elected, ThreadFacts, Zenon
         DEF Elect, Goto, Designee, Known, TypeOK, ThreadTypes, Over, CleanupSteps
    <2>3. CASE Goto("idle", "idle") /\ UNCHANGED lifecycle
      <3>1. Over => "idle" # Designee
        BY <2>1, DesigneeFacts, ThreadFacts, DistinctThreads, Zenon DEF Outside,
           CleanupSteps, Operations
      <3> QED
        BY <2>1, <2>3, <3>1, MovesOn, ThreadFacts, Zenon DEF Outside, CleanupSteps
    <2> QED
      BY <1>15, <2>2, <2>3, Zenon DEF ExpireIdle
  <1>16. ASSUME NEW k \in Stops, Stop(k) PROVE SoleOwner'
    <2>1. UNCHANGED held /\ Preempt(k, TRUE, "waiting")
      BY <1>16, Zenon DEF Stop
    <2> QED
      BY <2>1, Preempted, ThreadFacts, DistinctThreads, Zenon DEF Operations,
         CleanupSteps
  <1>17. ASSUME NEW a \in Actions, StartAction(a) PROVE SoleOwner'
    BY <1>17, StaysLive, ThreadFacts, Zenon
       DEF StartAction, Known, TypeOK, ThreadTypes, Over, Goto, CleanupSteps
  <1>18. ASSUME NEW a \in Actions, AwaitAck(a) PROVE SoleOwner'
    <2>1. UNCHANGED <<lifecycle, held>> /\ pc[a] = "awaitAck"
      BY <1>18, Zenon DEF AwaitAck
    <2>2. CASE Goto(a, "discard")
      BY <2>1, <2>2, MovesOn, ThreadFacts, Zenon DEF Outside, CleanupSteps
    <2>3. CASE ack[a] = "accepted" /\ Goto(a, "done")
      <3>1. Over => a # Designee
        BY <2>1, <2>3, ThreadFacts, DistinctThreads, Zenon
           DEF Known, PhaseOK, SoleOwner, Designee, Acknowledged, Over, CleanupSteps
      <3> QED
        BY <2>1, <2>3, <3>1, MovesOn, ThreadFacts, Zenon DEF Outside, CleanupSteps
    <2> QED
      BY <1>18, <2>2, <2>3, Zenon DEF AwaitAck
  <1>19. ASSUME NEW a \in Actions, FinishAction(a) PROVE SoleOwner'
    <2>1. UNCHANGED held /\ pc[a] = "finish"
      BY <1>19, Zenon DEF FinishAction
    <2>2. current = a /\ (st = "Action" \/ (Over /\ owner = "Action"))
      BY <2>1, ThreadFacts, Zenon DEF Known, PhaseOK, Engaged, CleanupSteps, LateAbandon,
         NoLateAbandon
    <2>3. CASE st = "Action" /\ Elect(a, FALSE, "Action") /\ Goto(a, "services")
      BY <2>1, <2>2, <2>3, Elected, ThreadFacts, Zenon
         DEF Elect, Goto, Designee, Known, TypeOK, ThreadTypes, Over, CleanupSteps
    <2>4. CASE /\ st = "Terminating" /\ owner = "Action" /\ UNCHANGED lifecycle
               /\ Goto(a, "services")
      BY <2>1, <2>2, <2>4, EntersCleanup, ThreadFacts, Zenon DEF Over, Designee, Outside,
         CleanupSteps
    <2> QED
      BY <1>19, <2>1, <2>2, <2>3, <2>4, NotYetTerminated, Zenon
         DEF FinishAction, Designee, Outside, CleanupSteps
  <1>20. ASSUME NEW a \in Actions, AcknowledgeDelivery(a) PROVE SoleOwner'
    <2>1. UNCHANGED <<held, pc>>
      BY <1>20, Zenon DEF AcknowledgeDelivery
    <2>2. CASE st = "Action" /\ BecomeReady
      BY <2>1, <2>2, StaysLive, Zenon DEF BecomeReady, Over
    <2>3. CASE st = "Action" /\ current = a /\ Elect(a, FALSE, "Action")
      BY <2>1, <2>3, Elected, ThreadFacts, Zenon
         DEF Elect, Designee, Known, PhaseOK, Engaged, Over, CleanupSteps
    <2>4. CASE UNCHANGED lifecycle
      BY <2>1, <2>4, Untouched, Zenon
    <2> QED
      BY <1>20, <2>2, <2>3, <2>4, Zenon DEF AcknowledgeDelivery, ActionCanPublish
  <1>21. ASSUME NEW a \in Actions, DisconnectAction(a) PROVE SoleOwner'
    <2>1. UNCHANGED <<held, pc>>
      BY <1>21, Zenon DEF DisconnectAction
    <2>2. CASE st = "Action" /\ current = a /\ Elect(a, FALSE, "Action")
      BY <2>1, <2>2, Elected, ThreadFacts, Zenon
         DEF Elect, Designee, Known, PhaseOK, Engaged, Over, CleanupSteps
    <2>3. CASE UNCHANGED lifecycle
      BY <2>1, <2>3, Untouched, Zenon
    <2> QED
      BY <1>21, <2>2, <2>3, Zenon DEF DisconnectAction
  <1>22. ASSUME NEW u \in Updates, RetryUpdate(u) PROVE SoleOwner'
    <2>1. UNCHANGED <<lifecycle, held>> /\ pc[u] = "idle"
      BY <1>22, Zenon DEF RetryUpdate
    <2>2. \E l \in {"done"} : Goto(u, l)
      BY <1>22, Zenon DEF RetryUpdate
    <2>3. ~Over
      BY <1>22, Zenon DEF RetryUpdate, Over
    <2> QED
      BY <2>1, <2>2, <2>3, MovesOn, ThreadFacts, Zenon DEF Outside, CleanupSteps
  <1>23. ASSUME NEW u \in Updates, StartUpdate(u) PROVE SoleOwner'
    BY <1>23, StaysLive, ThreadFacts, Zenon
       DEF StartUpdate, Known, TypeOK, ThreadTypes, Over, Goto, CleanupSteps
  <1>24. ASSUME NEW u \in Updates, FinishUpdate(u) PROVE SoleOwner'
    <2>1. UNCHANGED held /\ pc[u] = "committed"
      BY <1>24, Zenon DEF FinishUpdate
    <2>2. current = u /\ (st = "Updating" \/ (Over /\ owner = "Update"))
      BY <2>1, Zenon DEF Known, PhaseOK, Engaged, CleanupSteps
    <2>3. CASE st = "Updating" /\ BecomeReady /\ Goto(u, "done")
      BY <2>1, <2>3, StaysLive, ThreadFacts, Zenon
         DEF BecomeReady, Goto, Known, TypeOK, ThreadTypes, Over, CleanupSteps
    <2>4. CASE st = "Updating" /\ Elect(u, FALSE, "Update") /\ Goto(u, "services")
      BY <2>1, <2>2, <2>4, Elected, ThreadFacts, Zenon
         DEF Elect, Goto, Designee, Known, TypeOK, ThreadTypes, Over, CleanupSteps
    <2>5. CASE /\ st = "Terminating" /\ owner = "Update" /\ UNCHANGED lifecycle
               /\ Goto(u, "services")
      BY <2>1, <2>2, <2>5, EntersCleanup, ThreadFacts, Zenon DEF Over, Designee, Outside,
         CleanupSteps
    <2> QED
      BY <1>24, <2>1, <2>2, <2>3, <2>4, <2>5, NotYetTerminated, Zenon
         DEF FinishUpdate, Designee, Outside, CleanupSteps
  <1>25. ASSUME NEW u \in Updates, FinishUpdateError(u) PROVE SoleOwner'
    <2>1. UNCHANGED held /\ pc[u] \in {"rolledBack", "unprovable"}
      BY <1>25, Zenon DEF FinishUpdateError
    <2>2. current = u /\ (st = "Updating" \/ (Over /\ owner = "Update"))
      BY <2>1, Zenon DEF Known, PhaseOK, Engaged, CleanupSteps
    <2>3. CASE st = "Updating" /\ BecomeReady /\ Goto(u, "done")
      BY <2>1, <2>3, StaysLive, ThreadFacts, Zenon
         DEF BecomeReady, Goto, Known, TypeOK, ThreadTypes, Over, CleanupSteps
    <2>4. CASE st = "Updating" /\ Elect(u, FALSE, "Update") /\ Goto(u, "services")
      BY <2>1, <2>2, <2>4, Elected, ThreadFacts, Zenon
         DEF Elect, Goto, Designee, Known, TypeOK, ThreadTypes, Over, CleanupSteps
    <2>5. CASE /\ st = "Terminating" /\ owner = "Update" /\ UNCHANGED lifecycle
               /\ Goto(u, "services")
      BY <2>1, <2>2, <2>5, EntersCleanup, ThreadFacts, Zenon DEF Over, Designee, Outside,
         CleanupSteps
    <2> QED
      BY <1>25, <2>1, <2>2, <2>3, <2>4, <2>5, NotYetTerminated, Zenon
         DEF FinishUpdateError, Designee, Outside, CleanupSteps
  <1>26. ASSUME NEW u \in Updates, UpdateWorkerPanicked(u) PROVE SoleOwner'
    <2>1. UNCHANGED held /\ pc[u] \in {"apply", "mutated", "undo", "undoUnproven"}
      BY <1>26, Zenon DEF UpdateWorkerPanicked
    <2>2. current = u /\ (st = "Updating" \/ (Over /\ owner = "Update"))
      BY <2>1, Zenon DEF Known, PhaseOK, Engaged, CleanupSteps
    <2>3. CASE st = "Updating" /\ Elect(u, FALSE, "Requester") /\ Goto(u, "services")
      BY <2>1, <2>3, Elected, ThreadFacts, Zenon
         DEF Elect, Goto, Designee, Known, TypeOK, ThreadTypes, Over, CleanupSteps
    <2>4. CASE /\ st = "Terminating" /\ owner = "Update" /\ UNCHANGED lifecycle
               /\ Goto(u, "services")
      BY <2>1, <2>2, <2>4, EntersCleanup, ThreadFacts, Zenon DEF Over, Designee, Outside,
         CleanupSteps
    <2>5. registered /\ st # "Terminated"
      BY <2>1, <2>2, NotYetTerminated, Zenon
         DEF Known, PhaseOK, Live, Designee, Outside, CleanupSteps
    <2> QED
      BY <1>26, <2>2, <2>3, <2>4, <2>5, Zenon DEF UpdateWorkerPanicked, Over
  <1> HIDE DEF held, admission, svc, results
  <1> QED
    BY OwnershipMoves, CleanupAdvances, <1>1, <1>2, <1>3, <1>4, <1>5, <1>6, <1>7, <1>8,
       <1>9, <1>10, <1>11, <1>12, <1>13, <1>14, <1>15, <1>16, <1>17, <1>18, <1>19,
       <1>20, <1>21, <1>22, <1>23, <1>24, <1>25, <1>26, Zenon

(***************************************************************************)
(* The theorems.                                                           *)
(***************************************************************************)
(* A late abandonment stays one: the acknowledgement is never taken back   *)
(* and the archive is removed next.                                        *)
LEMMA LateAbandonIsFinal ==
    ASSUME TypeOK, DeliveryOK, [Next]_vars, NEW b \in Actions, LateAbandon(b)
    PROVE  LateAbandon(b)'
  <1> USE ThreadFacts DEF TypeOK, ThreadTypes, LateAbandon, Acknowledged, Goto, delivery
  <1>1. /\ ack[b] # "none"
        /\ pc[b] \notin {"idle", "run", "snapshot", "publish", "deliver"}
        /\ \/ ack[b] = "accepted" /\ stream[b] \in {"drained", "closed"}
           \/ ack[b] = "pending" /\ stream[b] = "accepting"
    BY Zenon DEF DeliveryOK
  <1>2. CASE UNCHANGED delivery /\ OtherMove
    <2>1. pc[b] = "discard" => pc'[b] = "discard"
      BY <1>2, DistinctThreads, Zenon DEF OtherMove, Others, System, Undelivering,
         CleanupSteps, TakeServices
    <2> QED
      BY <1>2, <2>1, Zenon
  <1>3. ASSUME NEW a \in Actions, \/ StartAction(a) \/ ActionRuns(a) \/ SnapshotArtifacts(a)
                                  \/ PublishCheck(a) \/ EnqueueFinal(a)
        PROVE  LateAbandon(b)'
    BY <1>1, <1>3, Zenon DEF StartAction, ActionRuns, SnapshotArtifacts, PublishCheck,
       EnqueueFinal
  <1>4. ASSUME NEW a \in Actions, AwaitAck(a) \/ DiscardArchive(a) \/ ConsumeFinal(a)
        PROVE  LateAbandon(b)'
    BY <1>1, <1>4, Zenon DEF AwaitAck, DiscardArchive, ConsumeFinal
  <1>5. ASSUME NEW a \in Actions, AcknowledgeDelivery(a) PROVE LateAbandon(b)'
    <2>1. /\ stream[a] = "final" /\ UNCHANGED <<ack, archive, pc>>
          /\ \E s : stream' = [stream EXCEPT ![a] = s]
      BY <1>5, Zenon DEF AcknowledgeDelivery
    <2> QED
      BY <1>1, <2>1, Zenon
  <1>6. ASSUME NEW a \in Actions, DisconnectAction(a) \/ SendAck(a) PROVE LateAbandon(b)'
    BY <1>1, <1>6, Zenon DEF DisconnectAction, SendAck
  <1> QED
    <2> HIDE DEF LateAbandon, delivery
    <2> QED
      BY DeliverySteps, <1>2, <1>3, <1>4, <1>5, <1>6, Zenon

(* The initial state has no owner and needs none.                          *)
LEMMA OwnershipInit == Init => OwnershipOK
  BY ThreadFacts, Zenon DEF Init, OwnershipOK, SoleOwner, Cleaning, Over, CleanupSteps

(***************************************************************************)
(* Services that may have survived.                                        *)
(***************************************************************************)
(* Termination is elected by a step that touches neither metadata nor      *)
(* services, and names another owner than the initializer only before the  *)
(* initializer runs or once the session has been Ready.                    *)
ElectionMove ==
    /\ UNCHANGED <<durable, svc>>
    /\ \/ st \in {"Ready", "Action", "Updating"}
       \/ owner' = "Initializer"
       \/ st = "Initializing" /\ ~started

(* Every election is such a step.                                          *)
LEMMA ElectionMoves ==
    ASSUME PhaseOK, [Next]_vars, ~Over, Over'
    PROVE  ElectionMove
  <1> USE DEF ElectionMove, Elect
  <1>1. st' \notin Live /\ ~UNCHANGED lifecycle /\ ~UNCHANGED st /\ st' # "Ready"
    BY Zenon DEF lifecycle, Live, Over
  <1>2. ASSUME Reserve \/ UploadStep \/ Disconnect PROVE ElectionMove
    BY <1>1, <1>2, Zenon DEF Reserve, UploadStep, CancelUpload, UploadHandlerDropped,
       BeginInitialization, Disconnect, Live
  <1>3. ASSUME InitializerStep PROVE ElectionMove
    BY <1>1, <1>3, Zenon DEF InitializerStep, PrepareWorkspace, RunPhases, StartServices,
       SpawnServices, AwaitServices, PreCommit, PersistReady, CommitElection,
       BecomeReady, RevokeCommit, InitializerCleanup
  <1>4. ASSUME NEW t \in Threads, NEW e, NEW l, Preempt(t, e, l), UNCHANGED <<durable, svc>>
        PROVE  ElectionMove
    BY <1>4, Zenon DEF Preempt, ActiveOwner, Live
  <1>5. ASSUME ServiceFailed \/ ExpireLifetime \/ ExpireIdle PROVE ElectionMove
    BY <1>1, <1>4, <1>5, ThreadFacts, Zenon DEF ServiceFailed, ExpireLifetime, ExpireIdle
  <1>6. ASSUME NEW k \in Stops, Stop(k) PROVE ElectionMove
    BY <1>4, <1>6, ThreadFacts, Zenon DEF Stop
  <1>7. ASSUME NEW a \in Actions, StartAction(a) \/ WorkerStep(a) \/ StreamStep(a)
        PROVE  ElectionMove
    BY <1>1, <1>7, Zenon DEF StartAction, WorkerStep, ActionRuns, SnapshotArtifacts, PublishCheck,
       EnqueueFinal, AwaitAck, DiscardArchive, FinishAction, StreamStep, ConsumeFinal,
       AcknowledgeDelivery, DisconnectAction, BecomeReady, Live
  <1>8. ASSUME NEW u \in Updates, StartUpdate(u) \/ UpdateStep(u) PROVE ElectionMove
    BY <1>1, <1>8, Zenon DEF StartUpdate, UpdateStep, ApplyUpdate, CommitUpdate, RollBack,
       FinishUpdate, FinishUpdateError, UpdateWorkerPanicked, BecomeReady, Live
  <1>9. ASSUME NEW t \in Threads, Cleanup(t) PROVE FALSE
    <2>1. Cleaning(t)
      BY <1>9, Zenon DEF Cleanup, TakeServices, StopServices, Teardown, CollectFinalArtifacts,
         RemoveWorkspace, RemoveMetadata, Unregister, ReleasePermit, BecomeTerminated,
         Cleaning, CleanupSteps
    <2> QED BY <2>1, Zenon DEF PhaseOK
  <1> HIDE DEF ElectionMove
  <1> QED
    BY <1>1, <1>2, <1>3, <1>5, <1>6, <1>7, <1>8, <1>9, Zenon DEF Next, vars, lifecycle,
       DeadlinePasses, IdlePeriodPasses, InitializationCancelled, ServiceExits,
       IdleTimerWakes, StopCompletes, OutputCancels, SendAck, RetryUpdate

(* Services turn from off to up by the initializer, and from there to      *)
(* stopped; only the thread that stops them is entered in unproven.        *)
LEMMA UnprovenMoves ==
    ASSUME TypeOK, ServicesOK, [Next]_vars
    PROVE  /\ services = "stopped" => services' = "stopped"
           /\ \/ services' \in {services, "stopped"}
              \/ SpawnServices
              \/ services = "up" /\ services' = "failed"
              \/ services \in {"up", "failed"} /\ services' = "stopping"
           /\ unproven' = unproven \/ \E t \in Threads : StopServices(t)
  <1>1. unproven' = unproven \/ \E t \in Threads : StopServices(t)
    BY StorageMoves, Zenon DEF StartServices, SpawnServices, PersistReady, RevokeCommit, svc,
       ServiceExits, CommitUpdate, FinishUpdate, TakeServices, Teardown, RemoveMetadata
  <1>2. CASE SpawnServices
    BY <1>1, <1>2, Zenon DEF SpawnServices, ServicesOK
  <1>3. CASE ServiceExits BY <1>1, <1>3, Zenon DEF ServiceExits
  <1>4. CASE \E t \in Threads : TakeServices(t)
    BY <1>1, <1>4, Zenon DEF TakeServices
  <1>5. CASE \E t \in Threads : StopServices(t)
    BY <1>1, <1>5, Zenon DEF StopServices
  <1>6. CASE UNCHANGED services BY <1>1, <1>6, Zenon
  <1> QED BY ServicesMoves, <1>2, <1>3, <1>4, <1>5, <1>6, Zenon

(* A thread reaches the label where services are stopped with them.        *)
LEMMA StoppingStep ==
    ASSUME Known, ServicesOK, UnprovenOwned, [Next]_vars
    PROVE  \A t \in Threads : pc'[t] = "stopping" => services' = "stopping"
  <1> USE ThreadFacts DEF TypeOK, ThreadTypes, Goto, UnprovenOwned, Known
  <1>1. CASE SpawnServices
    BY <1>1, Zenon DEF SpawnServices, ServicesOK
  <1>2. CASE ServiceExits BY <1>2, Zenon DEF ServiceExits
  <1>3. ASSUME NEW t \in Threads, TakeServices(t)
        PROVE  \A p \in Threads : pc'[p] = "stopping" => services' = "stopping"
    <2>1. \A p \in Threads : pc[p] = "stopping" => p = t
      BY <1>3, Zenon DEF TakeServices, SoleOwner, Cleaning, CleanupSteps
    <2> QED BY <1>3, <2>1, Zenon DEF TakeServices
  <1>4. ASSUME NEW t \in Threads, StopServices(t)
        PROVE  \A p \in Threads : pc'[p] = "stopping" => services' = "stopping"
    <2>1. \A p \in Threads : pc[p] = "stopping" => p = t
      BY <1>4, Zenon DEF StopServices, SoleOwner, Cleaning, CleanupSteps
    <2> QED BY <1>4, <2>1, Zenon DEF StopServices
  <1>5. CASE UNCHANGED <<services, pc>> BY <1>5, Zenon
  <1>6. CASE UNCHANGED services /\ (Reserve \/ BeginInitialization)
    BY <1>6, Zenon DEF Reserve, BeginInitialization
  <1>7. ASSUME UNCHANGED services, NEW t \in Threads, NEW l \in Labels, Elsewhere(t, l)
        PROVE  \A p \in Threads : pc'[p] = "stopping" => services' = "stopping"
    BY <1>7, Zenon DEF Elsewhere
  <1> QED BY ServicesMoves, <1>1, <1>2, <1>3, <1>4, <1>5, <1>6, <1>7, Zenon

(* Metadata is Ready before an owner other than the initializer stops      *)
(* services, and stays for as long as one of them may have survived.       *)
LEMMA UnprovenStep ==
    ASSUME Known, Sound, UnprovenOwned, SoleOwner', [Next]_vars
    PROVE  UnprovenOwned'
  <1> USE DEF Known, Sound
  <1>1. \A t \in Threads : pc'[t] = "stopping" => services' = "stopping"
    BY StoppingStep, Zenon
  <1>2. Over => Over' /\ UNCHANGED <<owner, winner, current>> /\ Designee' = Designee
    BY LifecycleMoves, Zenon DEF LifecycleMove, Over, Live, lifecycle, Designee, Elect
  <1>3. CASE ~Over'
    <2>1. ~Over /\ unproven = {} BY <1>2, <1>3, Zenon DEF UnprovenOwned
    <2>2. unproven' = {}
      <3>1. ASSUME NEW t \in Threads, StopServices(t) PROVE FALSE
        BY <2>1, <3>1, Zenon DEF StopServices, PhaseOK, Cleaning, CleanupSteps
      <3> QED BY <2>1, <3>1, UnprovenMoves, Zenon
    <2> QED BY <1>1, <1>3, <2>2, Zenon DEF UnprovenOwned
  <1>4. CASE ~Over /\ Over'
    <2>1. UNCHANGED <<durable, svc>> /\ unproven = {}
      BY <1>4, ElectionMoves, Zenon DEF ElectionMove, UnprovenOwned
    <2>2. CASE st \in {"Ready", "Action", "Updating"}
      BY <1>1, <2>1, <2>2, Zenon DEF DurabilityOK, UnprovenOwned, durable, svc
    <2>3. CASE st = "Initializing" /\ ~started
      <3>1. services = "off" BY <2>3, Zenon DEF PhaseOK, ServicesOK
      <3> QED BY <1>1, <2>1, <3>1, Zenon DEF UnprovenOwned, svc
    <2>4. CASE owner' = "Initializer"
      BY <1>1, <2>1, <2>4, Zenon DEF UnprovenOwned, svc
    <2> QED BY <1>4, <2>2, <2>3, <2>4, ElectionMoves, Zenon DEF ElectionMove
  <1>5. CASE Over
    <2>1. unproven' # {} => unproven' = {Designee} /\ services' = "stopped"
      <3>1. ASSUME NEW t \in Threads, StopServices(t)
            PROVE  unproven' \in {{}, {Designee}} /\ services' = "stopped"
        <4>1. t = Designee BY <3>1, Zenon DEF StopServices, SoleOwner, Cleaning, CleanupSteps
        <4>2. unproven \in {{}, {Designee}} BY Zenon DEF UnprovenOwned
        <4>3. unproven' \in {unproven, unproven \cup {Designee}} /\ services' = "stopped"
          BY <3>1, <4>1, Zenon DEF StopServices
        <4> QED BY <4>2, <4>3
      <3>2. CASE unproven' = unproven
        BY <3>2, UnprovenMoves, Zenon DEF UnprovenOwned
      <3> QED BY <3>1, <3>2, UnprovenMoves, Zenon
    <2>2. ASSUME owner # "Initializer",
                 unproven' # {} \/ services' \in {"up", "failed", "stopping"}
          PROVE  meta' = "ready"
      <3>0. ~Engaged("initializer") BY <1>5, <2>2, Zenon DEF PhaseOK, Over
      <3>1. unproven # {} \/ services \in {"up", "failed", "stopping"}
        <4>1. ASSUME NEW t \in Threads, StopServices(t) PROVE services = "stopping"
          BY <4>1, Zenon DEF StopServices, UnprovenOwned
        <4>2. ~SpawnServices BY <3>0, Zenon DEF SpawnServices, Engaged, CleanupSteps
        <4>3. services' = "stopping" => services \in {"up", "failed", "stopping"}
          BY <4>2, UnprovenMoves, Zenon
        <4>4. CASE unproven' # {} BY <4>1, <4>4, UnprovenMoves, Zenon
        <4>5. CASE services' \in {"up", "failed", "stopping"}
          BY <4>2, <4>5, UnprovenMoves, Zenon
        <4> QED BY <2>2, <4>4, <4>5, Zenon
      <3>2. meta = "ready" BY <1>5, <2>2, <3>1, Zenon DEF UnprovenOwned
      <3>3. ~StartServices /\ ~RevokeCommit /\ ~SpawnServices
        BY <3>0, Zenon DEF StartServices, RevokeCommit, SpawnServices, Engaged, CleanupSteps
      <3>4. ASSUME NEW t \in Threads, RemoveMetadata(t) PROVE meta' = meta
        <4>1. t = Designee /\ pc[t] = "metadata"
          BY <3>4, Zenon DEF RemoveMetadata, SoleOwner, Cleaning, CleanupSteps
        <4>2. services \notin {"up", "failed", "stopping"}
          BY <1>5, <4>1, Zenon DEF SoleOwner, OwnerState, AfterStopping, CleanupSteps
        <4>3. t \in unproven BY <3>1, <4>1, <4>2, Zenon DEF UnprovenOwned
        <4> QED BY <3>4, <4>3, Zenon DEF RemoveMetadata
      <3>5. ASSUME NEW u \in Updates, CommitUpdate(u) \/ FinishUpdate(u) PROVE meta' \in {meta, "ready"}
        BY <3>5, Zenon DEF CommitUpdate, FinishUpdate, WriteMetadata, durable
      <3>6. PersistReady => meta' \in {meta, "ready"}
        BY Zenon DEF PersistReady, WriteMetadata, durable
      <3>7. ASSUME NEW t \in Threads, TakeServices(t) \/ StopServices(t) \/ Teardown(t)
            PROVE meta' = meta
        BY <3>7, Zenon DEF TakeServices, StopServices, Teardown, durable
      <3>8. ServiceExits => meta' = meta BY Zenon DEF ServiceExits, durable
      <3>9. meta' \in {meta, "ready"}
        BY StorageMoves, <3>3, <3>4, <3>5, <3>6, <3>7, <3>8, Zenon DEF durable
      <3> QED BY <3>2, <3>9, Zenon
    <2> QED BY <1>1, <1>2, <1>5, <2>1, <2>2, Zenon DEF UnprovenOwned
  <1> QED BY <1>3, <1>4, <1>5, Zenon

(* All invariants of Session in every behaviour.                           *)
THEOREM InductiveCorrect == Spec => []Inductive
  <1>1. Init => Inductive
    <2>1. Init => UnprovenOK
      BY ThreadFacts, Zenon DEF Init, UnprovenOK, UnprovenOwned, Over
    <2> QED BY <2>1, SoundInit, OwnershipInit, Zenon DEF Inductive, Sound
  <1>2. Inductive /\ [Next]_vars => Inductive'
    <2> SUFFICES ASSUME Inductive, [Next]_vars PROVE Inductive'
      OBVIOUS
    <2>1. Sound /\ Sound'
      BY SoundStep, Zenon DEF Inductive, Sound
    <2>2. NoLateAbandon' => NoLateAbandon
      BY <2>1, LateAbandonIsFinal, Zenon DEF Sound, NoLateAbandon
    <2>3. OwnershipOK'
      BY <2>1, <2>2, OwnershipStep, Zenon DEF Inductive, Sound, OwnershipOK, Known
    <2>4. UnprovenOK'
      BY <2>1, <2>2, <2>3, UnprovenStep, Zenon DEF Inductive, Sound, OwnershipOK, UnprovenOK, Known
    <2> QED
      BY <2>1, <2>3, <2>4, Zenon DEF Inductive, Sound
  <1> QED
    BY <1>1, <1>2, PTL DEF Spec

(* One thread at a time runs cleanup_entry and teardown runs at most once, *)
(* however stops, timers, failures and disconnects compete, as long as no  *)
(* worker abandons an acknowledged delivery.                               *)
THEOREM CleanupRunsOnce == Spec => []CleanupOnce
  <1>1. Inductive => CleanupOnce
    <2> SUFFICES ASSUME Inductive, NoLateAbandon
                 PROVE  /\ teardowns <= 1
                        /\ \A t1, t2 \in Threads : Cleaning(t1) /\ Cleaning(t2) => t1 = t2
      BY Zenon DEF CleanupOnce
    <2>1. SoleOwner /\ teardowns \in Nat
      BY Zenon DEF Inductive, OwnershipOK, TypeOK, StorageTypes
    <2>2. teardowns <= 1
      BY <2>1 DEF SoleOwner, OwnerState
    <2> QED
      BY <2>1, <2>2, Zenon DEF SoleOwner
  <1> QED
    BY <1>1, InductiveCorrect, PTL

(* A thread that works in the workspace of a session that is over is the   *)
(* one that will clean up.                                                 *)
LEMMA WorkerIsDesignee ==
    ASSUME Inductive, NoLateAbandon, Over, NEW w \in Threads, Working(w)
    PROVE  w = Designee /\ Outside(w)
  <1>1. Known /\ LabelsOK /\ DeliveryOK
    BY Zenon DEF Inductive, OwnershipOK, Known
  <1>2. w \in {"initializer"} \cup Actions \cup Updates
    BY <1>1 DEF LabelsOK, UploadLabels, StreamLabels, StopLabels, CleanupSteps, Working,
       Threads, System, Operations
  <1>3. Engaged(w) /\ Outside(w)
    BY Zenon DEF Working, Engaged, Outside, CleanupSteps
  <1>4. CASE w \in Actions
    <2>1. ~Acknowledged(w)
      BY <1>1, <1>4, Zenon DEF LabelsOK, ActionLabels, CleanupSteps, Working, DeliveryOK,
         Acknowledged
    <2> QED
      BY <1>1, <1>3, <1>4, <2>1, DesigneeFacts, Zenon
  <1> QED
    BY <1>1, <1>2, <1>3, <1>4, DesigneeFacts, Zenon

(* Nobody works in the workspace while it is cleaned up, and teardown      *)
(* comes after the services were stopped.                                  *)
THEOREM CleanupJoins == Spec => []CleanupJoinsWork
  <1>1. Inductive => CleanupJoinsWork
    <2> SUFFICES ASSUME Inductive, NoLateAbandon, NEW t \in Threads, Cleaning(t)
                 PROVE  /\ \A w \in Threads : ~Working(w)
                        /\ pc[t] \notin {"services", "stopping"} =>
                               services \notin {"up", "failed", "stopping"}
      BY Zenon DEF CleanupJoinsWork
    <2>1. SoleOwner /\ Over /\ t = Designee
      BY Zenon DEF Inductive, OwnershipOK, SoleOwner, PhaseOK
    <2>2. \A w \in Threads : ~Working(w)
      BY <2>1, WorkerIsDesignee, Zenon DEF Outside, Cleaning
    <2>3. pc[t] \notin {"services", "stopping"} => services \notin {"up", "failed", "stopping"}
      BY <2>1, Zenon DEF SoleOwner, OwnerState, AfterStopping, Cleaning
    <2> QED
      BY <2>2, <2>3, Zenon
  <1> QED
    BY <1>1, InductiveCorrect, PTL

(* The build permit outlives everything the session does, services that    *)
(* could not be proven stopped excepted.                                   *)
THEOREM PermitCovers == Spec => []PermitCoversWork
  <1>1. Inductive => PermitCoversWork
    <2> SUFFICES ASSUME Inductive, NoLateAbandon, st # "Absent", ~permit
                 PROVE  /\ st \in {"Terminating", "Terminated"}
                        /\ ~registered
                        /\ services \in {"off", "stopped"}
                        /\ \A t \in Threads :
                               ~Working(t) /\ pc[t] \notin CleanupSteps \ {"terminate"}
      BY Zenon DEF PermitCoversWork
    <2>1. SoleOwner /\ Over
      BY Zenon DEF Inductive, OwnershipOK, PhaseOK, TypeOK, LifecycleTypes, Over
    <2>2. pc[Designee] \in {"terminate", "done"}
      BY <2>1, Zenon DEF SoleOwner, OwnerState
    <2>3. ~registered /\ services \notin {"up", "failed", "stopping"}
      BY <2>1, <2>2, Zenon DEF SoleOwner, OwnerState, AfterStopping, CleanupSteps
    <2>4. services \in {"off", "stopped"}
      BY <2>3, Zenon DEF Inductive, TypeOK, StorageTypes
    <2>5. \A t \in Threads : ~Working(t) /\ pc[t] \notin CleanupSteps \ {"terminate"}
      BY <2>1, <2>2, WorkerIsDesignee, Zenon DEF Outside, CleanupSteps, SoleOwner, Cleaning
    <2> QED
      BY <2>1, <2>3, <2>4, <2>5, Zenon DEF Over
  <1> QED
    BY <1>1, InductiveCorrect, PTL

(* An unacknowledged archive has a worker that is to discard it, and the   *)
(* session is not gone before that worker is through (DiscardArchive in    *)
(* run_action, finish_action).                                             *)
THEOREM ArchivesDiscarded == Spec => []UndeliveredArchivesDiscarded
  <1>1. Inductive => UndeliveredArchivesDiscarded
    <2> SUFFICES ASSUME Inductive, NEW a \in Actions, archive[a] = "stored", ~Acknowledged(a)
                 PROVE  /\ pc[a] \in {"publish", "deliver", "awaitAck", "discard"}
                        /\ NoLateAbandon => st # "Terminated"
      BY Zenon DEF UndeliveredArchivesDiscarded
    <2>1. pc[a] \in {"publish", "deliver", "awaitAck", "discard"}
      BY Zenon DEF Inductive, DeliveryOK
    <2>2. ASSUME NoLateAbandon, st = "Terminated" PROVE FALSE
      <3>1. Known /\ LabelsOK /\ Over
        BY <2>2, Zenon DEF Inductive, OwnershipOK, Known, Over
      <3>2. pc[Designee] = "done"
        BY <2>2, <3>1, Zenon DEF Known, SoleOwner, OwnerState
      <3> QED
        BY <2>1, <3>1, <3>2, DesigneeFacts, Zenon DEF Engaged, CleanupSteps
    <2> QED
      BY <2>1, <2>2, Zenon
  <1> QED
    BY <1>1, InductiveCorrect, PTL

(* Metadata of a session that had become Ready is not removed when a       *)
(* service may have survived its cleanup (remove_metadata after            *)
(* stop_services in cleanup_entry).                                        *)
THEOREM UnprovenReady == Spec => []UnprovenReadyKeepsMetadata
  <1>1. Inductive => UnprovenReadyKeepsMetadata
    BY Zenon DEF Inductive, UnprovenOK, UnprovenOwned, UnprovenReadyKeepsMetadata
  <1> QED
    BY <1>1, InductiveCorrect, PTL

-----------------------------------------------------------------------------
(***************************************************************************)
(* Session implements SessionContract and drives its updates as            *)
(* UpdateContract allows: every step is a step of the contract or leaves   *)
(* everything the contract speaks of unchanged.                            *)
(***************************************************************************)
(* A session that ended, or is about to, has given its permit back.        *)
ReleasedOK ==
    /\ st \in {"Absent", "Terminated"} => ~permit
    /\ \A t \in Threads : pc[t] = "terminate" => ~permit

(* A step that neither takes a permit nor ends the session nor brings a    *)
(* thread to its last cleanup step keeps it so.                            *)
LEMMA ReleasedFrame ==
    ASSUME ReleasedOK, permit' => permit,
           st' \in {"Absent", "Terminated"} => st' = st,
           \A t \in Threads : pc'[t] = "terminate" => pc[t] = "terminate"
    PROVE  ReleasedOK'
  BY Zenon DEF ReleasedOK

(***************************************************************************)
(* The ways in which a step can be a step of the contract.                 *)
(***************************************************************************)
(* Nothing the contract speaks of changes.                                 *)
LEMMA Hidden ==
    ASSUME UNCHANGED <<st, permit, revision, winner>>,
           \A k \in Stops : outcome'[k] = outcome[k]
    PROVE  UNCHANGED Contract!vars
  <1>1. UNCHANGED <<PhaseOf, CloserOf>>
    BY Zenon DEF PhaseOf, CloserOf
  <1>2. UNCHANGED AnsweredOf
    BY Zenon DEF AnsweredOf
  <1> QED
    BY <1>1, <1>2, Zenon DEF Contract!vars

(* Termination is elected.                                                 *)
LEMMA Closes ==
    ASSUME st \in Live, st' = "Terminating", winner' \in Threads,
           UNCHANGED <<permit, revision>>,
           \A k \in Stops : outcome'[k] = outcome[k]
    PROVE  Contract!Close
  <1>1. PhaseOf \in Contract!Open /\ PhaseOf' = "closing"
    BY Zenon DEF PhaseOf, Contract!Open, Live
  <1>2. CloserOf' \in Stops \cup {"daemon"}
    BY ThreadsDistinct, Zenon DEF CloserOf
  <1>3. UNCHANGED AnsweredOf
    BY Zenon DEF AnsweredOf
  <1> QED
    BY <1>1, <1>2, <1>3, Zenon DEF Contract!Close

(* The session moves between its open phases.                              *)
LEMMA Progresses ==
    ASSUME UNCHANGED <<permit, winner>>,
           \A k \in Stops : outcome'[k] = outcome[k],
           \/ st = "Initializing" /\ st' = "Ready" /\ revision' = revision
           \/ st = "Ready" /\ st' \in {"Action", "Updating"} /\ revision' = revision
           \/ st = "Action" /\ st' = "Ready" /\ revision' = revision
           \/ st = "Updating" /\ st' = "Ready" /\ revision' \in {revision, revision + 1}
    PROVE  Contract!Commit \/ Contract!Begin \/ Contract!End
  <1>1. UNCHANGED <<CloserOf, AnsweredOf>>
    BY Zenon DEF CloserOf, AnsweredOf
  <1> QED
    BY <1>1, Zenon DEF PhaseOf, Contract!Commit, Contract!Begin, Contract!End

(***************************************************************************)
(* The steps that change what the contract speaks of.                      *)
(***************************************************************************)
(* How a step other than reserving the session and ending it moves it      *)
(* between its phases.                                                     *)
PhaseMove ==
    \/ UNCHANGED <<st, winner>>
    \/ st \in Live /\ \E t \in Threads, e \in BOOLEAN, o \in Owners : Elect(t, e, o)
    \/ st \in Live /\ st' = "Ready" /\ UNCHANGED winner
    \/ st = "Ready" /\ st' \in {"Action", "Updating"} /\ UNCHANGED winner

(* Every other step is one of these moves.                                 *)
LEMMA PhaseMoves ==
    [Next]_vars => \/ PhaseMove \/ Reserve
                   \/ \E t \in Threads : BecomeTerminated(t)
  <1> USE ThreadFacts, LifecycleFacts, Zenon DEF PhaseMove, lifecycle
  <1>1. ASSUME UploadStep \/ Disconnect PROVE PhaseMove
    BY <1>1, Zenon DEF UploadStep, CancelUpload, UploadHandlerDropped, BeginInitialization,
       Disconnect
  <1>2. ASSUME InitializerStep PROVE PhaseMove
    BY <1>2, Zenon DEF InitializerStep, PrepareWorkspace, RunPhases, StartServices,
       SpawnServices, AwaitServices, PreCommit, PersistReady, CommitElection,
       BecomeReady, RevokeCommit, InitializerCleanup
  <1>3. ASSUME ServiceFailed \/ ExpireLifetime \/ ExpireIdle PROVE PhaseMove
    BY <1>3, Zenon DEF ServiceFailed, ExpireLifetime, ExpireIdle, Preempt
  <1>4. ASSUME NEW k \in Stops, Stop(k) PROVE PhaseMove
    BY <1>4, Zenon DEF Stop, Preempt
  <1>5. ASSUME NEW a \in Actions, StartAction(a) \/ WorkerStep(a) \/ StreamStep(a)
        PROVE  PhaseMove
    BY <1>5, Zenon DEF StartAction, WorkerStep, ActionRuns, SnapshotArtifacts, PublishCheck,
       EnqueueFinal, AwaitAck, DiscardArchive, FinishAction, StreamStep, ConsumeFinal,
       AcknowledgeDelivery, DisconnectAction, BecomeReady, ActionCanPublish
  <1>6. ASSUME NEW u \in Updates, StartUpdate(u) \/ UpdateStep(u) PROVE PhaseMove
    BY <1>6, Zenon DEF StartUpdate, UpdateStep, ApplyUpdate, CommitUpdate, RollBack,
       FinishUpdate, FinishUpdateError, UpdateWorkerPanicked, BecomeReady
  <1>7. ASSUME NEW t \in Threads, Cleanup(t) PROVE PhaseMove \/ BecomeTerminated(t)
    BY <1>7, Zenon DEF Cleanup, TakeServices, StopServices, Teardown, CollectFinalArtifacts,
       RemoveWorkspace, RemoveMetadata, Unregister, ReleasePermit
  <1> QED
    BY <1>1, <1>2, <1>3, <1>4, <1>5, <1>6, <1>7, Zenon DEF Next, vars, DeadlinePasses,
       IdlePeriodPasses, InitializationCancelled, ServiceExits, IdleTimerWakes,
       StopCompletes, OutputCancels, SendAck, RetryUpdate

(* Five actions take or give the permit, change the revision or answer a   *)
(* stop.                                                                   *)
LEMMA ContractMoves ==
    ASSUME [Next]_vars
    PROVE  \/ /\ UNCHANGED <<permit, revision>>
              /\ \/ UNCHANGED outcome
                 \/ \E u \in Updates : \E o : outcome' = [outcome EXCEPT ![u] = o]
           \/ Reserve
           \/ \E k \in Stops : StopCompletes(k)
           \/ \E u \in Updates : FinishUpdate(u)
           \/ \E t \in Threads : ReleasePermit(t) \/ BecomeTerminated(t)
  BY ZenonT(60) DEF admission, updating, results, vars,
     Next, DeadlinePasses, IdlePeriodPasses, Disconnect, InitializationCancelled,
     ServiceExits, ServiceFailed, ExpireLifetime, IdleTimerWakes, ExpireIdle, Stop,
     StartAction, OutputCancels, SendAck, RetryUpdate, StartUpdate, UploadStep,
     CancelUpload, UploadHandlerDropped, BeginInitialization, InitializerStep,
     PrepareWorkspace, RunPhases, StartServices, SpawnServices, AwaitServices,
     PreCommit, PersistReady, CommitElection, RevokeCommit, InitializerCleanup,
     WorkerStep, ActionRuns, SnapshotArtifacts, PublishCheck, EnqueueFinal, AwaitAck,
     DiscardArchive, FinishAction, StreamStep, ConsumeFinal, AcknowledgeDelivery,
     DisconnectAction, UpdateStep, ApplyUpdate, CommitUpdate, RollBack,
     FinishUpdateError, UpdateWorkerPanicked, Cleanup, TakeServices, StopServices,
     Teardown, CollectFinalArtifacts, RemoveWorkspace, RemoveMetadata, Unregister

(* A thread moves to a label other than the last step of cleanup.          *)
NotLast == UNCHANGED pc \/ \E t \in Threads, l \in Labels \ {"terminate"} : Goto(t, l)

(* Only the thread that releases the permit reaches the last step of       *)
(* cleanup.                                                                *)
LEMMA LastStepMoves ==
    [Next]_vars => \/ NotLast \/ Reserve \/ BeginInitialization
                   \/ \E t \in Threads : TakeServices(t) \/ ReleasePermit(t)
  <1> USE ThreadFacts, LabelFacts, Zenon DEF NotLast
  <1>1. ASSUME UploadStep \/ Disconnect PROVE NotLast \/ BeginInitialization
    BY <1>1, Zenon DEF UploadStep, CancelUpload, UploadHandlerDropped, Disconnect
  <1>2. ASSUME InitializerStep PROVE NotLast
    BY <1>2, Zenon DEF InitializerStep, PrepareWorkspace, RunPhases, StartServices,
       SpawnServices, AwaitServices, PreCommit, PersistReady, CommitElection,
       WriteMetadata, RevokeCommit, InitializerCleanup
  <1>3. ASSUME ServiceFailed \/ ExpireLifetime \/ ExpireIdle PROVE NotLast
    BY <1>3, Zenon DEF ServiceFailed, ExpireLifetime, ExpireIdle, Preempt
  <1>4. ASSUME NEW k \in Stops, Stop(k) PROVE NotLast
    BY <1>4, Zenon DEF Stop, Preempt
  <1>5. ASSUME NEW a \in Actions, WorkerStep(a) PROVE NotLast
    BY <1>5, Zenon DEF WorkerStep, ActionRuns, SnapshotArtifacts, PublishCheck, EnqueueFinal,
       AwaitAck, DiscardArchive, FinishAction
  <1>6. ASSUME NEW u \in Updates, RetryUpdate(u) \/ StartUpdate(u) \/ UpdateStep(u)
        PROVE  NotLast
    BY <1>6, Zenon DEF RetryUpdate, StartUpdate, UpdateStep, ApplyUpdate, CommitUpdate,
       RollBack, FinishUpdate, FinishUpdateError, UpdateWorkerPanicked, WriteMetadata
  <1>7. ASSUME NEW t \in Threads, Cleanup(t)
        PROVE  NotLast \/ TakeServices(t) \/ ReleasePermit(t)
    BY <1>7, Zenon DEF Cleanup, StopServices, Teardown, CollectFinalArtifacts, RemoveWorkspace,
       RemoveMetadata, Unregister, BecomeTerminated
  <1> QED
    BY <1>1, <1>2, <1>3, <1>4, <1>5, <1>6, <1>7, Zenon DEF Next, vars, DeadlinePasses,
       IdlePeriodPasses, InitializationCancelled, ServiceExits, IdleTimerWakes,
       StopCompletes, StartAction, OutputCancels, StreamStep, ConsumeFinal,
       AcknowledgeDelivery, DisconnectAction, SendAck

(* Every step keeps a session that ended without its permit.               *)
LEMMA ReleasedStep ==
    ASSUME TypeOK, PhaseOK, ReleasedOK, [Next]_vars
    PROVE  ReleasedOK'
  <1>1. CASE Reserve
    <2>1. st' = "Initializing" /\ \A t \in Threads : pc'[t] # "terminate"
      BY <1>1, ThreadFacts, Zenon DEF Reserve, PhaseOK, TypeOK, ThreadTypes
    <2> QED
      BY <2>1, Zenon DEF ReleasedOK
  <1>2. ASSUME NEW t \in Threads, ReleasePermit(t) \/ BecomeTerminated(t) PROVE ReleasedOK'
    <2>1. ~permit'
      BY <1>2, Zenon DEF ReleasePermit, BecomeTerminated, ReleasedOK, admission
    <2> QED
      BY <2>1, Zenon DEF ReleasedOK
  <1>3. CASE UNCHANGED permit /\ PhaseMove
             /\ ~(Reserve \/ \E t \in Threads : ReleasePermit(t) \/ BecomeTerminated(t))
    <2>1. st' \in {"Absent", "Terminated"} => st' = st
      BY <1>3, Zenon DEF PhaseMove, Elect
    <2>2. \A t \in Threads : pc'[t] = "terminate" => pc[t] = "terminate"
      BY <1>3, LastStepMoves, ThreadFacts, Zenon
         DEF NotLast, Goto, TakeServices, BeginInitialization, TypeOK, ThreadTypes
    <2> QED
      BY <1>3, <2>1, <2>2, ReleasedFrame, Zenon
  <1>4. \/ UNCHANGED permit \/ Reserve
        \/ \E t \in Threads : ReleasePermit(t) \/ BecomeTerminated(t)
    BY ContractMoves, Zenon DEF StopCompletes, FinishUpdate, admission
  <1> QED
    BY <1>1, <1>2, <1>3, <1>4, PhaseMoves, Zenon

(* Every step is a step of the contract or hidden from it.                 *)
LEMMA ContractStep ==
    ASSUME Sound, ReleasedOK, [Next]_vars
    PROVE  [Contract!Next]_(Contract!vars)
  <1> USE DEF Sound, TypeOK, ThreadTypes, Goto, lifecycle, admission, updating, results
  <1>1. CASE /\ UNCHANGED <<permit, revision>> /\ PhaseMove
             /\ \/ UNCHANGED outcome
                \/ \E u \in Updates : \E o : outcome' = [outcome EXCEPT ![u] = o]
    <2>1. \A k \in Stops : outcome'[k] = outcome[k]
      BY <1>1, DistinctThreads, Zenon
    <2>2. CASE UNCHANGED <<st, winner>>
      BY <1>1, <2>1, <2>2, Hidden, Zenon
    <2>3. CASE st \in Live /\ \E t \in Threads, e \in BOOLEAN, o \in Owners : Elect(t, e, o)
      BY <1>1, <2>1, <2>3, Closes, Zenon DEF Elect, Contract!Next
    <2>4. CASE /\ UNCHANGED winner
               /\ \/ st \in Live \ {"Ready"} /\ st' = "Ready"
                  \/ st = "Ready" /\ st' \in {"Action", "Updating"}
      BY <1>1, <2>1, <2>4, Progresses, Zenon DEF Live, Contract!Next
    <2> QED
      BY <1>1, <2>2, <2>3, <2>4, Zenon DEF PhaseMove
  <1>2. CASE Reserve
    <2>1. UNCHANGED <<CloserOf, AnsweredOf>>
      BY <1>2, Zenon DEF Reserve, CloserOf, AnsweredOf
    <2> QED
      BY <1>2, <2>1, Zenon DEF Reserve, PhaseOf, Contract!Reserve, Contract!Next
  <1>3. ASSUME NEW k \in Stops, StopCompletes(k)
        PROVE  [Contract!Next]_(Contract!vars)
    <2>1. winner = k /\ st = "Terminated" /\ outcome' = [outcome EXCEPT ![k] = "ok"]
      BY <1>3, ThreadFacts, Zenon DEF StopCompletes, StopsOK
    <2>2. AnsweredOf' = {k} /\ CloserOf = k /\ UNCHANGED <<CloserOf, PhaseOf>>
      BY <1>3, <2>1, Zenon DEF StopCompletes, AnsweredOf, CloserOf, PhaseOf, StopsOK
    <2> QED
      BY <1>3, <2>1, <2>2, Zenon DEF StopCompletes, PhaseOf, Contract!Answer, Contract!Next
  <1>4. ASSUME NEW u \in Updates, FinishUpdate(u)
        PROVE  [Contract!Next]_(Contract!vars)
    <2>0. \A k \in Stops : outcome'[k] = outcome[k]
      BY <1>4, DistinctThreads, Zenon DEF FinishUpdate
    <2>1. CASE st = "Updating" /\ st' = "Ready"
      <3>1. revision' = revision + 1 /\ UNCHANGED <<permit, winner>>
        BY <1>4, <2>1, Zenon DEF FinishUpdate, BecomeReady, UpdatesOK, Elect
      <3> QED
        BY <2>0, <2>1, <3>1, Progresses, Zenon DEF Contract!Next
    <2>2. CASE st = "Updating" /\ Elect(u, FALSE, "Update") /\ UNCHANGED <<permit, revision>>
      BY <2>0, <2>2, Closes, ThreadFacts, Zenon DEF Elect, Live, Contract!Next
    <2>3. CASE UNCHANGED <<st, permit, revision, winner>>
      BY <2>0, <2>3, Hidden, Zenon
    <2> QED
      BY <1>4, <2>1, <2>2, <2>3, Zenon DEF FinishUpdate, BecomeReady
  <1>5. ASSUME NEW t \in Threads, ReleasePermit(t)
        PROVE  [Contract!Next]_(Contract!vars)
    <2>1. UNCHANGED <<PhaseOf, CloserOf, AnsweredOf>> /\ permit' = FALSE /\ revision' = revision
      BY <1>5, Zenon DEF ReleasePermit, PhaseOf, CloserOf, AnsweredOf
    <2>2. CASE permit
      <3>1. st = "Terminating"
        BY <1>5, <2>2, Zenon DEF ReleasePermit, PhaseOK, Cleaning, CleanupSteps, Over,
           ReleasedOK
      <3> QED
        BY <2>1, <2>2, <3>1, Zenon DEF PhaseOf, Contract!Release, Contract!Next
    <2>3. CASE ~permit
      BY <2>1, <2>3, Zenon DEF Contract!vars, FlagTypes
    <2> QED
      BY <2>2, <2>3, Zenon
  <1>6. ASSUME NEW t \in Threads, BecomeTerminated(t)
        PROVE  [Contract!Next]_(Contract!vars)
    <2>1. Over /\ ~permit /\ st' = "Terminated" /\ UNCHANGED <<permit, revision, winner>>
      BY <1>6, Zenon DEF BecomeTerminated, PhaseOK, Cleaning, CleanupSteps, ReleasedOK
    <2>2. UNCHANGED CloserOf /\ PhaseOf' = "closed" /\ PhaseOf \in {"closing", "closed"}
      BY <2>1, Zenon DEF CloserOf, PhaseOf, Over
    <2>3. CASE t \in Stops
      <3>1. winner = t /\ outcome' = [outcome EXCEPT ![t] = "ok"]
        BY <1>6, <2>3, Zenon DEF BecomeTerminated, StopsOK
      <3>2. AnsweredOf' = {t} /\ CloserOf = t
        BY <2>3, <3>1, Zenon DEF AnsweredOf, CloserOf, StopsOK
      <3> QED
        BY <2>1, <2>2, <2>3, <3>2, Zenon DEF Contract!Finish, Contract!Answer, Contract!Next
    <2>4. CASE t \notin Stops
      <3>1. /\ UNCHANGED AnsweredOf
            /\ st = "Terminating" => AnsweredOf \in {{}, {CloserOf} \cap Stops}
        BY <1>6, <2>4, Zenon DEF BecomeTerminated, AnsweredOf, CloserOf, StopsOK
      <3> QED
        BY <2>1, <2>2, <3>1, Zenon DEF Over, PhaseOf, Contract!Finish, Contract!Next,
           Contract!vars
    <2> QED
      BY <2>3, <2>4, Zenon
  <1> QED
    <2> HIDE DEF Sound, TypeOK, Goto, PhaseMove
    <2> QED
      BY <1>1, <1>2, <1>3, <1>4, <1>5, <1>6, ContractMoves, PhaseMoves, Zenon

(* The session implements its contract, for any number of actions, updates *)
(* and stops, with or without services.                                    *)
THEOREM ContractImplemented == Spec => ImplementsContract
  <1>1. Init => Contract!Init /\ ReleasedOK
    BY ThreadFacts, Zenon DEF Init, Contract!Init, ReleasedOK, PhaseOf, CloserOf, AnsweredOf
  <1>2. Sound /\ ReleasedOK /\ [Next]_vars => ReleasedOK'
    BY ReleasedStep, Zenon DEF Sound
  <1>3. Spec => []ReleasedOK
    BY <1>1, <1>2, SoundCorrect, PTL DEF Spec
  <1>4. Sound /\ ReleasedOK /\ [Next]_vars => [Contract!Next]_(Contract!vars)
    BY ContractStep, Zenon
  <1> QED
    BY <1>1, <1>3, <1>4, SoundCorrect, PTL DEF Spec, ImplementsContract, Contract!Spec

(***************************************************************************)
(* Each update follows UpdateContract.                                     *)
(***************************************************************************)
AtWork == {"apply", "mutated", "undo", "undoUnproven", "rolledBack", "unprovable", "committed"}

(* Where UpdateContract sees an update.                                    *)
LEMMA UpdatePhases ==
    ASSUME NEW u \in Updates
    PROVE  /\ pc[u] = "idle" => UpdatePhase(u) = "idle"
           /\ pc[u] \in AtWork => UpdatePhase(u) = pc[u]
           /\ pc[u] \in CleanupSteps \cup {"done"} => UpdatePhase(u) = "over"
  BY Zenon DEF UpdatePhase, AtWork, CleanupSteps

(* The steps of everyone but the updates leave the files of the workspace  *)
(* as trusted as they were and move no update but one that cleans up.      *)
NoUpdate ==
    /\ UNCHANGED dirty
    /\ \/ UNCHANGED pc
       \/ \E t \in Threads \ Updates, l \in Labels : Goto(t, l)
       \/ Reserve \/ BeginInitialization
       \/ \E t \in Threads : Cleanup(t)

(* Every step is one of an update or leaves updates alone.                 *)
LEMMA UpdateMoves ==
    ASSUME [Next]_vars
    PROVE  NoUpdate \/ \E u \in Updates : RetryUpdate(u) \/ StartUpdate(u) \/ UpdateStep(u)
  <1>0. /\ \A t \in System \cup Actions \cup Stops : t \in Threads \ Updates
    BY DistinctThreads, ThreadFacts DEF Threads, System, Operations
  <1> USE ThreadFacts, LabelFacts, DistinctThreads DEF NoUpdate, files, System
  <1>1. ASSUME UploadStep \/ Disconnect \/ ServiceFailed \/ ExpireLifetime \/ ExpireIdle
               \/ IdleTimerWakes \/ ServiceExits \/ Reserve
        PROVE  NoUpdate
    BY <1>0, <1>1, Zenon DEF UploadStep, CancelUpload, UploadHandlerDropped, Reserve,
       Disconnect, ServiceFailed, ExpireLifetime, ExpireIdle, IdleTimerWakes, Preempt,
       ServiceExits, BeginInitialization
  <1>2. ASSUME InitializerStep PROVE NoUpdate
    BY <1>0, <1>2, Zenon DEF InitializerStep, PrepareWorkspace, RunPhases, StartServices,
       SpawnServices, AwaitServices, PreCommit, PersistReady, CommitElection,
       WriteMetadata, RevokeCommit, InitializerCleanup
  <1>3. ASSUME NEW k \in Stops, Stop(k) \/ StopCompletes(k) PROVE NoUpdate
    BY <1>0, <1>3, Zenon DEF Stop, StopCompletes, Preempt
  <1>4. ASSUME NEW a \in Actions, StartAction(a) \/ WorkerStep(a) PROVE NoUpdate
    BY <1>0, <1>4, Zenon DEF StartAction, WorkerStep, ActionRuns, SnapshotArtifacts,
       PublishCheck, EnqueueFinal, AwaitAck, DiscardArchive, FinishAction
  <1>5. ASSUME NEW t \in Threads, Cleanup(t) PROVE NoUpdate
    BY <1>5, Zenon DEF Cleanup, TakeServices, StopServices, Teardown, CollectFinalArtifacts,
       RemoveWorkspace, RemoveMetadata, Unregister, ReleasePermit, BecomeTerminated
  <1>6. ASSUME UNCHANGED <<dirty, pc>> PROVE NoUpdate
    BY <1>6, Zenon
  <1> HIDE DEF NoUpdate
  <1> QED
    BY <1>1, <1>2, <1>3, <1>4, <1>5, <1>6, Zenon DEF Next, vars, DeadlinePasses,
       IdlePeriodPasses, InitializationCancelled, OutputCancels, StreamStep, ConsumeFinal,
       AcknowledgeDelivery, DisconnectAction, SendAck

(* A step in the terms of UpdateContract, for an update and the workspace. *)
Conforms(u) == Update(u)!Step \/ UNCHANGED <<UpdatePhase(u), dirty>>

(* An update that did not move conforms if it is not at work or nobody     *)
(* touched the files.                                                      *)
LEMMA StillConforms ==
    ASSUME LabelsOK, NEW u \in Updates, pc'[u] = pc[u], dirty' = dirty \/ pc[u] \notin AtWork
    PROVE  Conforms(u)
  <1>1. UpdatePhase(u)' = UpdatePhase(u) BY Zenon DEF UpdatePhase
  <1>2. CASE dirty' = dirty BY <1>1, <1>2, Zenon DEF Conforms
  <1>3. CASE pc[u] \notin AtWork
    <2>1. UpdatePhase(u) \in {"idle", "over"}
      BY <1>3, UpdatePhases, Zenon DEF LabelsOK, UpdateLabels, AtWork
    <2> QED BY <1>1, <2>1, Zenon DEF Conforms, Update!Step
  <1> QED BY <1>2, <1>3, Zenon

(* An update is at work alone.                                             *)
LEMMA AloneAtWork ==
    ASSUME PhaseOK, NEW u \in Updates, NEW v \in Updates, pc[u] \in AtWork, pc[v] \in AtWork
    PROVE  u = v
  BY Zenon DEF PhaseOK, Engaged, AtWork, CleanupSteps

(* What apply_update does in the session, step by step.                    *)
LEMMA UpdateStepConforms ==
    ASSUME TypeOK, TypeOK', NEW u \in Updates, RetryUpdate(u) \/ StartUpdate(u) \/ UpdateStep(u)
    PROVE  Conforms(u)
  <1>0. u \in Threads /\ pc \in [Threads -> Labels] /\ dirty' \in BOOLEAN
    BY ThreadFacts, Zenon DEF TypeOK, ThreadTypes, FlagTypes
  <1>1. \/ pc[u] = "idle" /\ pc'[u] \in {"apply", "done"} /\ dirty' = dirty
        \/ pc[u] = "apply" /\ pc'[u] \in {"rolledBack", "unprovable"} /\ dirty' = dirty
        \/ pc[u] = "apply" /\ pc'[u] = "mutated"
        \/ pc[u] = "mutated" /\ pc'[u] \in {"undo", "undoUnproven"}
        \/ pc[u] = "mutated" /\ pc'[u] = "committed" /\ dirty' = FALSE
        \/ pc[u] = "undo" /\ pc'[u] = "rolledBack" /\ dirty' = FALSE
        \/ pc[u] \in {"undo", "undoUnproven"} /\ pc'[u] = "unprovable"
        \/ pc[u] \in AtWork /\ pc'[u] \in {"services", "done"}
    <2> USE <1>0 DEF Goto
    <2>1. CASE RetryUpdate(u) BY <2>1, Zenon DEF RetryUpdate, files
    <2>2. CASE StartUpdate(u) BY <2>2, Zenon DEF StartUpdate, files
    <2>3. CASE ApplyUpdate(u) BY <2>3, Zenon DEF ApplyUpdate
    <2>4. CASE CommitUpdate(u) BY <2>4, Zenon DEF CommitUpdate, WriteMetadata
    <2>5. CASE RollBack(u) BY <2>5, Zenon DEF RollBack
    <2>6. CASE FinishUpdate(u) BY <2>6, Zenon DEF FinishUpdate, AtWork
    <2>7. CASE FinishUpdateError(u) BY <2>7, Zenon DEF FinishUpdateError, AtWork
    <2>8. CASE UpdateWorkerPanicked(u) BY <2>8, Zenon DEF UpdateWorkerPanicked, AtWork
    <2> QED BY <2>1, <2>2, <2>3, <2>4, <2>5, <2>6, <2>7, <2>8, Zenon DEF UpdateStep
  <1>2. /\ UpdatePhase(u) = IF pc[u] = "idle" THEN "idle" ELSE pc[u]
        /\ UpdatePhase(u)' = IF pc'[u] \in {"services", "done"} THEN "over" ELSE pc'[u]
    BY <1>1, Zenon DEF UpdatePhase, AtWork
  <1> QED
    BY <1>0, <1>1, <1>2 DEF Conforms, AtWork, Update!Step, Update!Next, Update!Start,
       Update!Refuse, Update!Mutate, Update!Commit, Update!Fail, Update!RollBack, Update!Leave

(* Steps of everyone else conform for every update.                        *)
LEMMA OthersConform ==
    ASSUME TypeOK, LabelsOK, NoUpdate, NEW u \in Updates
    PROVE  Conforms(u)
  <1>0. u \in Threads /\ pc \in [Threads -> Labels] /\ dirty' = dirty
    BY ThreadFacts, Zenon DEF TypeOK, ThreadTypes, NoUpdate
  <1>1. CASE pc'[u] = pc[u]
    BY <1>0, <1>1, StillConforms, Zenon
  <1>2. CASE pc[u] \in CleanupSteps /\ pc'[u] \in CleanupSteps \cup {"done"}
    BY <1>0, <1>2, Zenon DEF Conforms, UpdatePhase, CleanupSteps
  <1>3. ASSUME NEW t \in Threads, Cleanup(t) PROVE Conforms(u)
    <2>1. TakeServices(t) \/ (Cleaning(t) /\ \E l \in CleanupSteps \cup {"done"} : Goto(t, l))
      BY <1>3, Zenon DEF Cleanup, StopServices, Teardown, CollectFinalArtifacts,
         RemoveWorkspace, RemoveMetadata, Unregister, ReleasePermit, BecomeTerminated,
         Cleaning, CleanupSteps
    <2>2. CASE TakeServices(t)
      <3>1. u # "lifetime" BY DistinctThreads, ThreadFacts, Zenon DEF System
      <3>2. pc'[u] = pc[u] \/ (pc[u] = "services" /\ pc'[u] \in {"stopping", "teardown"})
        BY <1>0, <2>2, <3>1, Zenon DEF TakeServices
      <3> QED BY <1>1, <1>2, <3>2, Zenon DEF CleanupSteps
    <2>3. CASE Cleaning(t) /\ \E l \in CleanupSteps \cup {"done"} : Goto(t, l)
      <3>1. pc'[u] = pc[u] \/ (pc[u] \in CleanupSteps /\ pc'[u] \in CleanupSteps \cup {"done"})
        BY <1>0, <2>3, Zenon DEF Cleaning, Goto
      <3> QED BY <1>1, <1>2, <3>1, Zenon
    <2> QED BY <2>1, <2>2, <2>3, Zenon
  <1>4. ASSUME Reserve \/ BeginInitialization \/ UNCHANGED pc
               \/ \E t \in Threads \ Updates, l \in Labels : Goto(t, l)
        PROVE  pc'[u] = pc[u]
    <2>1. u \notin System BY DistinctThreads, ThreadFacts, Zenon DEF System
    <2> QED BY <1>0, <1>4, <2>1, Zenon DEF Reserve, BeginInitialization, Goto, System
  <1> QED BY <1>1, <1>3, <1>4, Zenon DEF NoUpdate

(***************************************************************************)
(* The session drives every update as UpdateContract allows, whatever      *)
(* stops, timers and panics do to it.                                      *)
(***************************************************************************)
THEOREM UpdatesFollowContract == Spec => UpdatesConform
  <1>1. Init => \A u \in Updates : Update(u)!Init
    BY ThreadFacts, Zenon DEF Init, Update!Init, UpdatePhase
  <1>2. Sound /\ Sound' /\ [Next]_vars =>
           [\A u \in Updates : Update(u)!Step \/ UNCHANGED <<UpdatePhase(u), dirty>>]_vars
    <2> SUFFICES ASSUME Sound, Sound', [Next]_vars, NEW u \in Updates PROVE Conforms(u)
      BY Zenon DEF Conforms
    <2> USE DEF Sound
    <2>1. CASE NoUpdate BY <2>1, OthersConform, Zenon
    <2>2. ASSUME NEW v \in Updates, RetryUpdate(v) \/ StartUpdate(v) \/ UpdateStep(v)
          PROVE  Conforms(u)
      <3>1. CASE u = v BY <2>2, <3>1, UpdateStepConforms, Zenon
      <3>2. CASE u # v
        <4>1. pc'[u] = pc[u] /\ (dirty' = dirty \/ pc[v] \in AtWork)
          <5>0. u \in Threads /\ v \in Threads /\ pc \in [Threads -> Labels]
            BY ThreadFacts, Zenon DEF TypeOK, ThreadTypes
          <5>1. \E l : Goto(v, l)
            BY <2>2, Zenon DEF RetryUpdate, StartUpdate, UpdateStep, ApplyUpdate, CommitUpdate,
               RollBack, FinishUpdate, FinishUpdateError, UpdateWorkerPanicked, WriteMetadata
          <5>2. dirty' = dirty \/ pc[v] \in AtWork
            BY <2>2, Zenon DEF RetryUpdate, StartUpdate, UpdateStep, ApplyUpdate, CommitUpdate,
               RollBack, FinishUpdate, FinishUpdateError, UpdateWorkerPanicked, AtWork, files
          <5> QED BY <3>2, <5>0, <5>1, <5>2, Zenon DEF Goto
        <4> QED BY <3>2, <4>1, StillConforms, AloneAtWork, Zenon
      <3> QED BY <3>1, <3>2, Zenon
    <2> QED BY <2>1, <2>2, UpdateMoves, Zenon
  <1> QED
    BY <1>1, <1>2, SoundCorrect, PTL DEF Spec, UpdatesConform
=============================================================================
