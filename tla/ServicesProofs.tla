--------------------------- MODULE ServicesProofs ---------------------------
(***************************************************************************)
(* The safety of the retained services (Services) for any number of        *)
(* services, daemon crashes and faults.                                    *)
(***************************************************************************)
EXTENDS Services, TLAPS

Boots == {"recordStart", "next", "status", "drop", "record", "await", "elect"}
Messages == {"spawned", "failed", "ended"}
Supervising ==
    {"starting", "spawned", "watching", "terminating", "reporting", "erring"}

(* The daemon's memory, its ends of the pipes, the disk, the processes and *)
(* the history.                                                            *)
MemoryTypes ==
    /\ daemon \in {"running", "down", "reconciling"}
    /\ session \in {"starting", "ready", "ending", "over"}
    /\ boot \in Boots \cup {"none"} /\ cur \in 1 .. N + 1
    /\ handed \in SUBSET Svc /\ left \in SUBSET Svc
    /\ cleanup \in {"none", "stop", "join", "group", "remove"} /\ unproven \in BOOLEAN
DiskTypes == meta \in {"none", "starting", "ready"} /\ recorded \in SUBSET Svc
ProcessTypes ==
    /\ sup \in [Svc -> Supervising \cup {"none", "exited"}]
    /\ status \in [Svc -> Seq(Messages)]
    /\ group \in [Svc -> {"none", "up", "orphans", "gone"}]
    /\ seenReady \in SUBSET Svc /\ crashes \in Nat
ServicesTypes == MemoryTypes /\ DiskTypes /\ ProcessTypes

(* While start_configured_services runs, the services before the current   *)
(* one are handed over, recorded and ready, and none after it has started. *)
BootOK ==
    boot # "none" =>
        /\ daemon = "running" /\ session \in {"starting", "ending"} /\ cleanup = "none"
        /\ crashes = 0
        /\ boot \in {"status", "drop", "record", "await"} => cur <= N
        /\ seenReady = 1 .. cur - 1
        /\ handed = IF boot \in {"record", "await"} THEN 1 .. cur ELSE 1 .. cur - 1
        /\ recorded = IF boot = "await" THEN 1 .. cur ELSE 1 .. cur - 1
        /\ boot = "elect" => cur = N + 1 /\ meta = "ready"
        /\ \A s \in Svc : s > cur \/ (s = cur /\ boot \in {"recordStart", "next"}) =>
              sup[s] = "none"

(* Who is at work: after a crash no session is, a Ready session is not yet *)
(* cleaned up, and reconciliation only removes.                            *)
DaemonOK ==
    /\ session = "ready" => boot = "none" /\ cleanup = "none" /\ daemon = "running"
    /\ crashes > 0 => session = "over" /\ boot = "none" /\ (daemon = "running" => cleanup = "none")
    /\ daemon # "running" => crashes > 0
    /\ daemon = "down" => cleanup = "none"
    /\ daemon = "reconciling" => cleanup \in {"none", "remove"}
    /\ cleanup = "remove" => left = {}
    /\ cleanup # "none" => session \in {"ending", "over"}

(* What a supervisor has said and done.                                    *)
SupervisorOK ==
    \A s \in Svc :
        /\ sup[s] \in {"none", "starting"} => ~Alive(s)
        /\ sup[s] \in {"none", "starting", "spawned"} => status[s] = <<>>
        /\ sup[s] \in {"reporting", "exited"} /\ s \notin harmed => ~Alive(s)
        /\ s \in handed => sup[s] \notin {"none", "starting"}

(* In the daemon's first life a service that was not handed over is the    *)
(* one being started or was abandoned, and one that was stopped is gone.   *)
OwnedOK ==
    /\ crashes = 0 =>
          \A s \in Svc \ handed : Running(s) \/ Alive(s) =>
              s \in abandoned \/ (s = cur /\ boot \in {"status", "drop"})
    /\ daemon = "running" /\ cleanup # "none" =>
          \A s \in handed \ left : Alive(s) => unproven

(* After a crash whatever lives is recorded or was lost, and what          *)
(* reconciliation has looked at is gone.                                   *)
StaleOK ==
    /\ crashes > 0 => \A s \in Svc : Running(s) \/ Alive(s) => s \in recorded \cup lost
    /\ daemon = "reconciling" => \A s \in recorded \ left : ~Running(s) /\ ~Alive(s)

ServicesInv ==
    ServicesTypes /\ BootOK /\ DaemonOK /\ SupervisorOK /\ OwnedOK /\ StaleOK /\ ReadyIsServed

(* What the steps of the monitors, the supervisors and the services, but   *)
(* for service_failed, have in common: the daemon's memory and the disk    *)
(* are as they were, no supervisor starts, and only one that was starting  *)
(* brings a service to life.                                               *)
ProcessStep(s) ==
    \/ MonitorReads(s) \/ MonitorReaps(s) \/ OutputDrainFails(s) \/ Supervisor(s)
    \/ LeaderExits(s) \/ CloseReadiness(s) \/ SupervisorDies(s)

OthersKept == UNCHANGED <<memory, disk, seenReady, abandoned, lost, crashes>>
NoneStarts ==
    \A t \in Svc :
        /\ sup[t] = "none" => sup'[t] = "none"
        /\ Running(t)' => Running(t)
        /\ Alive(t)' => Alive(t) \/ sup[t] = "starting"

(* A step outside the daemon's own threads leaves its memory and the disk  *)
(* alone and starts nothing but the service of a new supervisor.           *)
LEMMA ProcessMoves ==
    ASSUME ProcessTypes, NEW s \in Svc, ProcessStep(s)
    PROVE  OthersKept /\ NoneStarts
  <1> USE DEF ProcessTypes, OthersKept, NoneStarts, Alive, Running, memory,
     pipes, disk, procs, past
  <1>1. CASE MonitorReads(s)
    BY <1>1 DEF MonitorReads
  <1>2. CASE MonitorReaps(s)
    BY <1>2 DEF MonitorReaps, NoFault, Harm, Fault
  <1>3. CASE OutputDrainFails(s)
    BY <1>3 DEF OutputDrainFails, Fault
  <1>4. CASE SpawnService(s)
    BY <1>4 DEF SpawnService
  <1>5. CASE ReportSpawned(s)
    BY <1>5 DEF ReportSpawned
  <1>6. CASE Notice(s)
    BY <1>6 DEF Notice
  <1>7. CASE TerminateGroup(s)
    BY <1>7 DEF TerminateGroup, NoFault, Harm, Fault
  <1>8. CASE ReportEnd(s)
    BY <1>8 DEF ReportEnd
  <1>9. CASE FailSupervision(s)
    BY <1>9 DEF FailSupervision, NoFault, Harm, Fault
  <1>10. CASE LeaderExits(s)
    BY <1>10 DEF LeaderExits
  <1>11. CASE CloseReadiness(s)
    BY <1>11 DEF CloseReadiness
  <1>12. CASE SupervisorDies(s)
    BY <1>12 DEF SupervisorDies, Harm, Fault
  <1> QED
    BY <1>1, <1>2, <1>3, <1>4, <1>5, <1>6, <1>7, <1>8, <1>9, <1>10, <1>11, <1>12
       DEF ProcessStep, Supervisor

(* The daemon's memory keeps its types.                                   *)
LEMMA MemoryStep ==
    ASSUME ServicesTypes, BootOK, [Next]_vars
    PROVE  MemoryTypes'
  <1> recorded \in SUBSET Svc
    BY DEF ServicesTypes, DiskTypes
  <1> N \in Nat /\ N > 0
    BY SomeService
  <1> USE DEF ServicesTypes, MemoryTypes, Boots, memory, pipes, disk, procs,
     past, Svc
  <1>1. CASE daemon = "running" /\ RecordStart
    BY <1>1, Zenon DEF RecordStart, FailBoot
  <1>2. CASE daemon = "running" /\ SpawnSupervisor
    BY <1>2, Zenon DEF SpawnSupervisor, FailBoot
  <1>3. CASE daemon = "running" /\ AwaitStatus
    <2>1. cur \in 1 .. N
      BY <1>3 DEF AwaitStatus, BootOK
    <2> QED
      BY <1>3, <2>1 DEF AwaitStatus, ReadStatus, HandOver
  <1>4. CASE daemon = "running" /\ DropPending
    BY <1>4 DEF DropPending, Running, Harm, Fault, NoFault, FailBoot
  <1>5. CASE daemon = "running" /\ RecordService
    BY <1>5, Zenon DEF RecordService, FailBoot
  <1>6. CASE daemon = "running" /\ WaitReady
    <2>1. cur \in 1 .. N
      BY <1>6 DEF WaitReady, BootOK
    <2>2. cur + 1 \in 1 .. N + 1
      BY <2>1
    <2> QED
      BY <1>6, <2>2, Zenon DEF WaitReady, FailBoot
  <1>7. CASE daemon = "running" /\ PersistReady
    BY <1>7, Zenon DEF PersistReady, FailBoot
  <1>8. CASE daemon = "running" /\ CommitReady
    BY <1>8, Zenon DEF CommitReady, FailBoot
  <1>9. CASE EndSession
    BY <1>9, Zenon DEF EndSession, Terminate
  <1>10. CASE daemon = "running" /\ CloseControl
    BY <1>10 DEF CloseControl
  <1>11. CASE daemon = "running" /\ JoinMonitor
    BY <1>11, Zenon DEF JoinMonitor, Running, NoFault, Harm, Fault
  <1>12. CASE daemon = "running" /\ StopGroup
    BY <1>12, Zenon DEF StopGroup, NoFault, Harm, Fault
  <1>13. CASE daemon = "running" /\ TearDown
    BY <1>13 DEF TearDown
  <1>14. CASE daemon = "running" /\ RemoveSession
    BY <1>14 DEF RemoveSession
  <1>15. CASE Crash
    BY <1>15, Zenon DEF Crash
  <1>16. CASE Restart
    BY <1>16 DEF Restart
  <1>17. CASE AwaitStaleService
    BY <1>17, Zenon DEF AwaitStaleService, StaleServiceGone
  <1>18. CASE ReconcileTearDown
    BY <1>18 DEF ReconcileTearDown
  <1>19. CASE RemoveSessionFiles
    BY <1>19 DEF RemoveSessionFiles
  <1>20. ASSUME NEW s \in Svc, ServiceFailed(s)
        PROVE  MemoryTypes'
    BY <1>20, Zenon DEF ServiceFailed, Terminate
  <1>21. ASSUME NEW s \in Svc, ProcessStep(s)
        PROVE  MemoryTypes'
    BY <1>21, ProcessMoves, Zenon DEF OthersKept, NoneStarts
  <1>22. CASE UNCHANGED vars
    BY <1>22 DEF vars
  <1> QED
    BY <1>1, <1>2, <1>3, <1>4, <1>5, <1>6, <1>7, <1>8, <1>9, <1>10, <1>11,
       <1>12, <1>13, <1>14, <1>15, <1>16, <1>17, <1>18, <1>19, <1>20, <1>21,
       <1>22 DEF Next, Boot, Cleanup, Reconcile, ProcessStep

(* A step keeps what start_configured_services has done so far: it hands   *)
(* over, records and awaits one service after the other.                   *)
LEMMA BootStep ==
    ASSUME ServicesInv, [Next]_vars
    PROVE  BootOK'
  <1> N \in Nat /\ N > 0
    BY SomeService
  <1> \A n \in 1 .. N + 1 : 1 .. n = (1 .. n - 1) \cup {n}
    BY SomeService
  <1> sup \in [Svc -> Supervising \cup {"none", "exited"}]
    BY DEF ServicesInv, ServicesTypes, ProcessTypes
  <1> USE DEF ServicesInv, ServicesTypes, MemoryTypes, BootOK, DaemonOK, Boots,
     memory, pipes, disk, procs, past, Svc
  <1>1. CASE daemon = "running" /\ RecordStart
    BY <1>1 DEF RecordStart, FailBoot
  <1>2. CASE daemon = "running" /\ SpawnSupervisor
    BY <1>2 DEF SpawnSupervisor, FailBoot
  <1>3. CASE daemon = "running" /\ AwaitStatus
    BY <1>3, Zenon DEF AwaitStatus, ReadStatus, HandOver
  <1>4. CASE daemon = "running" /\ DropPending
    BY <1>4 DEF DropPending, Running, Harm, Fault, NoFault, FailBoot
  <1>5. CASE daemon = "running" /\ RecordService
    BY <1>5 DEF RecordService, FailBoot
  <1>6. CASE daemon = "running" /\ WaitReady
    <2>1. CASE boot' = "none"
      BY <2>1
    <2>2. CASE boot' = "next"
      <3>1. /\ cur' = cur + 1 /\ seenReady' = seenReady \cup {cur}
            /\ UNCHANGED <<daemon, session, cleanup, crashes, handed, recorded, sup>>
        BY <1>6, <2>2 DEF WaitReady, FailBoot
      <3>2. seenReady' = 1 .. cur
        BY <1>6, <3>1 DEF WaitReady
      <3>3. cur' - 1 = cur
        BY <3>1
      <3> QED
        BY <1>6, <2>2, <3>1, <3>2, <3>3 DEF WaitReady
    <2> QED
      BY <1>6, <2>1, <2>2 DEF WaitReady, FailBoot
  <1>7. CASE daemon = "running" /\ PersistReady
    BY <1>7 DEF PersistReady, FailBoot
  <1>8. CASE daemon = "running" /\ CommitReady
    BY <1>8 DEF CommitReady, FailBoot
  <1>9. CASE EndSession
    BY <1>9 DEF EndSession, Terminate
  <1>10. CASE daemon = "running" /\ CloseControl
    BY <1>10 DEF CloseControl
  <1>11. CASE daemon = "running" /\ JoinMonitor
    BY <1>11 DEF JoinMonitor, Running, NoFault, Harm, Fault
  <1>12. CASE daemon = "running" /\ StopGroup
    BY <1>12 DEF StopGroup, NoFault, Harm, Fault
  <1>13. CASE daemon = "running" /\ TearDown
    BY <1>13 DEF TearDown
  <1>14. CASE daemon = "running" /\ RemoveSession
    BY <1>14 DEF RemoveSession
  <1>15. CASE Crash
    BY <1>15 DEF Crash
  <1>16. CASE Restart
    BY <1>16 DEF Restart
  <1>17. CASE AwaitStaleService
    BY <1>17 DEF AwaitStaleService, StaleServiceGone
  <1>18. CASE ReconcileTearDown
    BY <1>18 DEF ReconcileTearDown
  <1>19. CASE RemoveSessionFiles
    BY <1>19 DEF RemoveSessionFiles
  <1>20. ASSUME NEW s \in Svc, ServiceFailed(s)
        PROVE  BootOK'
    BY <1>20 DEF ServiceFailed, Terminate
  <1>21. ASSUME NEW s \in Svc, ProcessStep(s)
        PROVE  BootOK'
    BY <1>21, ProcessMoves DEF OthersKept, NoneStarts
  <1>22. CASE UNCHANGED vars
    BY <1>22 DEF vars
  <1> QED
    BY Zenon, <1>1, <1>2, <1>3, <1>4, <1>5, <1>6, <1>7, <1>8, <1>9, <1>10, <1>11,
       <1>12, <1>13, <1>14, <1>15, <1>16, <1>17, <1>18, <1>19, <1>20, <1>21,
       <1>22 DEF Next, Boot, Cleanup, Reconcile, ProcessStep

(* The metadata keeps its types.                                           *)
LEMMA DiskStep ==
    ASSUME ServicesTypes, [Next]_vars
    PROVE  DiskTypes'
  <1> handed \in SUBSET Svc
    BY DEF ServicesTypes, MemoryTypes
  <1> USE DEF ServicesTypes, DiskTypes, memory, pipes, disk, procs, past, Svc
  <1>1. CASE daemon = "running" /\ RecordStart
    BY <1>1 DEF RecordStart, FailBoot
  <1>2. CASE daemon = "running" /\ SpawnSupervisor
    BY <1>2 DEF SpawnSupervisor, FailBoot
  <1>3. CASE daemon = "running" /\ AwaitStatus
    BY <1>3 DEF AwaitStatus, ReadStatus, HandOver
  <1>4. CASE daemon = "running" /\ DropPending
    BY <1>4 DEF DropPending, Running, Harm, Fault, NoFault, FailBoot
  <1>5. CASE daemon = "running" /\ RecordService
    BY <1>5, Zenon DEF RecordService, FailBoot
  <1>6. CASE daemon = "running" /\ WaitReady
    BY <1>6 DEF WaitReady, FailBoot
  <1>7. CASE daemon = "running" /\ PersistReady
    BY <1>7 DEF PersistReady, FailBoot
  <1>8. CASE daemon = "running" /\ CommitReady
    BY <1>8, Zenon DEF CommitReady, FailBoot
  <1>9. CASE EndSession
    BY <1>9 DEF EndSession, Terminate
  <1>10. CASE daemon = "running" /\ CloseControl
    BY <1>10 DEF CloseControl
  <1>11. CASE daemon = "running" /\ JoinMonitor
    BY <1>11 DEF JoinMonitor, Running, NoFault, Harm, Fault
  <1>12. CASE daemon = "running" /\ StopGroup
    BY <1>12 DEF StopGroup, NoFault, Harm, Fault
  <1>13. CASE daemon = "running" /\ TearDown
    BY <1>13 DEF TearDown
  <1>14. CASE daemon = "running" /\ RemoveSession
    BY <1>14 DEF RemoveSession
  <1>15. CASE Crash
    BY <1>15 DEF Crash
  <1>16. CASE Restart
    BY <1>16 DEF Restart
  <1>17. CASE AwaitStaleService
    BY <1>17 DEF AwaitStaleService, StaleServiceGone
  <1>18. CASE ReconcileTearDown
    BY <1>18 DEF ReconcileTearDown
  <1>19. CASE RemoveSessionFiles
    BY <1>19 DEF RemoveSessionFiles
  <1>20. ASSUME NEW s \in Svc, ServiceFailed(s)
        PROVE  DiskTypes'
    BY <1>20 DEF ServiceFailed, Terminate
  <1>21. ASSUME NEW s \in Svc, ProcessStep(s)
        PROVE  DiskTypes'
    BY <1>21, ProcessMoves, Zenon DEF OthersKept, NoneStarts
  <1>22. CASE UNCHANGED vars
    BY <1>22 DEF vars
  <1> QED
    BY <1>1, <1>2, <1>3, <1>4, <1>5, <1>6, <1>7, <1>8, <1>9, <1>10, <1>11,
       <1>12, <1>13, <1>14, <1>15, <1>16, <1>17, <1>18, <1>19, <1>20, <1>21,
       <1>22 DEF Next, Boot, Cleanup, Reconcile, ProcessStep

(* The processes and their pipes keep their types.                         *)
LEMMA ProcessTypesStep ==
    ASSUME ServicesTypes, BootOK, [Next]_vars
    PROVE  ProcessTypes'
  <1> USE DEF ServicesTypes, ProcessTypes, Messages, Supervising, memory, pipes,
     disk, procs, past, Svc
  <1>1. CASE daemon = "running" /\ RecordStart
    BY <1>1 DEF RecordStart, FailBoot
  <1>2. CASE daemon = "running" /\ SpawnSupervisor
    BY <1>2 DEF SpawnSupervisor, FailBoot
  <1>3. CASE daemon = "running" /\ AwaitStatus
    <2>1. cur \in Svc
      BY <1>3 DEF AwaitStatus, BootOK, MemoryTypes
    <2>2. Tail(status[cur]) \in Seq(Messages) \/ status[cur] = <<>>
      BY <2>1
    <2> QED
      BY <1>3, <2>1, <2>2, Zenon DEF AwaitStatus, ReadStatus, HandOver
  <1>4. CASE daemon = "running" /\ DropPending
    BY <1>4 DEF DropPending, Running, Harm, Fault, NoFault, FailBoot
  <1>5. CASE daemon = "running" /\ RecordService
    BY <1>5 DEF RecordService, FailBoot
  <1>6. CASE daemon = "running" /\ WaitReady
    <2>1. cur \in Svc
      BY <1>6 DEF WaitReady, BootOK, MemoryTypes
    <2> QED
      BY <1>6, <2>1, Zenon DEF WaitReady, FailBoot
  <1>7. CASE daemon = "running" /\ PersistReady
    BY <1>7 DEF PersistReady, FailBoot
  <1>8. CASE daemon = "running" /\ CommitReady
    BY <1>8 DEF CommitReady, FailBoot
  <1>9. CASE EndSession
    BY <1>9 DEF EndSession, Terminate
  <1>10. CASE daemon = "running" /\ CloseControl
    BY <1>10 DEF CloseControl
  <1>11. CASE daemon = "running" /\ JoinMonitor
    BY <1>11 DEF JoinMonitor, Running, NoFault, Harm, Fault
  <1>12. CASE daemon = "running" /\ StopGroup
    BY <1>12 DEF StopGroup, NoFault, Harm, Fault
  <1>13. CASE daemon = "running" /\ TearDown
    BY <1>13 DEF TearDown
  <1>14. CASE daemon = "running" /\ RemoveSession
    BY <1>14 DEF RemoveSession
  <1>15. CASE Crash
    BY <1>15 DEF Crash
  <1>16. CASE Restart
    BY <1>16 DEF Restart
  <1>17. CASE AwaitStaleService
    BY <1>17 DEF AwaitStaleService, StaleServiceGone
  <1>18. CASE ReconcileTearDown
    BY <1>18 DEF ReconcileTearDown
  <1>19. CASE RemoveSessionFiles
    BY <1>19 DEF RemoveSessionFiles
  <1>20. ASSUME NEW s \in Svc, MonitorReads(s)
        PROVE  ProcessTypes'
    <2>1. Tail(status[s]) \in Seq(Messages) \/ status[s] = <<>>
      OBVIOUS
    <2> QED
      BY <1>20, <2>1 DEF MonitorReads, ReadStatus
  <1>21. ASSUME NEW s \in Svc, MonitorReaps(s)
        PROVE  ProcessTypes'
    BY <1>21 DEF MonitorReaps, Running, NoFault, Harm, Fault
  <1>22. ASSUME NEW s \in Svc, OutputDrainFails(s)
        PROVE  ProcessTypes'
    BY <1>22 DEF OutputDrainFails, Fault
  <1>23. ASSUME NEW s \in Svc, ServiceFailed(s)
        PROVE  ProcessTypes'
    BY <1>23 DEF ServiceFailed, Terminate
  <1>24. ASSUME NEW s \in Svc, SpawnService(s)
        PROVE  ProcessTypes'
    <2>1. sup' \in [Svc -> Supervising \cup {"none", "exited"}]
      BY <1>24 DEF SpawnService
    <2>2. status' \in [Svc -> Seq(Messages)]
      <3>1. Append(status[s], "failed") \in Seq(Messages)
        OBVIOUS
      <3>2. \/ status' = status
            \/ status' = [status EXCEPT ![s] = Append(status[s], "failed")]
        BY <1>24, Zenon DEF SpawnService, Report
      <3> QED
        BY <3>1, <3>2
    <2>3. group' \in [Svc -> {"none", "up", "orphans", "gone"}]
      BY <1>24 DEF SpawnService
    <2> QED
      BY <1>24, <2>1, <2>2, <2>3 DEF SpawnService
  <1>25. ASSUME NEW s \in Svc, ReportSpawned(s)
        PROVE  ProcessTypes'
    BY <1>25 DEF ReportSpawned, Report
  <1>26. ASSUME NEW s \in Svc, Notice(s)
        PROVE  ProcessTypes'
    BY <1>26 DEF Notice
  <1>27. ASSUME NEW s \in Svc, TerminateGroup(s)
        PROVE  ProcessTypes'
    BY <1>27 DEF TerminateGroup, NoFault, Harm, Fault
  <1>28. ASSUME NEW s \in Svc, ReportEnd(s)
        PROVE  ProcessTypes'
    BY <1>28 DEF ReportEnd, Report
  <1>29. ASSUME NEW s \in Svc, FailSupervision(s)
        PROVE  ProcessTypes'
    BY <1>29 DEF FailSupervision, Report, NoFault, Harm, Fault
  <1>30. ASSUME NEW s \in Svc, LeaderExits(s)
        PROVE  ProcessTypes'
    BY <1>30 DEF LeaderExits
  <1>31. ASSUME NEW s \in Svc, CloseReadiness(s)
        PROVE  ProcessTypes'
    BY <1>31 DEF CloseReadiness
  <1>32. ASSUME NEW s \in Svc, SupervisorDies(s)
        PROVE  ProcessTypes'
    BY <1>32 DEF SupervisorDies, Running, Harm, Fault
  <1>33. CASE UNCHANGED vars
    BY <1>33 DEF vars
  <1> QED
    BY Zenon, <1>1, <1>2, <1>3, <1>4, <1>5, <1>6, <1>7, <1>8, <1>9, <1>10, <1>11,
       <1>12, <1>13, <1>14, <1>15, <1>16, <1>17, <1>18, <1>19, <1>20, <1>21,
       <1>22, <1>23, <1>24, <1>25, <1>26, <1>27, <1>28, <1>29, <1>30, <1>31,
       <1>32, <1>33 DEF Next, Boot, Cleanup, Reconcile, Supervisor

(* A step keeps the lives of the daemon apart: no session is Ready or      *)
(* cleaned up by a daemon that came after a crash.                         *)
LEMMA DaemonStep ==
    ASSUME ServicesInv, [Next]_vars
    PROVE  DaemonOK'
  <1> crashes \in Nat
    BY DEF ServicesInv, ServicesTypes, ProcessTypes
  <1> USE DEF ServicesInv, ServicesTypes, MemoryTypes, BootOK, DaemonOK, Boots,
     memory, pipes, disk, procs, past, Svc
  <1>1. CASE daemon = "running" /\ RecordStart
    BY <1>1 DEF RecordStart, FailBoot
  <1>2. CASE daemon = "running" /\ SpawnSupervisor
    BY <1>2 DEF SpawnSupervisor, FailBoot
  <1>3. CASE daemon = "running" /\ AwaitStatus
    BY <1>3 DEF AwaitStatus, ReadStatus, HandOver
  <1>4. CASE daemon = "running" /\ DropPending
    BY <1>4 DEF DropPending, Running, Harm, Fault, NoFault, FailBoot
  <1>5. CASE daemon = "running" /\ RecordService
    BY <1>5 DEF RecordService, FailBoot
  <1>6. CASE daemon = "running" /\ WaitReady
    BY <1>6 DEF WaitReady, FailBoot
  <1>7. CASE daemon = "running" /\ PersistReady
    BY <1>7 DEF PersistReady, FailBoot
  <1>8. CASE daemon = "running" /\ CommitReady
    BY <1>8 DEF CommitReady, FailBoot
  <1>9. CASE EndSession
    BY <1>9 DEF EndSession, Terminate
  <1>10. CASE daemon = "running" /\ CloseControl
    BY <1>10 DEF CloseControl
  <1>11. CASE daemon = "running" /\ JoinMonitor
    BY <1>11 DEF JoinMonitor, Running, NoFault, Harm, Fault
  <1>12. CASE daemon = "running" /\ StopGroup
    BY <1>12 DEF StopGroup, NoFault, Harm, Fault
  <1>13. CASE daemon = "running" /\ TearDown
    BY <1>13 DEF TearDown
  <1>14. CASE daemon = "running" /\ RemoveSession
    BY <1>14 DEF RemoveSession
  <1>15. CASE Crash
    BY <1>15 DEF Crash
  <1>16. CASE Restart
    BY <1>16 DEF Restart
  <1>17. CASE AwaitStaleService
    BY <1>17, Zenon DEF AwaitStaleService, StaleServiceGone
  <1>18. CASE ReconcileTearDown
    BY <1>18 DEF ReconcileTearDown
  <1>19. CASE RemoveSessionFiles
    BY <1>19 DEF RemoveSessionFiles
  <1>20. ASSUME NEW s \in Svc, ServiceFailed(s)
        PROVE  DaemonOK'
    BY <1>20, Zenon DEF ServiceFailed, Terminate
  <1>21. ASSUME NEW s \in Svc, ProcessStep(s)
        PROVE  DaemonOK'
    BY <1>21, ProcessMoves, Zenon DEF OthersKept, NoneStarts
  <1>22. CASE UNCHANGED vars
    BY <1>22 DEF vars
  <1> QED
    BY Zenon, <1>1, <1>2, <1>3, <1>4, <1>5, <1>6, <1>7, <1>8, <1>9, <1>10, <1>11,
       <1>12, <1>13, <1>14, <1>15, <1>16, <1>17, <1>18, <1>19, <1>20, <1>21,
       <1>22 DEF Next, Boot, Cleanup, Reconcile, ProcessStep

(* A step keeps a supervisor's word: it exits, unless it was harmed, only  *)
(* after its service is gone (supervise_service and its armed guard).      *)
LEMMA SupervisorStep ==
    ASSUME ServicesInv, [Next]_vars
    PROVE  SupervisorOK'
  <1> USE DEF Alive, Running, ServicesInv, ServicesTypes, ProcessTypes,
     MemoryTypes, BootOK, SupervisorOK, memory, pipes, disk, procs, past, Svc
  <1>1. CASE daemon = "running" /\ RecordStart
    BY <1>1 DEF RecordStart, FailBoot
  <1>2. CASE daemon = "running" /\ SpawnSupervisor
    BY <1>2, Zenon DEF SpawnSupervisor, FailBoot
  <1>3. CASE daemon = "running" /\ AwaitStatus
    BY <1>3, ZenonT(40) DEF AwaitStatus, ReadStatus, HandOver
  <1>4. CASE daemon = "running" /\ DropPending
    BY <1>4, Zenon DEF DropPending, Running, Harm, Fault, NoFault, FailBoot
  <1>5. CASE daemon = "running" /\ RecordService
    BY <1>5 DEF RecordService, FailBoot
  <1>6. CASE daemon = "running" /\ WaitReady
    BY <1>6 DEF WaitReady, FailBoot
  <1>7. CASE daemon = "running" /\ PersistReady
    BY <1>7 DEF PersistReady, FailBoot
  <1>8. CASE daemon = "running" /\ CommitReady
    BY <1>8 DEF CommitReady, FailBoot
  <1>9. CASE EndSession
    BY <1>9 DEF EndSession, Terminate
  <1>10. CASE daemon = "running" /\ CloseControl
    BY <1>10 DEF CloseControl
  <1>11. CASE daemon = "running" /\ JoinMonitor
    BY <1>11, Zenon DEF JoinMonitor, Running, NoFault, Harm, Fault
  <1>12. CASE daemon = "running" /\ StopGroup
    BY <1>12, Zenon DEF StopGroup, NoFault, Harm, Fault
  <1>13. CASE daemon = "running" /\ TearDown
    BY <1>13 DEF TearDown
  <1>14. CASE daemon = "running" /\ RemoveSession
    BY <1>14 DEF RemoveSession
  <1>15. CASE Crash
    BY <1>15 DEF Crash
  <1>16. CASE Restart
    BY <1>16 DEF Restart
  <1>17. CASE AwaitStaleService
    BY <1>17 DEF AwaitStaleService, StaleServiceGone
  <1>18. CASE ReconcileTearDown
    BY <1>18 DEF ReconcileTearDown
  <1>19. CASE RemoveSessionFiles
    BY <1>19 DEF RemoveSessionFiles
  <1>20. ASSUME NEW s \in Svc, MonitorReads(s)
        PROVE  SupervisorOK'
    BY <1>20 DEF MonitorReads, ReadStatus
  <1>21. ASSUME NEW s \in Svc, MonitorReaps(s)
        PROVE  SupervisorOK'
    BY <1>21, Zenon DEF MonitorReaps, Running, NoFault, Harm, Fault
  <1>22. ASSUME NEW s \in Svc, OutputDrainFails(s)
        PROVE  SupervisorOK'
    BY <1>22 DEF OutputDrainFails, Fault
  <1>23. ASSUME NEW s \in Svc, ServiceFailed(s)
        PROVE  SupervisorOK'
    BY <1>23 DEF ServiceFailed, Terminate
  <1>24. ASSUME NEW s \in Svc, SpawnService(s)
        PROVE  SupervisorOK'
    BY <1>24, Zenon DEF SpawnService, Report
  <1>25. ASSUME NEW s \in Svc, ReportSpawned(s)
        PROVE  SupervisorOK'
    BY <1>25 DEF ReportSpawned, Report
  <1>26. ASSUME NEW s \in Svc, Notice(s)
        PROVE  SupervisorOK'
    BY <1>26 DEF Notice
  <1>27. ASSUME NEW s \in Svc, TerminateGroup(s)
        PROVE  SupervisorOK'
    BY <1>27, Zenon DEF TerminateGroup, NoFault, Harm, Fault
  <1>28. ASSUME NEW s \in Svc, ReportEnd(s)
        PROVE  SupervisorOK'
    BY <1>28 DEF ReportEnd, Report
  <1>29. ASSUME NEW s \in Svc, FailSupervision(s)
        PROVE  SupervisorOK'
    BY <1>29, Zenon DEF FailSupervision, Report, NoFault, Harm, Fault
  <1>30. ASSUME NEW s \in Svc, LeaderExits(s)
        PROVE  SupervisorOK'
    BY <1>30 DEF LeaderExits
  <1>31. ASSUME NEW s \in Svc, CloseReadiness(s)
        PROVE  SupervisorOK'
    BY <1>31 DEF CloseReadiness
  <1>32. ASSUME NEW s \in Svc, SupervisorDies(s)
        PROVE  SupervisorOK'
    BY <1>32 DEF SupervisorDies, Running, Harm, Fault
  <1>33. CASE UNCHANGED vars
    BY <1>33 DEF vars
  <1> QED
    BY Zenon, <1>1, <1>2, <1>3, <1>4, <1>5, <1>6, <1>7, <1>8, <1>9, <1>10, <1>11,
       <1>12, <1>13, <1>14, <1>15, <1>16, <1>17, <1>18, <1>19, <1>20, <1>21,
       <1>22, <1>23, <1>24, <1>25, <1>26, <1>27, <1>28, <1>29, <1>30, <1>31,
       <1>32, <1>33 DEF Next, Boot, Cleanup, Reconcile, Supervisor

(* A step of the first daemon keeps every service either its own, gone,    *)
(* or abandoned by the drop of a pending supervisor that was harmed.       *)
LEMMA OwnedStep ==
    ASSUME ServicesInv, [Next]_vars
    PROVE  OwnedOK'
  <1> USE DEF Alive, Running, ServicesInv, ServicesTypes, ProcessTypes,
     MemoryTypes, BootOK, DaemonOK, OwnedOK, SupervisorOK, memory, pipes, disk,
     procs, past, Svc
  <1>1. CASE daemon = "running" /\ RecordStart
    BY <1>1 DEF RecordStart, FailBoot
  <1>2. CASE daemon = "running" /\ SpawnSupervisor
    BY <1>2, Zenon DEF SpawnSupervisor, FailBoot
  <1>3. CASE daemon = "running" /\ AwaitStatus
    BY <1>3 DEF AwaitStatus, ReadStatus, HandOver
  <1>4. CASE daemon = "running" /\ DropPending
    BY <1>4, Zenon DEF DropPending, Running, Harm, Fault, NoFault, FailBoot
  <1>5. CASE daemon = "running" /\ RecordService
    BY <1>5 DEF RecordService, FailBoot
  <1>6. CASE daemon = "running" /\ WaitReady
    BY <1>6 DEF WaitReady, FailBoot
  <1>7. CASE daemon = "running" /\ PersistReady
    BY <1>7 DEF PersistReady, FailBoot
  <1>8. CASE daemon = "running" /\ CommitReady
    BY <1>8 DEF CommitReady, FailBoot
  <1>9. CASE EndSession
    BY <1>9 DEF EndSession, Terminate
  <1>10. CASE daemon = "running" /\ CloseControl
    BY <1>10 DEF CloseControl
  <1>11. CASE daemon = "running" /\ JoinMonitor
    BY <1>11, Zenon DEF JoinMonitor, Running, NoFault, Harm, Fault
  <1>12. CASE daemon = "running" /\ StopGroup
    BY <1>12, Zenon DEF StopGroup, NoFault, Harm, Fault
  <1>13. CASE daemon = "running" /\ TearDown
    BY <1>13 DEF TearDown
  <1>14. CASE daemon = "running" /\ RemoveSession
    BY <1>14 DEF RemoveSession
  <1>15. CASE Crash
    BY <1>15 DEF Crash
  <1>16. CASE Restart
    BY <1>16 DEF Restart
  <1>17. CASE AwaitStaleService
    BY <1>17 DEF AwaitStaleService, StaleServiceGone
  <1>18. CASE ReconcileTearDown
    BY <1>18 DEF ReconcileTearDown
  <1>19. CASE RemoveSessionFiles
    BY <1>19 DEF RemoveSessionFiles
  <1>20. ASSUME NEW s \in Svc, ServiceFailed(s)
        PROVE  OwnedOK'
    BY <1>20 DEF ServiceFailed, Terminate
  <1>21. ASSUME NEW s \in Svc, ProcessStep(s)
        PROVE  OwnedOK'
    BY <1>21, ProcessMoves, Zenon DEF OthersKept, NoneStarts
  <1>22. CASE UNCHANGED vars
    BY <1>22 DEF vars
  <1> QED
    BY Zenon, <1>1, <1>2, <1>3, <1>4, <1>5, <1>6, <1>7, <1>8, <1>9, <1>10, <1>11,
       <1>12, <1>13, <1>14, <1>15, <1>16, <1>17, <1>18, <1>19, <1>20, <1>21,
       <1>22 DEF Next, Boot, Cleanup, Reconcile, ProcessStep

(* A step after a crash loses sight of nothing: what still lives is in the *)
(* metadata that the next daemon reads, or was not recorded in time.       *)
LEMMA StaleStep ==
    ASSUME ServicesInv, [Next]_vars
    PROVE  StaleOK'
  <1> USE DEF Alive, Running, ServicesInv, ServicesTypes, ProcessTypes,
     DiskTypes, DaemonOK, StaleOK, SupervisorOK, memory, pipes, disk, procs,
     past, Svc
  <1>1. CASE daemon = "running" /\ RecordStart
    BY <1>1 DEF RecordStart, FailBoot
  <1>2. CASE daemon = "running" /\ SpawnSupervisor
    BY <1>2 DEF SpawnSupervisor, FailBoot
  <1>3. CASE daemon = "running" /\ AwaitStatus
    BY <1>3 DEF AwaitStatus, ReadStatus, HandOver
  <1>4. CASE daemon = "running" /\ DropPending
    BY <1>4 DEF DropPending, Running, Harm, Fault, NoFault, FailBoot
  <1>5. CASE daemon = "running" /\ RecordService
    BY <1>5 DEF RecordService, FailBoot
  <1>6. CASE daemon = "running" /\ WaitReady
    BY <1>6 DEF WaitReady, FailBoot
  <1>7. CASE daemon = "running" /\ PersistReady
    BY <1>7 DEF PersistReady, FailBoot
  <1>8. CASE daemon = "running" /\ CommitReady
    BY <1>8 DEF CommitReady, FailBoot
  <1>9. CASE EndSession
    BY <1>9 DEF EndSession, Terminate
  <1>10. CASE daemon = "running" /\ CloseControl
    BY <1>10 DEF CloseControl
  <1>11. CASE daemon = "running" /\ JoinMonitor
    BY <1>11 DEF JoinMonitor, Running, NoFault, Harm, Fault
  <1>12. CASE daemon = "running" /\ StopGroup
    BY <1>12 DEF StopGroup, NoFault, Harm, Fault
  <1>13. CASE daemon = "running" /\ TearDown
    BY <1>13 DEF TearDown
  <1>14. CASE daemon = "running" /\ RemoveSession
    BY <1>14 DEF RemoveSession
  <1>15. CASE Crash
    BY <1>15 DEF Crash
  <1>16. CASE Restart
    BY <1>16 DEF Restart
  <1>17. CASE AwaitStaleService
    BY <1>17 DEF AwaitStaleService, StaleServiceGone
  <1>18. CASE ReconcileTearDown
    BY <1>18 DEF ReconcileTearDown
  <1>19. CASE RemoveSessionFiles
    BY <1>19 DEF RemoveSessionFiles
  <1>20. ASSUME NEW s \in Svc, ServiceFailed(s)
        PROVE  StaleOK'
    BY <1>20 DEF ServiceFailed, Terminate
  <1>21. ASSUME NEW s \in Svc, ProcessStep(s)
        PROVE  StaleOK'
    BY <1>21, ProcessMoves, Zenon DEF OthersKept, NoneStarts
  <1>22. CASE UNCHANGED vars
    BY <1>22 DEF vars
  <1> QED
    BY Zenon, <1>1, <1>2, <1>3, <1>4, <1>5, <1>6, <1>7, <1>8, <1>9, <1>10, <1>11,
       <1>12, <1>13, <1>14, <1>15, <1>16, <1>17, <1>18, <1>19, <1>20, <1>21,
       <1>22 DEF Next, Boot, Cleanup, Reconcile, ProcessStep

(* A step makes a session Ready only at the end of a complete start.       *)
LEMMA ServedStep ==
    ASSUME ServicesInv, [Next]_vars
    PROVE  ReadyIsServed'
  <1> USE DEF ServicesInv, ReadyIsServed, ServicesTypes, MemoryTypes, BootOK,
     DaemonOK, memory, pipes, disk, procs, past, Svc
  <1>1. CASE daemon = "running" /\ RecordStart
    BY <1>1 DEF RecordStart, FailBoot
  <1>2. CASE daemon = "running" /\ SpawnSupervisor
    BY <1>2 DEF SpawnSupervisor, FailBoot
  <1>3. CASE daemon = "running" /\ AwaitStatus
    BY <1>3 DEF AwaitStatus, ReadStatus, HandOver
  <1>4. CASE daemon = "running" /\ DropPending
    BY <1>4 DEF DropPending, Running, Harm, Fault, NoFault, FailBoot
  <1>5. CASE daemon = "running" /\ RecordService
    BY <1>5 DEF RecordService, FailBoot
  <1>6. CASE daemon = "running" /\ WaitReady
    BY <1>6 DEF WaitReady, FailBoot
  <1>7. CASE daemon = "running" /\ PersistReady
    BY <1>7 DEF PersistReady, FailBoot
  <1>8. CASE daemon = "running" /\ CommitReady
    <2>1. CASE session' = "ready"
      <3>1. (N + 1) - 1 = N
        BY SomeService
      <3> QED
        BY <1>8, <2>1, <3>1 DEF CommitReady, FailBoot
    <2> QED
      BY <1>8, <2>1 DEF CommitReady, FailBoot
  <1>9. CASE EndSession
    BY <1>9 DEF EndSession, Terminate
  <1>10. CASE daemon = "running" /\ CloseControl
    BY <1>10 DEF CloseControl
  <1>11. CASE daemon = "running" /\ JoinMonitor
    BY <1>11 DEF JoinMonitor, Running, NoFault, Harm, Fault
  <1>12. CASE daemon = "running" /\ StopGroup
    BY <1>12 DEF StopGroup, NoFault, Harm, Fault
  <1>13. CASE daemon = "running" /\ TearDown
    BY <1>13 DEF TearDown
  <1>14. CASE daemon = "running" /\ RemoveSession
    BY <1>14 DEF RemoveSession
  <1>15. CASE Crash
    BY <1>15 DEF Crash
  <1>16. CASE Restart
    BY <1>16 DEF Restart
  <1>17. CASE AwaitStaleService
    BY <1>17 DEF AwaitStaleService, StaleServiceGone
  <1>18. CASE ReconcileTearDown
    BY <1>18 DEF ReconcileTearDown
  <1>19. CASE RemoveSessionFiles
    BY <1>19 DEF RemoveSessionFiles
  <1>20. ASSUME NEW s \in Svc, ServiceFailed(s)
        PROVE  ReadyIsServed'
    BY <1>20 DEF ServiceFailed, Terminate
  <1>21. ASSUME NEW s \in Svc, ProcessStep(s)
        PROVE  ReadyIsServed'
    BY <1>21, ProcessMoves DEF OthersKept, NoneStarts
  <1>22. CASE UNCHANGED vars
    BY <1>22 DEF vars
  <1> QED
    BY Zenon, <1>1, <1>2, <1>3, <1>4, <1>5, <1>6, <1>7, <1>8, <1>9, <1>10, <1>11,
       <1>12, <1>13, <1>14, <1>15, <1>16, <1>17, <1>18, <1>19, <1>20, <1>21,
       <1>22 DEF Next, Boot, Cleanup, Reconcile, ProcessStep

(* The daemon starts with nothing started.                                 *)
LEMMA ServicesInit == Init => ServicesInv
  <1> SUFFICES ASSUME Init PROVE ServicesInv
    OBVIOUS
  <1>1. MemoryTypes /\ DiskTypes
    <2>1. 1 \in 1 .. N + 1
      BY SomeService
    <2> QED
      BY <2>1, Zenon DEF Init, MemoryTypes, DiskTypes, Boots
  <1>2. ProcessTypes
    BY DEF Init, ProcessTypes, Messages, Supervising
  <1>3. BootOK
    BY SomeService DEF Init, BootOK, Svc
  <1>4. DaemonOK /\ ReadyIsServed
    BY DEF Init, DaemonOK, ReadyIsServed
  <1>5. SupervisorOK /\ OwnedOK /\ StaleOK
    BY DEF Init, SupervisorOK, OwnedOK, StaleOK, Alive, Running
  <1> QED
    BY <1>1, <1>2, <1>3, <1>4, <1>5 DEF ServicesInv, ServicesTypes

(* Every step keeps the invariant.                                         *)
LEMMA ServicesStep == ServicesInv /\ [Next]_vars => ServicesInv'
  BY MemoryStep, DiskStep, ProcessTypesStep, BootStep, DaemonStep, SupervisorStep,
     OwnedStep, StaleStep, ServedStep DEF ServicesInv, ServicesTypes

(* The services' state is consistent in every reachable state: what the    *)
(* following theorems rest on.                                             *)
THEOREM ServicesCorrect == Spec => []ServicesInv
  BY ServicesInit, ServicesStep, PTL DEF Spec

(* However many services there are, and whatever crashes or fails, a Ready *)
(* session has each one recorded, handed over and seen ready               *)
(* (start_configured_services).                                            *)
THEOREM ServicesReady == Spec => []ReadyIsServed
  <1>1. ServicesInv => ReadyIsServed
    BY DEF ServicesInv
  <1> QED
    BY <1>1, ServicesCorrect, PTL

(* A supervisor that was not harmed leaves nothing of its service behind   *)
(* (run_supervisor).                                                       *)
THEOREM ServicesLeaveNothing == Spec => []SupervisorLeavesNothing
  <1>1. ServicesInv => SupervisorLeavesNothing
    BY DEF ServicesInv, SupervisorOK, SupervisorLeavesNothing
  <1> QED
    BY <1>1, ServicesCorrect, PTL

(* Teardown and the removal of the workspace find no service alive, but    *)
(* for the ones the property names (cleanup_entry and                      *)
(* reconcile_stale_sessions).                                              *)
THEOREM ServicesGoneAtTeardown == Spec => []TeardownFindsServicesGone
  <1>1. ServicesInv => TeardownFindsServicesGone
    <2> SUFFICES ASSUME ServicesInv, cleanup = "remove", NEW s \in Svc, Alive(s)
                 PROVE  s \in abandoned \cup lost \/ (daemon = "running" /\ unproven)
      BY DEF TeardownFindsServicesGone
    <2> USE DEF ServicesInv, DaemonOK, OwnedOK, StaleOK, BootOK
    <2>1. left = {} /\ crashes \in Nat
      BY DEF ServicesTypes, ProcessTypes
    <2>2. CASE daemon = "running"
      <3>1. crashes = 0 /\ boot = "none"
        BY <2>1, <2>2
      <3>2. CASE s \in handed
        BY <2>1, <2>2, <3>2
      <3> QED
        BY <3>1, <3>2
    <2>3. CASE daemon # "running"
      <3>1. daemon = "reconciling" /\ crashes > 0
        BY <2>3 DEF ServicesTypes, MemoryTypes
      <3> QED
        BY <2>1, <3>1
    <2> QED
      BY <2>2, <2>3
  <1> QED
    BY <1>1, ServicesCorrect, PTL

=============================================================================
