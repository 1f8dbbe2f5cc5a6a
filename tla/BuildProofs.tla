---------------------------- MODULE BuildProofs ----------------------------
(***************************************************************************)
(* The safety of builds for any number of concurrent builds and permits,   *)
(* any output limit and any capacity of the response channel: the          *)
(* inductive invariant, the steps that keep it, and what it says.          *)
(***************************************************************************)
EXTENDS Build, FiniteSetTheorems, TLAPS

(* Before the executor starts anything, and the steps of a running phase.  *)
Before == {"idle", "upload", "announce", "prepare", "rejected", "busy"}
Running == {"wait", "terminate", "grace", "kill"}
Settled == {"join", "check", "finish", "collect", "artifactError", "exit"}
Ending == {"reportError", "reportExit", "release", "done"}

Labels == Before \cup {"enter", "spawn"} \cup Running \cup Settled \cup Ending

Groups == {"none", "leader", "helpers", "gone"}
Positions == {"none", "reading", "holding", "done"}
Outcomes == {"none", "0", "1", "cancelled"} \cup Late
Workspaces == {"none", "here", "left"}
Errors == {"none", "stream_closed", "source_archive", "spawn_failed", "wait_failed",
           "output_limit", "artifacts"}

(* The variables the argument is about keep their types.                   *)
BuildTypes ==
    /\ permits \in Nat /\ sessions \in Nat
    /\ pc \in [Builds -> Labels]
    /\ phase \in [Builds -> Phases]
    /\ outcome \in [Builds -> Outcomes]
    /\ err \in [Builds -> Errors]
    /\ cancelled \in [Builds -> BOOLEAN]
    /\ exceeded \in [Builds -> BOOLEAN]
    /\ stream \in [Builds -> {"none", "open", "dropped", "ended"}]
    /\ group \in [Builds -> [Phases -> Groups]]
    /\ reader \in [Builds -> [Readers -> Positions]]
    /\ detached \in [Builds -> SUBSET Readers]
    /\ workspace \in [Builds -> Workspaces]
    /\ exit \in [Builds -> Outcomes]
    /\ stalled \in [Builds -> BOOLEAN]

Dead(b) == \A p \in Phases : ~GroupAlive(b, p)

(* Which groups can be alive where the executor is: only the current       *)
(* phase's, and only while it is waited for, or one that survived SIGKILL. *)
GroupsOK(b) ==
    /\ phase[b] = "run" => ~GroupAlive(b, "setup")
    /\ phase[b] = "setup" => group[b]["run"] = "none"
    /\ pc[b] \in Before \cup {"enter", "spawn"} => group[b]["run"] = "none"
    /\ pc[b] \in Before \cup {"enter", "spawn"} \cup Settled => Dead(b)
    /\ pc[b] \in Ending => err[b] = "wait_failed" \/ Dead(b)

(* Which errors there can be where the executor is, and whose workspace it *)
(* has dropped.                                                            *)
ErrorsOK(b) ==
    /\ pc[b] \notin Ending \cup {"exit"} => err[b] = "none"
    /\ pc[b] = "exit" => err[b] \in {"none", "artifacts"}
    /\ pc[b] \in {"reportError", "reportExit"} => err[b] \notin {"none", "artifacts"}
    /\ pc[b] \in Before \cup Ending => workspace[b] # "here"

(* A result other than a successful setup is what artifacts are collected  *)
(* for, and the exit event carries it.                                     *)
ExitOK(b) ==
    /\ pc[b] \in {"collect", "artifactError", "exit"} => phase[b] = "run" \/ outcome[b] # "0"
    /\ exit[b] # "none" => pc[b] \in {"release", "done"}
    /\ exit[b] = "0" => phase[b] = "run" /\ outcome[b] = "0" /\ err[b] = "none"
    /\ exit[b] # "none" /\ outcome[b] \in Late /\ err[b] \in {"none", "artifacts"} =>
          exit[b] = outcome[b]

Active(b, r) == reader[b][r] \in {"reading", "holding"}

(* A reader works for the current phase or is detached, and there is none  *)
(* of a phase that was not spawned.                                        *)
ReadersOK(b) ==
    /\ \A r \in Readers : Active(b, r) =>
          \/ r \in detached[b]
          \/ r[1] = phase[b] /\ pc[b] \in Running \cup {"join"}
    /\ pc[b] \in Before => detached[b] = {} /\ ~exceeded[b]
    /\ phase[b] = "setup" \/ pc[b] \in Before \cup {"enter", "spawn"} =>
          \A k \in Kinds : reader[b][<<"run", k>>] = "none"
    /\ stream[b] = "ended" => \A r \in Readers : ~Active(b, r)

SetupDetached(b) == \E k \in Kinds : <<"setup", k>> \in detached[b]

(* The response stream is open from the start of the executor.             *)
StreamOK(b) ==
    /\ stream[b] = "none" <=> pc[b] \in {"idle", "upload", "rejected", "busy"}
    /\ stream[b] = "ended" => pc[b] = "done"

(* Who raised the shared flag.                                             *)
FlagOK(b) ==
    /\ cancelled[b] => stream[b] \in {"dropped", "ended"} \/ stalled[b] \/ exceeded[b]
    /\ outcome[b] = "cancelled" /\ pc[b] \in {"terminate", "grace", "kill", "join", "check"} =>
          cancelled[b]

(* What a disconnect may be reported for.                                  *)
ClosedOK(b) ==
    /\ exceeded[b] /\ (pc[b] = "enter" \/ (pc[b] = "finish" /\ phase[b] = "setup")) =>
          SetupDetached(b)
    /\ err[b] = "stream_closed" =>
          \/ stream[b] = "dropped" \/ stalled[b]
          \/ exceeded[b] /\ SetupDetached(b)

InFlight == {b \in Builds : pc[b] \notin Over \cup {"idle"}}

Counted == permits + sessions + Cardinality(InFlight) = MaxConcurrent

BuildOK(b) ==
    /\ GroupsOK(b) /\ ErrorsOK(b) /\ ExitOK(b) /\ ReadersOK(b)
    /\ StreamOK(b) /\ FlagOK(b) /\ ClosedOK(b)

BuildInv == BuildTypes /\ Counted /\ \A b \in Builds : BuildOK(b)

-----------------------------------------------------------------------------
(* A step of build b: its handler, executor, stream, readers or processes. *)
Own(b) ==
    \/ Handler(b) \/ Executor(b) \/ Client(b)
    \/ \E r \in Readers : Reader(b, r)
    \/ \E p \in Phases : Process(b, p)

(* What the invariant says of build b does not change.                     *)
Same(b) ==
    /\ pc'[b] = pc[b] /\ phase'[b] = phase[b] /\ outcome'[b] = outcome[b]
    /\ err'[b] = err[b] /\ cancelled'[b] = cancelled[b] /\ exceeded'[b] = exceeded[b]
    /\ stream'[b] = stream[b] /\ group'[b] = group[b] /\ reader'[b] = reader[b]
    /\ detached'[b] = detached[b] /\ workspace'[b] = workspace[b]
    /\ exit'[b] = exit[b] /\ stalled'[b] = stalled[b]

(* What a step of a build does to its workspace.                           *)
LEMMA WorkspaceMove ==
    ASSUME NEW b \in Builds, Own(b)
    PROVE  \/ workspace' = workspace
           \/ \E w \in Workspaces : workspace' = [workspace EXCEPT ![b] = w]
  <1> DEFINE Moves == \E w \in Workspaces : workspace' = [workspace EXCEPT ![b] = w]
  <1> USE DEF request, output, task, files
  <1>1. DropWorkspace(b) => Moves
    BY Zenon DEF DropWorkspace, Workspaces
  <1> HIDE DEF Moves
  <1>2. ASSUME NEW e, Fails(b, e)
        PROVE  workspace' = workspace \/ Moves
    BY <1>1, <1>2, Zenon DEF Fails
  <1>3. CASE Prepare(b)
    <2>1. CASE workspace' = [workspace EXCEPT ![b] = "here"]
      BY <2>1, Zenon DEF Moves, Workspaces
    <2> QED
      BY <1>2, <1>3, <2>1, Zenon DEF Prepare, Moves
  <1>4. CASE Announce(b) \/ EnterPhase(b) \/ SpawnPhase(b) \/ AfterKill(b) \/ CheckPhase(b)
    BY <1>2, <1>4, Zenon DEF Announce, EnterPhase, SpawnPhase, AfterKill, CheckPhase, Moves
  <1>5. CASE FinishPhase(b) \/ ArtifactError(b) \/ SendExit(b)
    BY <1>1, <1>2, <1>5, Zenon DEF FinishPhase, ArtifactError, SendExit, Moves
  <1>6. CASE \/ WaitPhase(b) \/ Terminate(b) \/ Grace(b) \/ JoinReaders(b) \/ Collect(b)
             \/ ReportError(b) \/ ReportExit(b) \/ Release(b)
    BY <1>6, Zenon DEF WaitPhase, Terminate, Grace, JoinReaders, Collect, ReportError, ReportExit,
                  Release
  <1>7. CASE Handler(b) \/ Client(b)
    BY <1>7, Zenon DEF Handler, Client, Refuse, Admit, UploadFails, UploadDone, Receive, Disconnect,
                  StreamEnds
  <1>8. ASSUME NEW r \in Readers, Reader(b, r)
        PROVE  workspace' = workspace
    BY <1>8, Zenon DEF Reader, ReadChunk, ReadEnd, ForwardOutput
  <1>9. ASSUME NEW q \in Phases, Process(b, q)
        PROVE  workspace' = workspace
    BY <1>9, Zenon DEF Process, LeaderExits, HelpersExit, EscapedEnds
  <1> QED
    BY <1>3, <1>4, <1>5, <1>6, <1>7, <1>8, <1>9, Zenon DEF Own, Executor, Moves

(* Every step of a build keeps the types.                                  *)
LEMMA OwnTypes ==
    ASSUME NEW b \in Builds, BuildTypes, Own(b), sessions' = sessions
    PROVE  BuildTypes'
  <1>1. CASE Refuse(b)
    <2>1. pc' \in [Builds -> Labels]
      <3>1. "rejected" \in Labels
        BY Zenon DEF Labels, Before, Running, Settled, Ending
      <3>2. pc \in [Builds -> Labels]
        BY Zenon DEF BuildTypes
      <3> QED
        BY <1>1, <3>1, <3>2, Zenon DEF Refuse
    <2> QED
      BY <1>1, <2>1, Zenon DEF BuildTypes, Refuse, request, output, task, files
  <1>2. CASE Admit(b)
    <2>1. permits' \in Nat
      BY <1>2 DEF BuildTypes, Admit
    <2>2. pc' \in [Builds -> Labels]
      <3>1. "upload" \in Labels /\ "busy" \in Labels
        BY Zenon DEF Labels, Before, Running, Settled, Ending
      <3>2. pc \in [Builds -> Labels]
        BY Zenon DEF BuildTypes
      <3> QED
        BY <1>2, <3>1, <3>2, Zenon DEF Admit
    <2> QED
      BY <1>2, <2>1, <2>2, Zenon DEF BuildTypes, Admit, request, output, task, files
  <1>3. CASE UploadFails(b)
    <2>1. permits' \in Nat
      BY <1>3 DEF BuildTypes, UploadFails
    <2>2. pc' \in [Builds -> Labels]
      <3>1. "rejected" \in Labels
        BY Zenon DEF Labels, Before, Running, Settled, Ending
      <3>2. pc \in [Builds -> Labels]
        BY Zenon DEF BuildTypes
      <3> QED
        BY <1>3, <3>1, <3>2, Zenon DEF UploadFails
    <2> QED
      BY <1>3, <2>1, <2>2, Zenon DEF BuildTypes, UploadFails, request, output, task, files
  <1>4. CASE UploadDone(b)
    <2>1. pc' \in [Builds -> Labels]
      <3>1. "announce" \in Labels
        BY Zenon DEF Labels, Before, Running, Settled, Ending
      <3>2. pc \in [Builds -> Labels]
        BY Zenon DEF BuildTypes
      <3> QED
        BY <1>4, <3>1, <3>2, Zenon DEF UploadDone
    <2>2. stream' \in [Builds -> {"none", "open", "dropped", "ended"}]
      BY <1>4, Zenon DEF BuildTypes, UploadDone
    <2> QED
      BY <1>4, <2>1, <2>2, Zenon DEF BuildTypes, UploadDone, request, output, task, files
  <1>5. CASE Announce(b)
    <2>1. pc' \in [Builds -> Labels]
      <3>1. "prepare" \in Labels /\ "reportError" \in Labels
        BY Zenon DEF Labels, Before, Running, Settled, Ending
      <3>2. pc \in [Builds -> Labels]
        BY Zenon DEF BuildTypes
      <3> QED
        BY <1>5, <3>1, <3>2, Zenon DEF Announce, Fails
    <2>2. err' \in [Builds -> Errors]
      BY <1>5, Zenon DEF BuildTypes, Announce, Fails, Errors
    <2>3. workspace' \in [Builds -> Workspaces]
      BY WorkspaceMove, Zenon DEF BuildTypes
    <2>4. stalled' \in [Builds -> BOOLEAN]
      BY <1>5, Zenon DEF BuildTypes, Announce, Sends, SendFails
    <2> QED
      BY <1>5, <2>1, <2>2, <2>3, <2>4, Zenon DEF BuildTypes, Announce, request, output, task,
         files
  <1>6. CASE Prepare(b)
    <2>1. pc' \in [Builds -> Labels]
      <3>1. "enter" \in Labels /\ "reportError" \in Labels
        BY Zenon DEF Labels, Before, Running, Settled, Ending
      <3>2. pc \in [Builds -> Labels]
        BY Zenon DEF BuildTypes
      <3> QED
        BY <1>6, <3>1, <3>2, Zenon DEF Prepare, Fails
    <2>2. err' \in [Builds -> Errors]
      BY <1>6, Zenon DEF BuildTypes, Prepare, Fails, Errors
    <2>3. workspace' \in [Builds -> Workspaces]
      BY WorkspaceMove, Zenon DEF BuildTypes
    <2> QED
      BY <1>6, <2>1, <2>2, <2>3, Zenon DEF BuildTypes, Prepare, request, output, task, files
  <1>7. CASE EnterPhase(b)
    <2>1. pc' \in [Builds -> Labels]
      <3>1. "spawn" \in Labels /\ "reportError" \in Labels
        BY Zenon DEF Labels, Before, Running, Settled, Ending
      <3>2. pc \in [Builds -> Labels]
        BY Zenon DEF BuildTypes
      <3> QED
        BY <1>7, <3>1, <3>2, Zenon DEF EnterPhase, Fails
    <2>2. err' \in [Builds -> Errors]
      BY <1>7, Zenon DEF BuildTypes, EnterPhase, Fails, Errors
    <2>3. workspace' \in [Builds -> Workspaces]
      BY WorkspaceMove, Zenon DEF BuildTypes
    <2>4. stalled' \in [Builds -> BOOLEAN]
      BY <1>7, Zenon DEF BuildTypes, EnterPhase, Sends, SendFails
    <2> QED
      BY <1>7, <2>1, <2>2, <2>3, <2>4, Zenon DEF BuildTypes, EnterPhase, request, output, task,
         files
  <1>8. CASE SpawnPhase(b)
    <2>1. pc' \in [Builds -> Labels]
      <3>1. "wait" \in Labels /\ "reportError" \in Labels
        BY Zenon DEF Labels, Before, Running, Settled, Ending
      <3>2. pc \in [Builds -> Labels]
        BY Zenon DEF BuildTypes
      <3> QED
        BY <1>8, <3>1, <3>2, Zenon DEF SpawnPhase, Fails
    <2>2. err' \in [Builds -> Errors]
      BY <1>8, Zenon DEF BuildTypes, SpawnPhase, Fails, Errors
    <2>3. workspace' \in [Builds -> Workspaces]
      BY WorkspaceMove, Zenon DEF BuildTypes
    <2>4. group' \in [Builds -> [Phases -> Groups]]
      <3>1. [group[b] EXCEPT ![phase[b]] = "leader"] \in [Phases -> Groups]
        BY Zenon DEF BuildTypes, Groups
      <3>2. \/ group' = group
            \/ group' = [group EXCEPT ![b] = [group[b] EXCEPT ![phase[b]] = "leader"]]
        BY <1>8, Zenon DEF SpawnPhase
      <3> QED
        BY <3>1, <3>2, Zenon DEF BuildTypes
    <2>5. reader' \in [Builds -> [Readers -> Positions]]
      <3> DEFINE spawned ==
              [r \in Readers |-> IF r[1] = phase[b] THEN "reading" ELSE reader[b][r]]
      <3>1. spawned \in [Readers -> Positions]
        BY DEF BuildTypes, Positions
      <3>2. reader' = reader \/ reader' = [reader EXCEPT ![b] = spawned]
        BY <1>8, Zenon DEF SpawnPhase, SpawnReaders
      <3> HIDE DEF spawned
      <3> QED
        BY <3>1, <3>2, Zenon DEF BuildTypes
    <2> QED
      BY <1>8, <2>1, <2>2, <2>3, <2>4, <2>5, Zenon DEF BuildTypes, SpawnPhase, request, output,
         task, files
  <1>9. CASE WaitPhase(b)
    <2>1. pc' \in [Builds -> Labels]
      <3>1. "terminate" \in Labels
        BY Zenon DEF Labels, Before, Running, Settled, Ending
      <3>2. pc \in [Builds -> Labels]
        BY Zenon DEF BuildTypes
      <3> QED
        BY <1>9, <3>1, <3>2, Zenon DEF WaitPhase
    <2>2. outcome' \in [Builds -> Outcomes]
      BY <1>9, Zenon DEF BuildTypes, WaitPhase, Outcomes
    <2> QED
      BY <1>9, <2>1, <2>2, Zenon DEF BuildTypes, WaitPhase, request, output, task, files
  <1>10. CASE Terminate(b)
    <2>1. pc' \in [Builds -> Labels]
      <3>1. "join" \in Labels /\ "grace" \in Labels
        BY Zenon DEF Labels, Before, Running, Settled, Ending
      <3>2. pc \in [Builds -> Labels]
        BY Zenon DEF BuildTypes
      <3> QED
        BY <1>10, <3>1, <3>2, Zenon DEF Terminate
    <2> QED
      BY <1>10, <2>1, Zenon DEF BuildTypes, Terminate, request, output, task, files
  <1>11. CASE Grace(b)
    <2>1. pc' \in [Builds -> Labels]
      <3>1. "join" \in Labels /\ "kill" \in Labels
        BY Zenon DEF Labels, Before, Running, Settled, Ending
      <3>2. pc \in [Builds -> Labels]
        BY Zenon DEF BuildTypes
      <3> QED
        BY <1>11, <3>1, <3>2, Zenon DEF Grace
    <2> QED
      BY <1>11, <2>1, Zenon DEF BuildTypes, Grace, request, output, task, files
  <1>12. CASE AfterKill(b)
    <2>1. pc' \in [Builds -> Labels]
      <3>1. "join" \in Labels /\ "reportError" \in Labels
        BY Zenon DEF Labels, Before, Running, Settled, Ending
      <3>2. pc \in [Builds -> Labels]
        BY Zenon DEF BuildTypes
      <3> QED
        BY <1>12, <3>1, <3>2, Zenon DEF AfterKill, Fails
    <2>2. err' \in [Builds -> Errors]
      BY <1>12, Zenon DEF BuildTypes, AfterKill, Fails, Errors
    <2>3. workspace' \in [Builds -> Workspaces]
      BY WorkspaceMove, Zenon DEF BuildTypes
    <2>4. detached' \in [Builds -> SUBSET Readers]
      <3>1. detached[b] \cup ({phase[b]} \X Kinds) \in SUBSET Readers
        BY Zenon DEF BuildTypes, Readers
      <3>2. \/ detached' = detached
            \/ detached' = [detached EXCEPT ![b] = detached[b] \cup ({phase[b]} \X Kinds)]
        BY <1>12, Zenon DEF AfterKill
      <3> QED
        BY <3>1, <3>2, Zenon DEF BuildTypes
    <2> QED
      BY <1>12, <2>1, <2>2, <2>3, <2>4, Zenon DEF BuildTypes, AfterKill, request, output, task,
         files
  <1>13. CASE JoinReaders(b)
    <2>1. pc' \in [Builds -> Labels]
      <3>1. "check" \in Labels
        BY Zenon DEF Labels, Before, Running, Settled, Ending
      <3>2. pc \in [Builds -> Labels]
        BY Zenon DEF BuildTypes
      <3> QED
        BY <1>13, <3>1, <3>2, Zenon DEF JoinReaders
    <2>2. detached' \in [Builds -> SUBSET Readers]
      <3>1. {r \in {phase[b]} \X Kinds : reader[b][r] # "done"} \subseteq Readers
        BY Zenon DEF BuildTypes, Readers
      <3> QED
        BY <1>13, <3>1, Zenon DEF JoinReaders, BuildTypes
    <2> QED
      BY <1>13, <2>1, <2>2, Zenon DEF BuildTypes, JoinReaders, request, output, task, files
  <1>14. CASE CheckPhase(b)
    <2>1. pc' \in [Builds -> Labels]
      <3>1. "finish" \in Labels /\ "reportError" \in Labels
        BY Zenon DEF Labels, Before, Running, Settled, Ending
      <3>2. pc \in [Builds -> Labels]
        BY Zenon DEF BuildTypes
      <3> QED
        BY <1>14, <3>1, <3>2, Zenon DEF CheckPhase, Fails
    <2>2. err' \in [Builds -> Errors]
      BY <1>14, Zenon DEF BuildTypes, CheckPhase, Fails, Errors
    <2>3. workspace' \in [Builds -> Workspaces]
      BY WorkspaceMove, Zenon DEF BuildTypes
    <2> QED
      BY <1>14, <2>1, <2>2, <2>3, Zenon DEF BuildTypes, CheckPhase, request, output, task, files
  <1>15. CASE FinishPhase(b)
    <2>1. pc' \in [Builds -> Labels]
      <3>1. "enter" \in Labels /\ "collect" \in Labels /\ "reportError" \in Labels
        BY Zenon DEF Labels, Before, Running, Settled, Ending
      <3>2. pc \in [Builds -> Labels]
        BY Zenon DEF BuildTypes
      <3> QED
        BY <1>15, <3>1, <3>2, Zenon DEF FinishPhase, Fails, NextPhase
    <2>2. phase' \in [Builds -> Phases]
      <3>1. phase \in [Builds -> Phases] /\ "run" \in Phases
        BY Zenon DEF BuildTypes, Phases
      <3> QED
        BY <1>15, <3>1, Zenon DEF FinishPhase, NextPhase
    <2>3. err' \in [Builds -> Errors]
      BY <1>15, Zenon DEF BuildTypes, FinishPhase, Fails, Errors
    <2>4. workspace' \in [Builds -> Workspaces]
      BY WorkspaceMove, Zenon DEF BuildTypes
    <2>5. stalled' \in [Builds -> BOOLEAN]
      BY <1>15, Zenon DEF BuildTypes, FinishPhase, Sends, SendFails
    <2> QED
      BY <1>15, <2>1, <2>2, <2>3, <2>4, <2>5, Zenon DEF BuildTypes, FinishPhase, request, output,
         task, files
  <1>16. CASE Collect(b)
    <2>1. pc' \in [Builds -> Labels]
      <3>1. "exit" \in Labels /\ "artifactError" \in Labels
        BY Zenon DEF Labels, Before, Running, Settled, Ending
      <3>2. pc \in [Builds -> Labels]
        BY Zenon DEF BuildTypes
      <3> QED
        BY <1>16, <3>1, <3>2, Zenon DEF Collect
    <2> QED
      BY <1>16, <2>1, Zenon DEF BuildTypes, Collect, request, output, task, files
  <1>17. CASE ArtifactError(b)
    <2>1. pc' \in [Builds -> Labels]
      <3>1. "exit" \in Labels /\ "reportError" \in Labels
        BY Zenon DEF Labels, Before, Running, Settled, Ending
      <3>2. pc \in [Builds -> Labels]
        BY Zenon DEF BuildTypes
      <3> QED
        BY <1>17, <3>1, <3>2, Zenon DEF ArtifactError, Fails
    <2>2. err' \in [Builds -> Errors]
      BY <1>17, Zenon DEF BuildTypes, ArtifactError, Fails, Errors
    <2>3. workspace' \in [Builds -> Workspaces]
      BY WorkspaceMove, Zenon DEF BuildTypes
    <2>4. stalled' \in [Builds -> BOOLEAN]
      BY <1>17, Zenon DEF BuildTypes, ArtifactError, Sends, SendFails
    <2> QED
      BY <1>17, <2>1, <2>2, <2>3, <2>4, Zenon DEF BuildTypes, ArtifactError, request, output, task,
         files
  <1>18. CASE SendExit(b)
    <2>1. pc' \in [Builds -> Labels]
      <3>1. "release" \in Labels /\ "reportError" \in Labels
        BY Zenon DEF Labels, Before, Running, Settled, Ending
      <3>2. pc \in [Builds -> Labels]
        BY Zenon DEF BuildTypes
      <3> QED
        BY <1>18, <3>1, <3>2, Zenon DEF SendExit, Fails
    <2>2. err' \in [Builds -> Errors]
      BY <1>18, Zenon DEF BuildTypes, SendExit, Fails, Errors
    <2>3. workspace' \in [Builds -> Workspaces]
      BY WorkspaceMove, Zenon DEF BuildTypes
    <2>4. stalled' \in [Builds -> BOOLEAN]
      BY <1>18, Zenon DEF BuildTypes, SendExit, Sends, SendFails
    <2>5. exit' \in [Builds -> Outcomes]
      <3>1. ExitCode(b) \in Outcomes
        BY Zenon DEF BuildTypes, ExitCode, Outcomes
      <3> QED
        BY <1>18, <3>1, Zenon DEF SendExit, BuildTypes
    <2> QED
      BY <1>18, <2>1, <2>2, <2>3, <2>4, <2>5, Zenon DEF BuildTypes, SendExit, request, output,
         task, files
  <1>19. CASE ReportError(b)
    <2>1. pc' \in [Builds -> Labels]
      <3>1. "reportExit" \in Labels
        BY Zenon DEF Labels, Before, Running, Settled, Ending
      <3>2. pc \in [Builds -> Labels]
        BY Zenon DEF BuildTypes
      <3> QED
        BY <1>19, <3>1, <3>2, Zenon DEF ReportError
    <2>2. stalled' \in [Builds -> BOOLEAN]
      BY <1>19, Zenon DEF BuildTypes, ReportError, Sends, SendFails
    <2> QED
      BY <1>19, <2>1, <2>2, Zenon DEF BuildTypes, ReportError, request, output, task, files
  <1>20. CASE ReportExit(b)
    <2>1. pc' \in [Builds -> Labels]
      <3>1. "release" \in Labels
        BY Zenon DEF Labels, Before, Running, Settled, Ending
      <3>2. pc \in [Builds -> Labels]
        BY Zenon DEF BuildTypes
      <3> QED
        BY <1>20, <3>1, <3>2, Zenon DEF ReportExit
    <2>2. exit' \in [Builds -> Outcomes]
      BY <1>20, Zenon DEF BuildTypes, ReportExit, Outcomes
    <2>3. stalled' \in [Builds -> BOOLEAN]
      BY <1>20, Zenon DEF BuildTypes, ReportExit, Sends, SendFails
    <2> QED
      BY <1>20, <2>1, <2>2, <2>3, Zenon DEF BuildTypes, ReportExit, request, output, task, files
  <1>21. CASE Release(b)
    <2>1. permits' \in Nat
      BY <1>21 DEF BuildTypes, Release
    <2>2. pc' \in [Builds -> Labels]
      <3>1. "done" \in Labels
        BY Zenon DEF Labels, Before, Running, Settled, Ending
      <3>2. pc \in [Builds -> Labels]
        BY Zenon DEF BuildTypes
      <3> QED
        BY <1>21, <3>1, <3>2, Zenon DEF Release
    <2> QED
      BY <1>21, <2>1, <2>2, Zenon DEF BuildTypes, Release, request, output, task, files
  <1>22. CASE Receive(b)
    <2> QED
      BY <1>22, Zenon DEF BuildTypes, Receive, request, output, task, files
  <1>23. CASE Disconnect(b)
    <2>1. stream' \in [Builds -> {"none", "open", "dropped", "ended"}]
      BY <1>23, Zenon DEF BuildTypes, Disconnect
    <2>2. cancelled' \in [Builds -> BOOLEAN]
      BY <1>23, Zenon DEF BuildTypes, Disconnect
    <2> QED
      BY <1>23, <2>1, <2>2, Zenon DEF BuildTypes, Disconnect, request, output, task, files
  <1>24. CASE StreamEnds(b)
    <2>1. stream' \in [Builds -> {"none", "open", "dropped", "ended"}]
      BY <1>24, Zenon DEF BuildTypes, StreamEnds
    <2>2. cancelled' \in [Builds -> BOOLEAN]
      BY <1>24, Zenon DEF BuildTypes, StreamEnds
    <2> QED
      BY <1>24, <2>1, <2>2, Zenon DEF BuildTypes, StreamEnds, request, output, task, files
  <1>25. ASSUME NEW r \in Readers, ReadChunk(b, r)
        PROVE  BuildTypes'
    <2>1. reader' \in [Builds -> [Readers -> Positions]]
      <3>1. PICK at \in Positions :
               reader' = [reader EXCEPT ![b] = [reader[b] EXCEPT ![r] = at]]
        BY <1>25, Zenon DEF ReadChunk, ReaderDone, Positions
      <3>2. [reader[b] EXCEPT ![r] = at] \in [Readers -> Positions]
        BY Zenon DEF BuildTypes
      <3> QED
        BY <3>1, <3>2, Zenon DEF BuildTypes
    <2>2. exceeded' \in [Builds -> BOOLEAN]
      BY <1>25, Zenon DEF BuildTypes, ReadChunk
    <2>3. cancelled' \in [Builds -> BOOLEAN]
      BY <1>25, Zenon DEF BuildTypes, ReadChunk
    <2> QED
      BY <1>25, <2>1, <2>2, <2>3, Zenon DEF BuildTypes, ReadChunk, request, output, task, files
  <1>26. ASSUME NEW r \in Readers, ReadEnd(b, r)
        PROVE  BuildTypes'
    <2>1. reader' \in [Builds -> [Readers -> Positions]]
      <3>1. PICK at \in Positions :
               reader' = [reader EXCEPT ![b] = [reader[b] EXCEPT ![r] = at]]
        BY <1>26, Zenon DEF ReadEnd, ReaderDone, Positions
      <3>2. [reader[b] EXCEPT ![r] = at] \in [Readers -> Positions]
        BY Zenon DEF BuildTypes
      <3> QED
        BY <3>1, <3>2, Zenon DEF BuildTypes
    <2> QED
      BY <1>26, <2>1, Zenon DEF BuildTypes, ReadEnd, request, output, task, files
  <1>27. ASSUME NEW r \in Readers, ForwardOutput(b, r)
        PROVE  BuildTypes'
    <2>1. reader' \in [Builds -> [Readers -> Positions]]
      <3>1. PICK at \in Positions :
               reader' = [reader EXCEPT ![b] = [reader[b] EXCEPT ![r] = at]]
        BY <1>27, Zenon DEF ForwardOutput, ReaderDone, Positions
      <3>2. [reader[b] EXCEPT ![r] = at] \in [Readers -> Positions]
        BY Zenon DEF BuildTypes
      <3> QED
        BY <3>1, <3>2, Zenon DEF BuildTypes
    <2>2. stalled' \in [Builds -> BOOLEAN]
      BY <1>27, Zenon DEF BuildTypes, ForwardOutput, Sends, SendFails
    <2>3. cancelled' \in [Builds -> BOOLEAN]
      BY <1>27, Zenon DEF BuildTypes, ForwardOutput
    <2> QED
      BY <1>27, <2>1, <2>2, <2>3, Zenon DEF BuildTypes, ForwardOutput, request, output, task, files
  <1>28. ASSUME NEW p \in Phases, LeaderExits(b, p)
        PROVE  BuildTypes'
    <2>1. group' \in [Builds -> [Phases -> Groups]]
      <3>1. PICK at \in Groups : group' = [group EXCEPT ![b] = [group[b] EXCEPT ![p] = at]]
        BY <1>28, Zenon DEF LeaderExits, Groups
      <3>2. [group[b] EXCEPT ![p] = at] \in [Phases -> Groups]
        BY Zenon DEF BuildTypes
      <3> QED
        BY <3>1, <3>2, Zenon DEF BuildTypes
    <2> QED
      BY <1>28, <2>1, Zenon DEF BuildTypes, LeaderExits, request, output, task, files
  <1>29. ASSUME NEW p \in Phases, HelpersExit(b, p)
        PROVE  BuildTypes'
    <2>1. group' \in [Builds -> [Phases -> Groups]]
      <3>1. PICK at \in Groups : group' = [group EXCEPT ![b] = [group[b] EXCEPT ![p] = at]]
        BY <1>29, Zenon DEF HelpersExit, Groups
      <3>2. [group[b] EXCEPT ![p] = at] \in [Phases -> Groups]
        BY Zenon DEF BuildTypes
      <3> QED
        BY <3>1, <3>2, Zenon DEF BuildTypes
    <2> QED
      BY <1>29, <2>1, Zenon DEF BuildTypes, HelpersExit, request, output, task, files
  <1>30. ASSUME NEW p \in Phases, EscapedEnds(b, p)
        PROVE  BuildTypes'
    <2> QED
      BY <1>30, Zenon DEF BuildTypes, EscapedEnds, request, output, task, files
  <1> QED
    BY <1>1, <1>2, <1>3, <1>4, <1>5, <1>6, <1>7, <1>8, <1>9, <1>10, <1>11, <1>12, <1>13,
       <1>14, <1>15, <1>16, <1>17, <1>18, <1>19, <1>20, <1>21, <1>22, <1>23, <1>24,
       <1>25, <1>26, <1>27, <1>28, <1>29, <1>30, Zenon DEF Own, Handler, Executor, Client,
       Reader, Process

(* A step of one build leaves every other build as it is.                  *)
LEMMA OthersStay ==
    ASSUME NEW b \in Builds, NEW d \in Builds, d # b, BuildTypes, Own(b)
    PROVE  Same(d)
  <1> workspace'[d] = workspace[d]
    BY WorkspaceMove, Zenon DEF BuildTypes
  <1> USE DEF BuildTypes, Same, request, output, task, files
  <1>1. CASE Handler(b)
    BY <1>1, Zenon DEF Handler, Refuse, Admit, UploadFails, UploadDone
  <1>2. CASE Announce(b)
    BY <1>2, Zenon DEF Announce, Sends, SendFails, Fails
  <1>3. CASE Prepare(b)
    BY <1>3, Zenon DEF Prepare, Fails
  <1>4. CASE EnterPhase(b)
    BY <1>4, Zenon DEF EnterPhase, Sends, SendFails, Fails
  <1>5. CASE SpawnPhase(b)
    BY <1>5, Zenon DEF SpawnPhase, Fails, SpawnReaders
  <1>6. CASE WaitPhase(b)
    BY <1>6, Zenon DEF WaitPhase
  <1>7. CASE Terminate(b)
    BY <1>7, Zenon DEF Terminate
  <1>8. CASE Grace(b)
    BY <1>8, Zenon DEF Grace
  <1>9. CASE AfterKill(b)
    BY <1>9, Zenon DEF AfterKill, Fails
  <1>10. CASE JoinReaders(b)
    BY <1>10, Zenon DEF JoinReaders
  <1>11. CASE CheckPhase(b)
    BY <1>11, Zenon DEF CheckPhase, Fails
  <1>12. CASE FinishPhase(b)
    BY <1>12, Zenon DEF FinishPhase, Sends, SendFails, Fails, NextPhase
  <1>13. CASE Collect(b)
    BY <1>13, Zenon DEF Collect
  <1>14. CASE ArtifactError(b)
    BY <1>14, Zenon DEF ArtifactError, Sends, SendFails, Fails
  <1>15. CASE SendExit(b)
    BY <1>15, Zenon DEF SendExit, Sends, SendFails, Fails
  <1>16. CASE ReportError(b)
    BY <1>16, Zenon DEF ReportError, Sends, SendFails
  <1>17. CASE ReportExit(b)
    BY <1>17, Zenon DEF ReportExit, Sends, SendFails
  <1>18. CASE Release(b)
    BY <1>18, Zenon DEF Release
  <1>19. CASE Client(b)
    BY <1>19, Zenon DEF Client, Receive, Disconnect, StreamEnds
  <1>20. ASSUME NEW r \in Readers, Reader(b, r)
        PROVE  Same(d)
    BY <1>20, Zenon DEF Reader, ReadChunk, ReaderDone, ReadEnd, ForwardOutput, Sends, SendFails
  <1>21. ASSUME NEW p \in Phases, Process(b, p)
        PROVE  Same(d)
    BY <1>21, Zenon DEF Process, LeaderExits, HelpersExit, EscapedEnds
  <1> QED
    BY <1>1, <1>2, <1>3, <1>4, <1>5, <1>6, <1>7, <1>8, <1>9, <1>10, <1>11, <1>12, <1>13,
       <1>14, <1>15, <1>16, <1>17, <1>18, <1>19, <1>20, <1>21, Zenon DEF Own, Executor

(* A step of a build keeps at most the current phase's group alive:        *)
(* run_phase moves on only once it is gone or has survived SIGKILL.        *)
LEMMA GroupsStep ==
    ASSUME NEW b \in Builds, BuildTypes, BuildOK(b), Own(b)
    PROVE  GroupsOK(b)'
  <1> /\ pc \in [Builds -> Labels] /\ phase \in [Builds -> Phases]
      /\ err \in [Builds -> Errors] /\ group \in [Builds -> [Phases -> Groups]]
    BY Zenon DEF BuildTypes
  <1> GroupsOK(b) /\ ErrorsOK(b)
    BY Zenon DEF BuildOK
  <1> USE DEF GroupsOK, ErrorsOK, Dead, GroupAlive, Phases, Labels, Before, Running,
     Settled, Ending, request, output, task, files
  <1>1. CASE Handler(b)
    BY <1>1, Zenon DEF Handler, Refuse, Admit, UploadFails, UploadDone
  <1>2. CASE Announce(b)
    BY <1>2, Zenon DEF Announce, Fails
  <1>3. CASE Prepare(b)
    BY <1>3, Zenon DEF Prepare, Fails
  <1>4. CASE EnterPhase(b)
    BY <1>4, Zenon DEF EnterPhase, Fails
  <1>5. CASE SpawnPhase(b)
    BY <1>5 DEF SpawnPhase, Fails
  <1>6. CASE WaitPhase(b)
    BY <1>6, Zenon DEF WaitPhase
  <1>7. CASE Terminate(b)
    BY <1>7, Zenon DEF Terminate
  <1>8. CASE Grace(b)
    BY <1>8, Zenon DEF Grace
  <1>9. CASE AfterKill(b)
    BY <1>9 DEF AfterKill, Fails
  <1>10. CASE JoinReaders(b)
    BY <1>10, Zenon DEF JoinReaders
  <1>11. CASE CheckPhase(b)
    BY <1>11 DEF CheckPhase, Fails
  <1>12. CASE FinishPhase(b)
    BY <1>12, Zenon DEF FinishPhase, Fails, NextPhase
  <1>13. CASE Collect(b)
    BY <1>13, Zenon DEF Collect
  <1>14. CASE ArtifactError(b)
    BY <1>14, Zenon DEF ArtifactError, Fails
  <1>15. CASE SendExit(b)
    BY <1>15, Zenon DEF SendExit, Fails
  <1>16. CASE ReportError(b)
    BY <1>16, Zenon DEF ReportError
  <1>17. CASE ReportExit(b)
    BY <1>17, Zenon DEF ReportExit
  <1>18. CASE Release(b)
    BY <1>18, Zenon DEF Release
  <1>19. CASE Client(b)
    <2>1. pc' = pc /\ phase' = phase /\ err' = err /\ group' = group
      BY <1>19, Zenon DEF Client, Receive, Disconnect, StreamEnds
    <2> QED
      BY <2>1, Zenon
  <1>20. ASSUME NEW r \in Readers, Reader(b, r)
        PROVE  GroupsOK(b)'
    <2>1. pc' = pc /\ phase' = phase /\ err' = err /\ group' = group
      BY <1>20, Zenon DEF Reader, ReadChunk, ReadEnd, ForwardOutput
    <2> QED
      BY <2>1, Zenon
  <1>21. ASSUME NEW p \in Phases, Process(b, p)
        PROVE  GroupsOK(b)'
    BY <1>21 DEF Process, LeaderExits, HelpersExit, EscapedEnds
  <1> QED
    BY <1>1, <1>2, <1>3, <1>4, <1>5, <1>6, <1>7, <1>8, <1>9, <1>10, <1>11, <1>12, <1>13,
       <1>14, <1>15, <1>16, <1>17, <1>18, <1>19, <1>20, <1>21, Zenon DEF Own, Executor

(* A step of a build keeps its error and its workspace where they belong:  *)
(* run_build drops the TempDir on every way out.                           *)
LEMMA ErrorsStep ==
    ASSUME NEW b \in Builds, BuildTypes, BuildOK(b), Own(b)
    PROVE  ErrorsOK(b)'
  <1> /\ pc \in [Builds -> Labels] /\ err \in [Builds -> Errors]
      /\ workspace \in [Builds -> Workspaces]
    BY Zenon DEF BuildTypes
  <1> ErrorsOK(b)
    BY Zenon DEF BuildOK
  <1> USE DEF ErrorsOK, Labels, Before, Running, Settled, Ending, request, output, task,
     files
  <1>1. CASE Handler(b)
    BY <1>1, Zenon DEF Handler, Refuse, Admit, UploadFails, UploadDone
  <1>2. CASE Announce(b)
    BY <1>2, Zenon DEF Announce, Fails, DropWorkspace
  <1>3. CASE Prepare(b)
    BY <1>3, Zenon DEF Prepare, Fails, DropWorkspace
  <1>4. CASE EnterPhase(b)
    BY <1>4, Zenon DEF EnterPhase, Fails, DropWorkspace
  <1>5. CASE SpawnPhase(b)
    BY <1>5, Zenon DEF SpawnPhase, Fails, DropWorkspace
  <1>6. CASE WaitPhase(b)
    BY <1>6, Zenon DEF WaitPhase
  <1>7. CASE Terminate(b)
    BY <1>7, Zenon DEF Terminate
  <1>8. CASE Grace(b)
    BY <1>8, Zenon DEF Grace
  <1>9. CASE AfterKill(b)
    BY <1>9, Zenon DEF AfterKill, Fails, DropWorkspace
  <1>10. CASE JoinReaders(b)
    BY <1>10, Zenon DEF JoinReaders
  <1>11. CASE CheckPhase(b)
    BY <1>11, Zenon DEF CheckPhase, Fails, DropWorkspace
  <1>12. CASE FinishPhase(b)
    BY <1>12, Zenon DEF FinishPhase, Fails, DropWorkspace, NextPhase
  <1>13. CASE Collect(b)
    BY <1>13, Zenon DEF Collect
  <1>14. CASE ArtifactError(b)
    BY <1>14, Zenon DEF ArtifactError, Fails, DropWorkspace
  <1>15. CASE SendExit(b)
    BY <1>15, Zenon DEF SendExit, Fails, DropWorkspace
  <1>16. CASE ReportError(b)
    BY <1>16, Zenon DEF ReportError
  <1>17. CASE ReportExit(b)
    BY <1>17, Zenon DEF ReportExit
  <1>18. CASE Release(b)
    BY <1>18, Zenon DEF Release
  <1>19. CASE Client(b)
    <2>1. pc' = pc /\ err' = err /\ workspace' = workspace
      BY <1>19, Zenon DEF Client, Receive, Disconnect, StreamEnds
    <2> QED
      BY <2>1, Zenon
  <1>20. ASSUME NEW r \in Readers, Reader(b, r)
        PROVE  ErrorsOK(b)'
    <2>1. pc' = pc /\ err' = err /\ workspace' = workspace
      BY <1>20, Zenon DEF Reader, ReadChunk, ReadEnd, ForwardOutput
    <2> QED
      BY <2>1, Zenon
  <1>21. ASSUME NEW p \in Phases, Process(b, p)
        PROVE  ErrorsOK(b)'
    <2>1. pc' = pc /\ err' = err /\ workspace' = workspace
      BY <1>21, Zenon DEF Process, LeaderExits, HelpersExit, EscapedEnds
    <2> QED
      BY <2>1, Zenon
  <1> QED
    BY <1>1, <1>2, <1>3, <1>4, <1>5, <1>6, <1>7, <1>8, <1>9, <1>10, <1>11, <1>12, <1>13,
       <1>14, <1>15, <1>16, <1>17, <1>18, <1>19, <1>20, <1>21, Zenon DEF Own, Executor

(* A step of a build keeps the exit event what the phases made it: code 0  *)
(* is only ever sent by finish_build for a run that exited 0.              *)
LEMMA ExitStep ==
    ASSUME NEW b \in Builds, BuildTypes, BuildOK(b), Own(b)
    PROVE  ExitOK(b)'
  <1> /\ pc \in [Builds -> Labels] /\ phase \in [Builds -> Phases]
      /\ outcome \in [Builds -> Outcomes] /\ err \in [Builds -> Errors]
      /\ exit \in [Builds -> Outcomes]
    BY Zenon DEF BuildTypes
  <1> ErrorsOK(b) /\ ExitOK(b)
    BY Zenon DEF BuildOK
  <1> USE DEF ErrorsOK, ExitOK, Late, Phases, Labels, Before, Running, Settled, Ending,
     request, output, task, files
  <1>1. CASE Handler(b)
    BY <1>1, Zenon DEF Handler, Refuse, Admit, UploadFails, UploadDone
  <1>2. CASE Announce(b)
    BY <1>2, Zenon DEF Announce, Fails
  <1>3. CASE Prepare(b)
    BY <1>3, Zenon DEF Prepare, Fails
  <1>4. CASE EnterPhase(b)
    BY <1>4, Zenon DEF EnterPhase, Fails
  <1>5. CASE SpawnPhase(b)
    BY <1>5, Zenon DEF SpawnPhase, Fails
  <1>6. CASE WaitPhase(b)
    BY <1>6, Zenon DEF WaitPhase
  <1>7. CASE Terminate(b)
    BY <1>7, Zenon DEF Terminate
  <1>8. CASE Grace(b)
    BY <1>8, Zenon DEF Grace
  <1>9. CASE AfterKill(b)
    BY <1>9, Zenon DEF AfterKill, Fails
  <1>10. CASE JoinReaders(b)
    BY <1>10, Zenon DEF JoinReaders
  <1>11. CASE CheckPhase(b)
    BY <1>11, Zenon DEF CheckPhase, Fails
  <1>12. CASE FinishPhase(b)
    BY <1>12, Zenon DEF FinishPhase, Fails, NextPhase
  <1>13. CASE Collect(b)
    BY <1>13, Zenon DEF Collect
  <1>14. CASE ArtifactError(b)
    BY <1>14, Zenon DEF ArtifactError, Fails
  <1>15. CASE SendExit(b)
    BY <1>15, Zenon DEF SendExit, Fails, ExitCode
  <1>16. CASE ReportError(b)
    BY <1>16, Zenon DEF ReportError
  <1>17. CASE ReportExit(b)
    BY <1>17, Zenon DEF ReportExit
  <1>18. CASE Release(b)
    BY <1>18, Zenon DEF Release
  <1>19. CASE Client(b)
    <2>1. pc' = pc /\ phase' = phase /\ outcome' = outcome /\ err' = err /\ exit' = exit
      BY <1>19, Zenon DEF Client, Receive, Disconnect, StreamEnds
    <2> QED
      BY <2>1, Zenon
  <1>20. ASSUME NEW r \in Readers, Reader(b, r)
        PROVE  ExitOK(b)'
    <2>1. pc' = pc /\ phase' = phase /\ outcome' = outcome /\ err' = err /\ exit' = exit
      BY <1>20, Zenon DEF Reader, ReadChunk, ReadEnd, ForwardOutput
    <2> QED
      BY <2>1, Zenon
  <1>21. ASSUME NEW p \in Phases, Process(b, p)
        PROVE  ExitOK(b)'
    <2>1. pc' = pc /\ phase' = phase /\ outcome' = outcome /\ err' = err /\ exit' = exit
      BY <1>21, Zenon DEF Process, LeaderExits, HelpersExit, EscapedEnds
    <2> QED
      BY <2>1, Zenon
  <1> QED
    BY <1>1, <1>2, <1>3, <1>4, <1>5, <1>6, <1>7, <1>8, <1>9, <1>10, <1>11, <1>12, <1>13,
       <1>14, <1>15, <1>16, <1>17, <1>18, <1>19, <1>20, <1>21, Zenon DEF Own, Executor


(* A step of a build leaves no reader running unaccounted for: run_phase   *)
(* joins the readers of its phase or detaches them.                        *)
LEMMA ReadersStep ==
    ASSUME NEW b \in Builds, BuildTypes, BuildOK(b), Own(b)
    PROVE  ReadersOK(b)'
  <1> /\ pc \in [Builds -> Labels] /\ phase \in [Builds -> Phases]
      /\ stream \in [Builds -> {"none", "open", "dropped", "ended"}]
      /\ exceeded \in [Builds -> BOOLEAN]
      /\ reader \in [Builds -> [Readers -> Positions]]
      /\ detached \in [Builds -> SUBSET Readers]
    BY Zenon DEF BuildTypes
  <1> ReadersOK(b) /\ StreamOK(b)
    BY Zenon DEF BuildOK
  <1> USE DEF ReadersOK, StreamOK, Active, Readers, Phases, Before, Running, request,
     output, task, files
  <1>1. CASE Handler(b)
    BY <1>1, Zenon DEF Handler, Refuse, Admit, UploadFails, UploadDone
  <1>2. CASE Announce(b)
    BY <1>2, Zenon DEF Announce, Fails
  <1>3. CASE Prepare(b)
    BY <1>3, Zenon DEF Prepare, Fails
  <1>4. CASE EnterPhase(b)
    BY <1>4, Zenon DEF EnterPhase, Fails
  <1>5. CASE SpawnPhase(b)
    BY <1>5 DEF SpawnPhase, Fails, SpawnReaders
  <1>6. CASE WaitPhase(b)
    BY <1>6, Zenon DEF WaitPhase
  <1>7. CASE Terminate(b)
    BY <1>7, Zenon DEF Terminate
  <1>8. CASE Grace(b)
    BY <1>8, Zenon DEF Grace
  <1>9. CASE AfterKill(b)
    BY <1>9 DEF AfterKill, Fails
  <1>10. CASE JoinReaders(b)
    BY <1>10, Zenon DEF JoinReaders
  <1>11. CASE CheckPhase(b)
    BY <1>11, Zenon DEF CheckPhase, Fails
  <1>12. CASE FinishPhase(b)
    BY <1>12, Zenon DEF FinishPhase, Fails, NextPhase
  <1>13. CASE Collect(b)
    BY <1>13, Zenon DEF Collect
  <1>14. CASE ArtifactError(b)
    BY <1>14, Zenon DEF ArtifactError, Fails
  <1>15. CASE SendExit(b)
    BY <1>15, Zenon DEF SendExit, Fails
  <1>16. CASE ReportError(b)
    BY <1>16, Zenon DEF ReportError
  <1>17. CASE ReportExit(b)
    BY <1>17, Zenon DEF ReportExit
  <1>18. CASE Release(b)
    BY <1>18, Zenon DEF Release
  <1>19. CASE Client(b)
    BY <1>19 DEF Client, Receive, Disconnect, StreamEnds
  <1>20. ASSUME NEW r \in Readers, Reader(b, r)
        PROVE  ReadersOK(b)'
    BY <1>20 DEF Reader, ReadChunk, ReaderDone, ReadEnd, ForwardOutput
  <1>21. ASSUME NEW p \in Phases, Process(b, p)
        PROVE  ReadersOK(b)'
    <2>1. pc' = pc /\ phase' = phase /\ stream' = stream /\ exceeded' = exceeded /\ reader' = reader /\ detached' = detached
      BY <1>21, Zenon DEF Process, LeaderExits, HelpersExit, EscapedEnds
    <2> QED
      BY <2>1, Zenon
  <1> QED
    BY <1>1, <1>2, <1>3, <1>4, <1>5, <1>6, <1>7, <1>8, <1>9, <1>10, <1>11, <1>12, <1>13,
       <1>14, <1>15, <1>16, <1>17, <1>18, <1>19, <1>20, <1>21, Zenon DEF Own, Executor

(* A step of a build opens the response stream with the executor and ends  *)
(* it after the executor.                                                  *)
LEMMA StreamStep ==
    ASSUME NEW b \in Builds, BuildTypes, BuildOK(b), Own(b)
    PROVE  StreamOK(b)'
  <1> /\ pc \in [Builds -> Labels]
      /\ stream \in [Builds -> {"none", "open", "dropped", "ended"}]
    BY Zenon DEF BuildTypes
  <1> StreamOK(b)
    BY Zenon DEF BuildOK
  <1> USE DEF StreamOK, request, output, task, files
  <1>1. CASE Handler(b)
    BY <1>1, Zenon DEF Handler, Refuse, Admit, UploadFails, UploadDone
  <1>2. CASE Announce(b)
    BY <1>2, Zenon DEF Announce, Fails
  <1>3. CASE Prepare(b)
    BY <1>3, Zenon DEF Prepare, Fails
  <1>4. CASE EnterPhase(b)
    BY <1>4, Zenon DEF EnterPhase, Fails
  <1>5. CASE SpawnPhase(b)
    BY <1>5, Zenon DEF SpawnPhase, Fails
  <1>6. CASE WaitPhase(b)
    BY <1>6, Zenon DEF WaitPhase
  <1>7. CASE Terminate(b)
    BY <1>7, Zenon DEF Terminate
  <1>8. CASE Grace(b)
    BY <1>8, Zenon DEF Grace
  <1>9. CASE AfterKill(b)
    BY <1>9, Zenon DEF AfterKill, Fails
  <1>10. CASE JoinReaders(b)
    BY <1>10, Zenon DEF JoinReaders
  <1>11. CASE CheckPhase(b)
    BY <1>11, Zenon DEF CheckPhase, Fails
  <1>12. CASE FinishPhase(b)
    BY <1>12, Zenon DEF FinishPhase, Fails, NextPhase
  <1>13. CASE Collect(b)
    BY <1>13, Zenon DEF Collect
  <1>14. CASE ArtifactError(b)
    BY <1>14, Zenon DEF ArtifactError, Fails
  <1>15. CASE SendExit(b)
    BY <1>15, Zenon DEF SendExit, Fails
  <1>16. CASE ReportError(b)
    BY <1>16, Zenon DEF ReportError
  <1>17. CASE ReportExit(b)
    BY <1>17, Zenon DEF ReportExit
  <1>18. CASE Release(b)
    BY <1>18, Zenon DEF Release
  <1>19. CASE Client(b)
    BY <1>19, Zenon DEF Client, Receive, Disconnect, StreamEnds
  <1>20. ASSUME NEW r \in Readers, Reader(b, r)
        PROVE  StreamOK(b)'
    <2>1. pc' = pc /\ stream' = stream
      BY <1>20, Zenon DEF Reader, ReadChunk, ReadEnd, ForwardOutput
    <2> QED
      BY <2>1, Zenon
  <1>21. ASSUME NEW p \in Phases, Process(b, p)
        PROVE  StreamOK(b)'
    <2>1. pc' = pc /\ stream' = stream
      BY <1>21, Zenon DEF Process, LeaderExits, HelpersExit, EscapedEnds
    <2> QED
      BY <2>1, Zenon
  <1> QED
    BY <1>1, <1>2, <1>3, <1>4, <1>5, <1>6, <1>7, <1>8, <1>9, <1>10, <1>11, <1>12, <1>13,
       <1>14, <1>15, <1>16, <1>17, <1>18, <1>19, <1>20, <1>21, Zenon DEF Own, Executor

(* A step of a build raises the flag for a dropped stream, a full channel  *)
(* or the output limit, and a wait is cut short only by the flag.          *)
LEMMA FlagStep ==
    ASSUME NEW b \in Builds, BuildTypes, BuildOK(b), Own(b)
    PROVE  FlagOK(b)'
  <1> /\ pc \in [Builds -> Labels] /\ outcome \in [Builds -> Outcomes]
      /\ stream \in [Builds -> {"none", "open", "dropped", "ended"}]
      /\ cancelled \in [Builds -> BOOLEAN] /\ exceeded \in [Builds -> BOOLEAN]
      /\ stalled \in [Builds -> BOOLEAN]
    BY Zenon DEF BuildTypes
  <1> FlagOK(b) /\ StreamOK(b) /\ ReadersOK(b)
    BY Zenon DEF BuildOK
  <1> USE DEF FlagOK, StreamOK, request, output, task, files
  <1>1. CASE Handler(b)
    BY <1>1, Zenon DEF Handler, Refuse, Admit, UploadFails, UploadDone
  <1>2. CASE Announce(b)
    BY <1>2, Zenon DEF Announce, Sends, SendFails, Fails
  <1>3. CASE Prepare(b)
    BY <1>3, Zenon DEF Prepare, Fails
  <1>4. CASE EnterPhase(b)
    BY <1>4, Zenon DEF EnterPhase, Sends, SendFails, Fails
  <1>5. CASE SpawnPhase(b)
    BY <1>5, Zenon DEF SpawnPhase, Fails
  <1>6. CASE WaitPhase(b)
    BY <1>6, Zenon DEF WaitPhase, Late
  <1>7. CASE Terminate(b)
    BY <1>7, Zenon DEF Terminate
  <1>8. CASE Grace(b)
    BY <1>8, Zenon DEF Grace
  <1>9. CASE AfterKill(b)
    BY <1>9, Zenon DEF AfterKill, Fails
  <1>10. CASE JoinReaders(b)
    BY <1>10, Zenon DEF JoinReaders
  <1>11. CASE CheckPhase(b)
    BY <1>11, Zenon DEF CheckPhase, Fails
  <1>12. CASE FinishPhase(b)
    BY <1>12, Zenon DEF FinishPhase, Sends, SendFails, Fails, NextPhase
  <1>13. CASE Collect(b)
    BY <1>13, Zenon DEF Collect
  <1>14. CASE ArtifactError(b)
    BY <1>14, Zenon DEF ArtifactError, Sends, SendFails, Fails
  <1>15. CASE SendExit(b)
    BY <1>15, Zenon DEF SendExit, Sends, SendFails, Fails
  <1>16. CASE ReportError(b)
    BY <1>16, Zenon DEF ReportError, Sends, SendFails
  <1>17. CASE ReportExit(b)
    BY <1>17, Zenon DEF ReportExit, Sends, SendFails
  <1>18. CASE Release(b)
    BY <1>18, Zenon DEF Release
  <1>19. CASE Client(b)
    BY <1>19, Zenon DEF Client, Receive, Disconnect, StreamEnds
  <1>20. ASSUME NEW r \in Readers, ReadChunk(b, r)
        PROVE  FlagOK(b)'
    BY <1>20, Zenon DEF ReadChunk, ReaderDone
  <1>21. ASSUME NEW r \in Readers, ReadEnd(b, r)
        PROVE  FlagOK(b)'
    BY <1>21, Zenon DEF ReadEnd, ReaderDone
  <1>22. ASSUME NEW r \in Readers, ForwardOutput(b, r)
        PROVE  FlagOK(b)'
    <2>1. Active(b, r)
      BY <1>22, Zenon DEF ForwardOutput, Active
    <2>2. stream[b] \in {"open", "dropped"}
      <3>1. stream[b] # "ended"
        BY <2>1, Zenon DEF ReadersOK
      <3>2. pc[b] \notin Before
        BY <2>1, Zenon DEF ReadersOK, Running, Before
      <3> QED
        BY <3>1, <3>2, Zenon DEF Before
    <2> QED
      BY <1>22, <2>2, Zenon DEF ForwardOutput, Sends, SendFails, ReaderDone
  <1>23. ASSUME NEW p \in Phases, Process(b, p)
        PROVE  FlagOK(b)'
    <2>1. pc' = pc /\ outcome' = outcome /\ stream' = stream /\ cancelled' = cancelled /\ exceeded' = exceeded /\ stalled' = stalled
      BY <1>23, Zenon DEF Process, LeaderExits, HelpersExit, EscapedEnds
    <2> QED
      BY <2>1, Zenon
  <1> QED
    BY <1>1, <1>2, <1>3, <1>4, <1>5, <1>6, <1>7, <1>8, <1>9, <1>10, <1>11, <1>12, <1>13,
       <1>14, <1>15, <1>16, <1>17, <1>18, <1>19, <1>20, <1>21, <1>22, <1>23, Zenon DEF Own,
       Executor, Reader

(* A step of a build reports stream_closed for a dropped stream, a full    *)
(* channel or a reader of setup that outlived it.                          *)
LEMMA ClosedStep ==
    ASSUME NEW b \in Builds, BuildTypes, BuildOK(b), Own(b)
    PROVE  ClosedOK(b)'
  <1> /\ pc \in [Builds -> Labels] /\ phase \in [Builds -> Phases]
      /\ outcome \in [Builds -> Outcomes] /\ err \in [Builds -> Errors]
      /\ stream \in [Builds -> {"none", "open", "dropped", "ended"}]
      /\ cancelled \in [Builds -> BOOLEAN] /\ exceeded \in [Builds -> BOOLEAN]
      /\ stalled \in [Builds -> BOOLEAN] /\ detached \in [Builds -> SUBSET Readers]
    BY Zenon DEF BuildTypes
  <1> ClosedOK(b) /\ FlagOK(b) /\ StreamOK(b) /\ ErrorsOK(b) /\ ReadersOK(b)
    BY Zenon DEF BuildOK
  <1> USE DEF ClosedOK, FlagOK, StreamOK, ErrorsOK, SetupDetached, Before, Ending,
     request, output, task, files
  <1>1. CASE Handler(b)
    BY <1>1, Zenon DEF Handler, Refuse, Admit, UploadFails, UploadDone
  <1>2. CASE Announce(b)
    BY <1>2, Zenon DEF Announce, Sends, SendFails, Fails
  <1>3. CASE Prepare(b)
    <2>1. ~exceeded[b]
      BY <1>3, Zenon DEF Prepare, ReadersOK
    <2> QED
      BY <1>3, <2>1, Zenon DEF Prepare, Fails
  <1>4. CASE EnterPhase(b)
    BY <1>4, Zenon DEF EnterPhase, Sends, SendFails, Fails
  <1>5. CASE SpawnPhase(b)
    BY <1>5, Zenon DEF SpawnPhase, Fails
  <1>6. CASE WaitPhase(b)
    BY <1>6, Zenon DEF WaitPhase
  <1>7. CASE Terminate(b)
    BY <1>7, Zenon DEF Terminate
  <1>8. CASE Grace(b)
    BY <1>8, Zenon DEF Grace
  <1>9. CASE AfterKill(b)
    BY <1>9, Zenon DEF AfterKill, Fails
  <1>10. CASE JoinReaders(b)
    BY <1>10, Zenon DEF JoinReaders
  <1>11. CASE CheckPhase(b)
    BY <1>11, Zenon DEF CheckPhase, Fails
  <1>12. CASE FinishPhase(b)
    BY <1>12, Zenon DEF FinishPhase, Sends, SendFails, Fails, NextPhase
  <1>13. CASE Collect(b)
    BY <1>13, Zenon DEF Collect
  <1>14. CASE ArtifactError(b)
    BY <1>14, Zenon DEF ArtifactError, Sends, SendFails, Fails
  <1>15. CASE SendExit(b)
    BY <1>15, Zenon DEF SendExit, Sends, SendFails, Fails
  <1>16. CASE ReportError(b)
    BY <1>16, Zenon DEF ReportError, Sends, SendFails
  <1>17. CASE ReportExit(b)
    BY <1>17, Zenon DEF ReportExit, Sends, SendFails
  <1>18. CASE Release(b)
    BY <1>18, Zenon DEF Release
  <1>19. CASE Client(b)
    BY <1>19, Zenon DEF Client, Receive, Disconnect, StreamEnds
  <1>20. ASSUME NEW r \in Readers, ReadChunk(b, r)
        PROVE  ClosedOK(b)'
    <2>1. r[1] \in Phases /\ r[2] \in Kinds /\ r = <<r[1], r[2]>>
      BY DEF Readers
    <2>2. ASSUME pc[b] = "enter" \/ (pc[b] = "finish" /\ phase[b] = "setup")
          PROVE  SetupDetached(b)
      <3>1. Active(b, r)
        BY <1>20, Zenon DEF ReadChunk, Active
      <3>2. r \in detached[b]
        BY <2>2, <3>1, Zenon DEF ReadersOK, Running
      <3>3. r[1] # "run"
        BY <2>1, <2>2, <3>1, Zenon DEF ReadersOK, Active
      <3>4. <<"setup", r[2]>> \in detached[b]
        BY <2>1, <3>2, <3>3, Zenon DEF Phases
      <3> QED
        BY <2>1, <3>4, Zenon
    <2> QED
      BY <1>20, <2>2, Zenon DEF ReadChunk
  <1>21. ASSUME NEW r \in Readers, ReadEnd(b, r)
        PROVE  ClosedOK(b)'
    BY <1>21, Zenon DEF ReadEnd, ReaderDone
  <1>22. ASSUME NEW r \in Readers, ForwardOutput(b, r)
        PROVE  ClosedOK(b)'
    BY <1>22, Zenon DEF ForwardOutput, Sends, SendFails, ReaderDone
  <1>23. ASSUME NEW p \in Phases, Process(b, p)
        PROVE  ClosedOK(b)'
    <2>1. pc' = pc /\ phase' = phase /\ outcome' = outcome /\ err' = err /\ stream' = stream /\ cancelled' = cancelled /\ exceeded' = exceeded /\ stalled' = stalled /\ detached' = detached
      BY <1>23, Zenon DEF Process, LeaderExits, HelpersExit, EscapedEnds
    <2> QED
      BY <2>1, Zenon
  <1> QED
    BY <1>1, <1>2, <1>3, <1>4, <1>5, <1>6, <1>7, <1>8, <1>9, <1>10, <1>11, <1>12, <1>13,
       <1>14, <1>15, <1>16, <1>17, <1>18, <1>19, <1>20, <1>21, <1>22, <1>23, Zenon DEF Own,
       Executor, Reader

(* Build b holds a permit.                                                 *)
Flying(b) == pc[b] \notin Over \cup {"idle"}

(* What a step of build b does to the semaphore.                           *)
TakesOne(b) == permits > 0 /\ permits' = permits - 1 /\ ~Flying(b) /\ Flying(b)'
GivesBack(b) == permits' = permits + 1 /\ Flying(b) /\ ~Flying(b)'
KeepsAll(b) == permits' = permits /\ (Flying(b)' <=> Flying(b))

(* A permit is taken by try_acquire_owned and given back by the two ways   *)
(* out of the request: a failed upload and the end of the executor.        *)
LEMMA FlightStep ==
    ASSUME NEW b \in Builds, BuildTypes, Own(b)
    PROVE  TakesOne(b) \/ GivesBack(b) \/ KeepsAll(b)
  <1> USE DEF BuildTypes, TakesOne, GivesBack, KeepsAll, Flying, Over, request, output,
     task, files
  <1>1. CASE Handler(b)
    BY <1>1, Zenon DEF Handler, Refuse, Admit, UploadFails, UploadDone
  <1>2. CASE Announce(b)
    BY <1>2, Zenon DEF Announce, Sends, SendFails, Fails
  <1>3. CASE Prepare(b)
    BY <1>3, Zenon DEF Prepare, Fails
  <1>4. CASE EnterPhase(b)
    BY <1>4, Zenon DEF EnterPhase, Sends, SendFails, Fails
  <1>5. CASE SpawnPhase(b)
    BY <1>5, Zenon DEF SpawnPhase, Fails, SpawnReaders
  <1>6. CASE WaitPhase(b)
    BY <1>6, Zenon DEF WaitPhase
  <1>7. CASE Terminate(b)
    BY <1>7, Zenon DEF Terminate, Signal
  <1>8. CASE Grace(b)
    BY <1>8, Zenon DEF Grace, Signal
  <1>9. CASE AfterKill(b)
    BY <1>9, Zenon DEF AfterKill, Fails
  <1>10. CASE JoinReaders(b)
    BY <1>10, Zenon DEF JoinReaders
  <1>11. CASE CheckPhase(b)
    BY <1>11 DEF CheckPhase, Fails
  <1>12. CASE FinishPhase(b)
    BY <1>12, Zenon DEF FinishPhase, Sends, SendFails, Fails, NextPhase
  <1>13. CASE Collect(b)
    BY <1>13, Zenon DEF Collect
  <1>14. CASE ArtifactError(b)
    BY <1>14, Zenon DEF ArtifactError, Sends, SendFails, Fails
  <1>15. CASE SendExit(b)
    BY <1>15, Zenon DEF SendExit, Sends, SendFails, Fails, ExitCode
  <1>16. CASE ReportError(b)
    BY <1>16, Zenon DEF ReportError, Sends, SendFails
  <1>17. CASE ReportExit(b)
    BY <1>17, Zenon DEF ReportExit, Sends, SendFails
  <1>18. CASE Release(b)
    BY <1>18, Zenon DEF Release
  <1>19. CASE Client(b)
    BY <1>19, Zenon DEF Client, Receive, Disconnect, StreamEnds
  <1>20. ASSUME NEW r \in Readers, Reader(b, r)
        PROVE  TakesOne(b) \/ GivesBack(b) \/ KeepsAll(b)
    BY <1>20, Zenon DEF Reader, ReadChunk, ReaderDone, ReadEnd, ForwardOutput, Sends, SendFails
  <1>21. ASSUME NEW p \in Phases, Process(b, p)
        PROVE  TakesOne(b) \/ GivesBack(b) \/ KeepsAll(b)
    BY <1>21, Zenon DEF Process, LeaderExits, HelpersExit, EscapedEnds
  <1> QED
    BY <1>1, <1>2, <1>3, <1>4, <1>5, <1>6, <1>7, <1>8, <1>9, <1>10, <1>11, <1>12, <1>13,
       <1>14, <1>15, <1>16, <1>17, <1>18, <1>19, <1>20, <1>21, Zenon DEF Own, Executor

-----------------------------------------------------------------------------
(* A build that a step leaves alone keeps what the invariant says of it.   *)
LEMMA SameKeeps ==
    ASSUME NEW b \in Builds, BuildOK(b), Same(b)
    PROVE  BuildOK(b)'
  <1>1. GroupsOK(b)'
    BY Zenon DEF BuildOK, GroupsOK, Same, Dead, GroupAlive
  <1>2. ErrorsOK(b)' /\ ExitOK(b)'
    BY Zenon DEF BuildOK, ErrorsOK, ExitOK, Same
  <1>3. ReadersOK(b)'
    BY Zenon DEF BuildOK, ReadersOK, Same, Active
  <1>4. StreamOK(b)' /\ FlagOK(b)' /\ ClosedOK(b)'
    BY Zenon DEF BuildOK, StreamOK, FlagOK, ClosedOK, Same, SetupDetached
  <1> QED
    BY <1>1, <1>2, <1>3, <1>4, Zenon DEF BuildOK

(* The invariant holds when the daemon starts.                             *)
LEMMA BuildInit == Init => BuildInv
  <1> SUFFICES ASSUME Init PROVE BuildInv
    OBVIOUS
  <1> USE BuildAssumption
  <1>1. BuildTypes
    <2>1. /\ "idle" \in Labels /\ "none" \in Outcomes /\ "none" \in Errors
          /\ "none" \in Groups /\ "none" \in Positions /\ "none" \in Workspaces
      BY Zenon DEF Labels, Before, Outcomes, Errors, Groups, Positions, Workspaces
    <2>2. phase \in [Builds -> Phases]
      BY Zenon DEF Init, Phases
    <2> QED
      BY <2>1, <2>2, Zenon DEF Init, BuildTypes
  <1>2. Counted
    <2>1. InFlight = {}
      BY Zenon DEF Init, InFlight
    <2> QED
      BY <2>1, FS_EmptySet DEF Init, Counted
  <1>3. ASSUME NEW b \in Builds PROVE BuildOK(b)
    <2>1. GroupsOK(b) /\ ErrorsOK(b) /\ ExitOK(b)
      BY Zenon DEF Init, GroupsOK, ErrorsOK, ExitOK, Dead, GroupAlive, Before, Running, Settled,
             Ending, Phases
    <2>2. \A r \in Readers : ~Active(b, r)
      BY Zenon DEF Init, Active
    <2>3. \A k \in Kinds : reader[b][<<"run", k>>] = "none"
      BY Zenon DEF Init, Readers, Phases
    <2>4. ReadersOK(b)
      BY <2>2, <2>3, Zenon DEF Init, ReadersOK
    <2>5. StreamOK(b) /\ FlagOK(b) /\ ClosedOK(b)
      BY Zenon DEF Init, StreamOK, FlagOK, ClosedOK
    <2> QED
      BY <2>1, <2>4, <2>5, Zenon DEF BuildOK
  <1> QED
    BY <1>1, <1>2, <1>3, Zenon DEF BuildInv

(* A step of a build keeps the permits counted.                            *)
LEMMA OwnCounted ==
    ASSUME NEW b \in Builds, BuildTypes, Counted, Own(b), sessions' = sessions
    PROVE  Counted'
  <1> USE BuildAssumption
  <1>1. \A d \in Builds : d # b => (Flying(d)' <=> Flying(d))
    BY OthersStay, Zenon DEF Flying, Same
  <1>2. IsFiniteSet(InFlight) /\ Cardinality(InFlight) \in Nat
    BY FS_Subset, FS_CardinalityType, Zenon DEF InFlight
  <1>3. CASE TakesOne(b)
    <2>1. b \notin InFlight /\ InFlight' = InFlight \cup {b}
      BY <1>1, <1>3, Zenon DEF TakesOne, InFlight, Flying
    <2>2. Cardinality(InFlight') = Cardinality(InFlight) + 1
      BY <1>2, <2>1, FS_AddElement, Zenon
    <2> QED
      BY <1>2, <1>3, <2>2 DEF TakesOne, Counted, BuildTypes
  <1>4. CASE GivesBack(b)
    <2>1. b \in InFlight /\ InFlight' = InFlight \ {b}
      BY <1>1, <1>4, Zenon DEF GivesBack, InFlight, Flying
    <2>2. Cardinality(InFlight') = Cardinality(InFlight) - 1
      BY <1>2, <2>1, FS_RemoveElement, Zenon
    <2> QED
      BY <1>2, <1>4, <2>2 DEF GivesBack, Counted, BuildTypes
  <1>5. CASE KeepsAll(b)
    <2>1. InFlight' = InFlight
      BY <1>1, <1>5, Zenon DEF KeepsAll, InFlight, Flying
    <2> QED
      BY <1>5, <2>1, Zenon DEF KeepsAll, Counted
  <1> QED
    BY <1>3, <1>4, <1>5, FlightStep, Zenon

(* A session's permit comes from the same semaphore and touches no build.  *)
LEMMA SessionSteps ==
    ASSUME BuildInv, SessionStarts \/ SessionEnds
    PROVE  BuildInv'
  <1> USE BuildAssumption
  <1>1. BuildTypes' /\ \A b \in Builds : Same(b)
    BY DEF BuildInv, BuildTypes, SessionStarts, SessionEnds, Same, output, task, files
  <1>2. InFlight' = InFlight
    BY Zenon DEF SessionStarts, SessionEnds, InFlight
  <1>3. Cardinality(InFlight) \in Nat
    BY FS_Subset, FS_CardinalityType, Zenon DEF InFlight
  <1>4. permits' + sessions' = permits + sessions
    <2> permits \in Nat /\ sessions \in Nat
      BY Zenon DEF BuildInv, BuildTypes
    <2>1. CASE SessionStarts
      BY <2>1 DEF SessionStarts
    <2>2. CASE SessionEnds
      BY <2>2 DEF SessionEnds
    <2> QED
      BY <2>1, <2>2, Zenon
  <1>5. Counted'
    BY <1>1, <1>2, <1>3, <1>4, Zenon DEF BuildInv, BuildTypes, Counted
  <1> QED
    BY <1>1, <1>5, SameKeeps, Zenon DEF BuildInv

(* Every step keeps the invariant.                                         *)
LEMMA BuildStep == BuildInv /\ [Next]_vars => BuildInv'
  <1> SUFFICES ASSUME BuildInv, [Next]_vars PROVE BuildInv'
    OBVIOUS
  <1>1. CASE SessionStarts \/ SessionEnds
    BY <1>1, SessionSteps, Zenon
  <1>2. ASSUME NEW b \in Builds, Own(b), sessions' = sessions PROVE BuildInv'
    <2>1. BuildTypes /\ Counted /\ BuildOK(b)
      BY Zenon DEF BuildInv
    <2>2. BuildTypes'
      BY <1>2, <2>1, OwnTypes, Zenon
    <2>3. Counted'
      BY <1>2, <2>1, OwnCounted, Zenon
    <2>4. BuildOK(b)'
      BY <1>2, <2>1, GroupsStep, ErrorsStep, ExitStep, ReadersStep, StreamStep, FlagStep,
         ClosedStep, Zenon DEF BuildOK
    <2>5. ASSUME NEW d \in Builds, d # b PROVE BuildOK(d)'
      <3>1. Same(d)
        BY <1>2, <2>1, <2>5, OthersStay, Zenon
      <3> QED
        BY <3>1, SameKeeps, Zenon DEF BuildInv
    <2> QED
      BY <2>2, <2>3, <2>4, <2>5, Zenon DEF BuildInv
  <1>3. CASE UNCHANGED vars
    <2>1. BuildTypes' /\ \A b \in Builds : Same(b)
      BY <1>3, Zenon DEF BuildInv, BuildTypes, Same, vars
    <2>2. Counted'
      BY <1>3, Zenon DEF BuildInv, Counted, InFlight, vars
    <2> QED
      BY <2>1, <2>2, SameKeeps, Zenon DEF BuildInv
  <1> QED
    BY <1>1, <1>2, <1>3, Zenon DEF Next, Own, Finished

(***************************************************************************)
(* A build's permit covers all the work done under it, however many builds *)
(* and sessions share the semaphore (http.rs start_build, build.rs         *)
(* run_build): the permits add up, and a build that gave its permit back   *)
(* has no live process group but one that outlived SIGKILL, and no         *)
(* workspace but one whose removal failed.                                 *)
(***************************************************************************)
THEOREM BuildPermitCovers == Spec => []PermitCoversWork
  <1>1. BuildInv => PermitCoversWork
    BY Zenon DEF BuildInv, BuildOK, GroupsOK, ErrorsOK, Dead, Counted, InFlight, PermitCoversWork,
           Over, Before, Ending
  <1> QED
    BY <1>1, BuildInit, BuildStep, PTL DEF Spec

(***************************************************************************)
(* A build whose client is connected and reads is never reported as        *)
(* disconnected, except by a reader of setup that outlived it: run_phase   *)
(* looks at the output limit before the cancelled wait.                    *)
(***************************************************************************)
THEOREM BuildDisconnectReal == Spec => []DisconnectIsReal
  <1>1. BuildInv => DisconnectIsReal
    BY Zenon DEF BuildInv, BuildOK, ClosedOK, SetupDetached, DisconnectIsReal
  <1> QED
    BY <1>1, BuildInit, BuildStep, PTL DEF Spec

(***************************************************************************)
(* An exit event with code 0 and no timed_out is a run that exited 0 by    *)
(* itself, with no error; a wait that was cut short is told as timed_out;  *)
(* and no process of the groups is left but of one that outlived SIGKILL   *)
(* (build.rs wait_with_timeout, finish_build).                             *)
(***************************************************************************)
THEOREM BuildExitZero == Spec => []ExitZeroIsSuccess
  <1>1. BuildInv => ExitZeroIsSuccess
    <2> SUFFICES ASSUME BuildInv, NEW b \in Builds, exit[b] # "none"
                 PROVE  /\ exit[b] = "0" => phase[b] = "run" /\ outcome[b] = "0" /\ err[b] = "none"
                        /\ outcome[b] \in Late /\ err[b] \in {"none", "artifacts"} =>
                              exit[b] = outcome[b]
                        /\ err[b] # "wait_failed" => \A p \in Phases : ~GroupAlive(b, p)
      BY Zenon DEF ExitZeroIsSuccess
    <2>1. ExitOK(b) /\ pc[b] \in Ending
      BY Zenon DEF BuildInv, BuildOK, ExitOK, Ending
    <2>2. err[b] # "wait_failed" => Dead(b)
      BY <2>1, Zenon DEF BuildInv, BuildOK, GroupsOK
    <2> QED
      BY <2>1, <2>2, Zenon DEF Dead, ExitOK
  <1> QED
    BY <1>1, BuildInit, BuildStep, PTL DEF Spec

(***************************************************************************)
(* No process of setup's group is alive once run has been spawned          *)
(* (build.rs run_task_phases).                                             *)
(***************************************************************************)
THEOREM BuildSetupEnds == Spec => []SetupEndsBeforeRun
  <1>1. BuildInv => SetupEndsBeforeRun
    BY Zenon DEF BuildInv, BuildTypes, BuildOK, GroupsOK, SetupEndsBeforeRun, Phases
  <1> QED
    BY <1>1, BuildInit, BuildStep, PTL DEF Spec
=============================================================================
