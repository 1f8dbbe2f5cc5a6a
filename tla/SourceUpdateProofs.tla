------------------------ MODULE SourceUpdateProofs ------------------------
(***************************************************************************)
(* Proofs about SourceUpdate for every set of paths and directories, every *)
(* request parse_session_update_metadata lets through, every archive,      *)
(* every limit and any amount of interference by the services.             *)
(***************************************************************************)
EXTENDS SourceUpdate, FiniteSetTheorems, TLAPS

(***************************************************************************)
(* The inductive invariant.                                                *)
(***************************************************************************)
Cells == Paths \X {1, 2}
Files == [id : {"none", "old", "new", "foreign", "restored"},
          kind : {"none", "regular", "exec", "other"},
          content : {"none", "old", "new", "foreign"}]
Early == {"prepare", "entry", "apply", "backup"}
Mutating == {"validate", "install", "verify", "commit"}
Labels == Early \cup Mutating \cup {"rollback", "done"}

(* The types of what the worker holds and of the workspace.                *)
WorkerTypes ==
    /\ changes \in Requests /\ archive \in Archives
    /\ pc \in Labels /\ i \in Nat /\ proven \in BOOLEAN
    /\ backup \in Seq(Files) /\ parents \in Seq({1, 2})
WorkspaceTypes ==
    /\ ws \in [Cells -> Files] /\ original \in [Cells -> Files]
    /\ at \in [{Dir[p] : p \in Paths} -> {0, 1, 2}]

(* Where the worker is tells how many changes are backed up and held.      *)
PositionOK ==
    /\ outcome = "none" <=> pc # "done"
    /\ pc \in Early => parents = <<>>
    /\ pc \in {"prepare", "entry", "apply"} => backup = <<>>
    /\ pc = "backup" => i = Len(backup) + 1 /\ i <= Len(changes) + 1
    /\ pc \in Mutating \cup {"rollback"} =>
           Len(backup) = Len(changes) /\ Len(parents) <= Len(changes)
    /\ pc = "validate" => i = Len(parents) + 1
    /\ pc = "install" => i = Len(parents) /\ i > 0
    /\ pc \in {"verify", "commit"} \/ outcome = "ok" => Len(parents) = Len(changes)
    /\ pc = "verify" => i > 0 /\ i <= Len(changes) + 1
    /\ pc = "rollback" => i <= Len(parents)

(* Only what was held can fail to be proven undone.                        *)
ProvenOK == ~proven => parents # <<>>

(* Only an absent file has no inode, and an instance that is not there at  *)
(* first starts empty.                                                     *)
Inode(file) == file.id = "none" => file = Absent
InodeOK ==
    /\ \A x \in Cells : Inode(ws[x])
    /\ \A n \in 1 .. Len(backup) : Inode(backup[n])
    /\ \A p \in Paths : original[<<p, 2>>] = Absent

(* While changes are made, a file nobody else touched is the original or   *)
(* the target of a held change; while they are undone, it is as it was or  *)
(* the target of a change still to be undone.                              *)
KeptOK ==
    /\ pc \in Early \cup Mutating =>
           \A x \in Cells \ touched :
               ws[x] = original[x] \/ \E n \in 1 .. Len(parents) : x = Held(n)
    /\ pc = "rollback" =>
           \A x \in Cells \ touched :
               Same(ws[x], original[x]) \/ \E n \in 1 .. i : x = Held(n)

(* A backup taken in a directory that still stands there is the original,  *)
(* and so is the backup of every change whose parent is held.              *)
BackupOK ==
    \A n \in 1 .. Len(backup) :
        at[Dir[changes[n].path]] = 1 /\ <<changes[n].path, 1>> \notin touched =>
            backup[n] = original[<<changes[n].path, 1>>]
HeldOK ==
    \A n \in 1 .. Len(parents) :
        Held(n) \notin touched => Same(backup[n], original[Held(n)])

(* Every held change but the one being made is in place.                   *)
InstalledOK ==
    pc \in Mutating \/ outcome = "ok" =>
        \A n \in 1 .. Len(parents) :
            \/ pc = "install" /\ n = i
            \/ Held(n) \in recent
            \/ ws[Held(n)] = Installed(n)

(* What was verified is still beneath the workspace, unless late says not. *)
BeneathOK ==
    ~late =>
        /\ pc = "verify" => \A n \in 1 .. Len(changes) : n < i => Target(n) = Held(n)
        /\ pc = "commit" \/ outcome = "ok" =>
               \A n \in 1 .. Len(changes) : Target(n) = Held(n)

(* The declared paths whose bytes are staged and verified: as many as      *)
(* entries were read, so all of them once the archive is read.             *)
Verified(p) == [path |-> p, verified |-> TRUE]
StagedPaths == {p \in Declared : Verified(p) \in staged}
StagedOK ==
    /\ pc = "prepare" => staged = {}
    /\ pc = "entry" =>
           /\ Len(archive) = Cardinality(Declared)
           /\ i > 0 /\ i <= Len(archive) + 1
           /\ StagedPaths \subseteq {archive[m].name : m \in 1 .. i - 1}
           /\ Cardinality(StagedPaths) = i - 1
    /\ pc \notin {"prepare", "entry"} /\ outcome # "refused" => StagedPaths = Declared

(* Bytes of the update are nowhere before the first change, and in no      *)
(* backup.                                                                 *)
NewOK ==
    /\ pc \in Early => \A x \in Cells : ws[x].content # "new"
    /\ \A n \in 1 .. Len(backup) : backup[n].content # "new"

UpdateInv ==
    /\ WorkerTypes /\ WorkspaceTypes /\ PositionOK /\ ProvenOK /\ InodeOK
    /\ KeptOK /\ BackupOK /\ HeldOK /\ InstalledOK /\ BeneathOK
    /\ StagedOK /\ NewOK /\ OnlyVerifiedBytes

(***************************************************************************)
(* Facts about the constants, the files and the places of the changes.     *)
(***************************************************************************)
(* A request names at least one path and no path twice.                    *)
LEMMA ChangeFacts ==
    ASSUME WorkerTypes
    PROVE  /\ Len(changes) \in Nat /\ Len(changes) > 0
           /\ \A n \in 1 .. Len(changes) :
                  changes[n].path \in Paths /\ changes[n].kind \in {"file", "delete"}
           /\ \A m, n \in 1 .. Len(changes) : changes[m].path = changes[n].path => m = n
  <1> DEFINE Change == [path : Paths, kind : {"file", "delete"}]
  <1>1. /\ changes \in Seq(Change) /\ changes # <<>>
        /\ \A m, n \in 1 .. Len(changes) : changes[m].path = changes[n].path => m = n
    BY UpdateAssumption, Zenon DEF WorkerTypes
  <1>2. \A change \in Change : change.path \in Paths /\ change.kind \in {"file", "delete"}
    OBVIOUS
  <1> HIDE DEF Change
  <1>3. \A n \in 1 .. Len(changes) : changes[n] \in Change
    BY <1>1
  <1> QED
    BY <1>1, <1>2, <1>3

(* The files the model writes, what an edit in place and a restored backup *)
(* keep of a file.                                                         *)
LEMMA FileFacts ==
    /\ {Absent, OldFile, OldExec, OldOther, NewFile, Foreign} \subseteq Files
    /\ \A file \in {OldFile, OldExec, OldOther, NewFile, Foreign} : file.id # "none"
    /\ \A file \in {Absent, OldFile, OldExec, OldOther, Foreign} : file.content # "new"
    /\ \A file \in Files :
          /\ Restored(file) \in Files /\ Restored(file).id # "none"
          /\ Restored(file).kind = file.kind /\ Restored(file).content = file.content
    /\ \A file \in Files :
          LET edited == [file EXCEPT !.content = "foreign"]
          IN  /\ edited \in Files
              /\ edited.id = file.id /\ edited.content # "new"
  BY DEF Files, Absent, OldFile, OldExec, OldOther, NewFile, Foreign, Restored

(* A target that is beneath the workspace, and a held one, is a file of it. *)
LEMMA PlaceFacts ==
    ASSUME WorkerTypes, WorkspaceTypes
    PROVE  /\ \A n \in 1 .. Len(changes) :
                  /\ at[Dir[changes[n].path]] \in {0, 1, 2}
                  /\ Target(n)[2] = at[Dir[changes[n].path]]
                  /\ Target(n)[2] # 0 => Target(n) \in Cells /\ Target(n)[2] \in {1, 2}
           /\ Len(parents) \in Nat
           /\ \A n \in 1 .. Len(parents) : parents[n] \in {1, 2}
           /\ \A n \in 1 .. Len(changes) : n <= Len(parents) => Held(n) \in Cells
  <1>1. \A n \in 1 .. Len(changes) :
            /\ at[Dir[changes[n].path]] \in {0, 1, 2}
            /\ Target(n)[2] = at[Dir[changes[n].path]]
            /\ Target(n)[2] # 0 => Target(n) \in Cells /\ Target(n)[2] \in {1, 2}
    BY ChangeFacts, Zenon DEF WorkspaceTypes, Target, Cells
  <1>2. /\ Len(parents) \in Nat
        /\ \A n \in 1 .. Len(parents) : parents[n] \in {1, 2}
    BY DEF WorkerTypes
  <1>3. ASSUME NEW n \in 1 .. Len(changes), n <= Len(parents) PROVE Held(n) \in Cells
    <2>1. n \in 1 .. Len(parents)
      BY <1>2, <1>3
    <2> QED
      BY <1>2, <2>1, ChangeFacts, Zenon DEF Held, Cells
  <1> QED
    BY <1>1, <1>2, <1>3, Zenon

(* Two changes have different targets.                                     *)
LEMMA HeldApart ==
    ASSUME WorkerTypes, NEW m \in 1 .. Len(changes), NEW n \in 1 .. Len(changes), m # n
    PROVE  Held(m) # Held(n) /\ Target(n) # Held(m)
  BY ChangeFacts, Zenon DEF Held, Target

(* A request declares finitely many files.                                 *)
LEMMA DeclaredFinite ==
    ASSUME WorkerTypes
    PROVE  IsFiniteSet(Declared) /\ Cardinality(Declared) \in Nat
  <1> DEFINE All == {changes[n].path : n \in 1 .. Len(changes)}
             f == [n \in 1 .. Len(changes) |-> changes[n].path]
  <1>1. f \in Surjection(1 .. Len(changes), All)
    BY Zenon DEF Surjection
  <1>2. IsFiniteSet(1 .. Len(changes))
    BY ChangeFacts, FS_Interval
  <1>3. IsFiniteSet(All)
    BY <1>1, <1>2, FS_Surjection
  <1>4. Declared \subseteq All
    BY Zenon DEF Declared
  <1> QED
    BY <1>3, <1>4, FS_Subset, FS_CardinalityType, Zenon

(***************************************************************************)
(* What a step leaves alone.                                               *)
(***************************************************************************)
Touching == \E p \in Paths : TouchFile(p)
Moving == \E d \in DOMAIN at : MoveDirectory(d)

(* Each variable is written by the steps named here only.                  *)
LEMMA StepFrame ==
    ASSUME [Next]_vars
    PROVE  /\ changes' = changes /\ archive' = archive /\ original' = original
           /\ StageEntry \/ staged' = staged
           /\ BackUpTarget \/ backup' = backup
           /\ ValidateTarget \/ parents' = parents
           /\ InstallChange \/ RollBack \/ Touching \/ ws' = ws
           /\ InstallChange \/ Touching \/ recent' = recent
           /\ Touching \/ touched' = touched
           /\ Moving \/ (at' = at /\ late' = late)
  <1> USE DEF vars, worker, request, env
  <1>1. CASE Prepare
    BY <1>1, Zenon DEF Prepare, Step, Return
  <1>2. CASE StageEntry
    BY <1>2, Zenon DEF StageEntry, Step, Return
  <1>3. CASE BeginApply
    BY <1>3, Zenon DEF BeginApply, Step, Return
  <1>4. CASE BackUpTarget
    BY <1>4, Zenon DEF BackUpTarget, Step, Return
  <1>5. CASE ValidateTarget
    BY <1>5, Zenon DEF ValidateTarget, Step, Abandon
  <1>6. CASE InstallChange
    BY <1>6, Zenon DEF InstallChange, Step, Abandon
  <1>7. CASE VerifyParents
    BY <1>7, Zenon DEF VerifyParents, Step, Abandon
  <1>8. CASE Commit
    BY <1>8, Zenon DEF Commit, Step, Abandon
  <1>9. CASE RollBack
    BY <1>9, Zenon DEF RollBack, Step, Return
  <1>10. CASE Cancel
    BY <1>10, Zenon DEF Cancel
  <1>11. CASE Touching
    BY <1>11, Zenon DEF Touching, TouchFile
  <1>12. CASE Moving
    BY <1>12, Zenon DEF Moving, MoveDirectory
  <1>13. CASE UNCHANGED vars
    BY <1>13, Zenon
  <1> QED
    BY <1>1, <1>2, <1>3, <1>4, <1>5, <1>6, <1>7, <1>8, <1>9, <1>10, <1>11, <1>12, <1>13, Zenon
       DEF Next, Worker, Touching, Moving

(* What a step of the worker does with where it is, what it claims and how *)
(* it ended; nobody else changes that.                                     *)
LEMMA PositionFrame ==
    ASSUME [Next]_vars
    PROVE  Worker \/ UNCHANGED <<pc, i, proven, outcome, backup, parents, staged>>
  <1> USE DEF vars, worker, request, env
  <1>1. CASE Cancel
    BY <1>1, Zenon DEF Cancel
  <1>2. CASE Touching
    BY <1>2, Zenon DEF Touching, TouchFile
  <1>3. CASE Moving
    BY <1>3, Zenon DEF Moving, MoveDirectory
  <1> QED
    BY <1>1, <1>2, <1>3, Zenon DEF Next, Touching, Moving

(***************************************************************************)
(* The types and the position of the worker.                               *)
(***************************************************************************)
(* The worker keeps its types.                                             *)
LEMMA WorkerTypesStep ==
    ASSUME WorkerTypes, WorkspaceTypes, PositionOK, [Next]_vars
    PROVE  WorkerTypes'
  <1>1. changes' \in Requests /\ archive' \in Archives
    BY StepFrame, Zenon DEF WorkerTypes
  <1>2. pc' \in Labels
    <2> USE DEF Labels, Early, Mutating
    <2>1. CASE Prepare \/ StageEntry \/ BeginApply \/ BackUpTarget \/ RollBack
      BY <2>1, Zenon DEF Prepare, StageEntry, BeginApply, BackUpTarget, RollBack, Step, Return
    <2>2. CASE ValidateTarget \/ InstallChange \/ VerifyParents \/ Commit
      BY <2>2, Zenon DEF ValidateTarget, InstallChange, VerifyParents, Commit, Step, Abandon
    <2> QED
      BY <2>1, <2>2, PositionFrame, Zenon DEF Worker, WorkerTypes
  <1>3. i' \in Nat
    <2>1. CASE Prepare \/ StageEntry \/ BeginApply \/ BackUpTarget
      <3>1. i' = 1 \/ i' = i \/ i' = i + 1
        BY <2>1, Zenon DEF Prepare, StageEntry, BeginApply, BackUpTarget, Step, Return
      <3> QED
        BY <3>1 DEF WorkerTypes
    <2>2. CASE ValidateTarget \/ InstallChange \/ VerifyParents \/ Commit
      <3>1. i' = 1 \/ i' = i \/ i' = i + 1 \/ i' = Len(parents)
        BY <2>2, Zenon DEF ValidateTarget, InstallChange, VerifyParents, Commit, Step, Abandon
      <3> QED
        BY <3>1 DEF WorkerTypes
    <2>3. CASE RollBack
      <3>1. i' = i \/ (i > 0 /\ i' = i - 1)
        BY <2>3, Zenon DEF RollBack, Step, Return
      <3> QED
        BY <3>1 DEF WorkerTypes
    <2> QED
      BY <2>1, <2>2, <2>3, PositionFrame, Zenon DEF Worker, WorkerTypes
  <1>4. proven' \in BOOLEAN
    <2> USE DEF WorkerTypes
    <2>1. CASE Prepare \/ StageEntry \/ BeginApply \/ BackUpTarget \/ RollBack
      BY <2>1, Zenon DEF Prepare, StageEntry, BeginApply, BackUpTarget, RollBack, Return
    <2>2. CASE ValidateTarget \/ InstallChange \/ VerifyParents \/ Commit
      BY <2>2, Zenon DEF ValidateTarget, InstallChange, VerifyParents, Commit, Abandon
    <2> QED
      BY <2>1, <2>2, PositionFrame, Zenon DEF Worker
  <1>5. backup' \in Seq(Files)
    <2>1. CASE BackUpTarget
      <3>1. CASE i <= Len(changes) /\ Target(i)[2] # 0 /\ backup' = Append(backup, ws[Target(i)])
        <4>1. i \in 1 .. Len(changes)
          BY <3>1, <2>1, ChangeFacts DEF BackUpTarget, PositionOK, WorkerTypes
        <4>2. ws[Target(i)] \in Files
          BY <3>1, <4>1, PlaceFacts, Zenon DEF WorkspaceTypes
        <4> QED
          BY <3>1, <4>2 DEF WorkerTypes
      <3> QED
        BY <2>1, <3>1, Zenon DEF BackUpTarget, Return, WorkerTypes
    <2> QED
      BY <2>1, StepFrame, Zenon DEF WorkerTypes
  <1>6. parents' \in Seq({1, 2})
    <2>1. CASE ValidateTarget
      <3>1. CASE i <= Len(changes) /\ Target(i)[2] # 0 /\ parents' = Append(parents, Target(i)[2])
        <4>1. i \in 1 .. Len(changes)
          BY <3>1, <2>1, ChangeFacts, PlaceFacts DEF ValidateTarget, PositionOK, WorkerTypes
        <4>2. Target(i)[2] \in {1, 2}
          BY <3>1, <4>1, PlaceFacts, Zenon
        <4> QED
          BY <3>1, <4>2 DEF WorkerTypes
      <3> QED
        BY <2>1, <3>1, Zenon DEF ValidateTarget, TargetUnchanged, Abandon, WorkerTypes
    <2> QED
      BY <2>1, StepFrame, Zenon DEF WorkerTypes
  <1> QED
    BY <1>1, <1>2, <1>3, <1>4, <1>5, <1>6, Zenon DEF WorkerTypes

(* The change being made, and the one being undone, is one of the request. *)
LEMMA PlaceAtWork ==
    ASSUME WorkerTypes, WorkspaceTypes, PositionOK,
           pc = "install" \/ (pc = "rollback" /\ i > 0)
    PROVE  i \in 1 .. Len(changes) /\ i \in 1 .. Len(parents) /\ i \in 1 .. Len(backup)
           /\ Held(i) \in Cells
  <1>1. i \in 1 .. Len(changes) /\ i \in 1 .. Len(parents) /\ i \in 1 .. Len(backup)
    BY ChangeFacts, PlaceFacts DEF WorkerTypes, PositionOK, Mutating
  <1> QED
    BY <1>1, PlaceFacts

(* What rolling change n back leaves at its target.                        *)
Before(n) == IF backup[n] = Absent THEN Absent ELSE Restored(backup[n])

(* A service wrote file x: it is counted as touched, is no part of the     *)
(* update, and has an inode unless it was removed.                         *)
TouchedAt(x) ==
    /\ Touching /\ x \in touched' /\ x \in recent'
    /\ ws'[x].content # "new" /\ (Inode(ws[x]) => Inode(ws'[x]))

(* Every file is written by an install, an undo or a service, and each of  *)
(* these writes one file.                                                  *)
LEMMA WriteFrame ==
    ASSUME WorkerTypes, WorkspaceTypes, PositionOK, [Next]_vars
    PROVE  /\ ws' \in [Cells -> Files]
           /\ \A x \in Cells :
                 \/ ws'[x] = ws[x]
                 \/ InstallChange /\ x = Held(i) /\ ws'[x] = Installed(i)
                 \/ RollBack /\ i > 0 /\ x = Held(i) /\ ws'[x] = Before(i)
                 \/ TouchedAt(x)
  <1> DEFINE Goal == /\ ws' \in [Cells -> Files]
                     /\ \A x \in Cells :
                           \/ ws'[x] = ws[x]
                           \/ InstallChange /\ x = Held(i) /\ ws'[x] = Installed(i)
                           \/ RollBack /\ i > 0 /\ x = Held(i) /\ ws'[x] = Before(i)
                           \/ TouchedAt(x)
  <1>0. ws \in [Cells -> Files]
    BY Zenon DEF WorkspaceTypes
  <1>1. CASE ws' = ws
    BY <1>0, <1>1, Zenon
  <1>2. CASE InstallChange /\ ws' # ws
    <2>1. ws' = [ws EXCEPT ![Held(i)] = Installed(i)]
      BY <1>2, Zenon DEF InstallChange
    <2>2. Held(i) \in Cells
      BY <1>2, PlaceAtWork, Zenon DEF InstallChange
    <2>3. Installed(i) \in Files
      BY FileFacts, Zenon DEF Installed
    <2> QED
      BY <1>0, <1>2, <2>1, <2>2, <2>3, Zenon
  <1>3. CASE RollBack /\ ws' # ws
    <2>1. i > 0 /\ ws' = [ws EXCEPT ![Held(i)] = Before(i)]
      BY <1>3, Zenon DEF RollBack, Undone, Before
    <2>2. Held(i) \in Cells /\ backup[i] \in Files
      BY <1>3, <2>1, PlaceAtWork DEF RollBack, WorkerTypes
    <2>3. Before(i) \in Files
      BY <2>2, FileFacts, Zenon DEF Before
    <2> QED
      BY <1>0, <1>3, <2>1, <2>2, <2>3, Zenon
  <1>4. CASE Touching
    <2>1. PICK p \in Paths : TouchFile(p)
      BY <1>4, Zenon DEF Touching
    <2>2. PICK x \in {<<p, 1>>, <<p, at[Dir[p]]>>} :
             /\ x[2] # 0
             /\ \E file \in {Foreign, Absent, OldOther, [ws[x] EXCEPT !.content = "foreign"]} :
                   (ws[x] = Absent => file = Foreign) /\ ws' = [ws EXCEPT ![x] = file]
             /\ touched' = touched \cup {x} /\ recent' = recent \cup {x}
      BY <2>1, Zenon DEF TouchFile
    <2>3. at[Dir[p]] \in {0, 1, 2}
      BY Zenon DEF WorkspaceTypes
    <2>4. x \in Cells
      BY <2>2, <2>3 DEF Cells
    <2>5. PICK file \in {Foreign, Absent, OldOther, [ws[x] EXCEPT !.content = "foreign"]} :
             (ws[x] = Absent => file = Foreign) /\ ws' = [ws EXCEPT ![x] = file]
      BY <2>2, Zenon
    <2>6. file \in Files /\ file.content # "new" /\ (Inode(ws[x]) => Inode(file))
      BY <1>0, <2>4, <2>5, FileFacts DEF Inode
    <2> QED
      BY <1>0, <1>4, <2>2, <2>4, <2>5, <2>6, Zenon DEF TouchedAt
  <1> QED
    BY <1>1, <1>2, <1>3, <1>4, StepFrame, Zenon

(* The workspace keeps its types.                                          *)
LEMMA WorkspaceTypesStep ==
    ASSUME WorkerTypes, WorkspaceTypes, PositionOK, [Next]_vars
    PROVE  WorkspaceTypes'
  <1>1. at' \in [{Dir[p] : p \in Paths} -> {0, 1, 2}]
    <2>1. CASE Moving
      BY <2>1, Zenon DEF Moving, MoveDirectory, WorkspaceTypes
    <2> QED
      BY <2>1, StepFrame, Zenon DEF WorkspaceTypes
  <1> QED
    BY <1>1, WriteFrame, StepFrame, Zenon DEF WorkspaceTypes

(* The position tells what it should after every step.                     *)
LEMMA PositionStep ==
    ASSUME WorkerTypes, WorkspaceTypes, PositionOK, [Next]_vars
    PROVE  PositionOK'
  <1> USE DEF PositionOK, Early, Mutating
  <1>0. /\ Len(backup) \in Nat /\ i \in Nat /\ Len(changes) \in Nat /\ Len(parents) \in Nat
        /\ Len(<<>>) = 0 /\ changes' = changes
    BY StepFrame, ChangeFacts, PlaceFacts DEF WorkerTypes
  <1>1. CASE Prepare
    BY <1>0, <1>1, Zenon DEF Prepare, Step, Return
  <1>2. CASE StageEntry
    <2>1. /\ pc = "entry" /\ backup' = backup /\ parents' = parents
          /\ \/ pc' \in {"entry", "apply"} /\ outcome' = outcome
             \/ pc' = "done" /\ outcome' = "refused"
      BY <1>2, Zenon DEF StageEntry, Step, Return
    <2> QED
      BY <1>0, <2>1, Zenon
  <1>3. CASE BeginApply
    <2>1. /\ pc = "apply" /\ backup' = backup /\ parents' = parents
          /\ \/ pc' = "backup" /\ i' = 1 /\ outcome' = outcome
             \/ pc' = "done" /\ outcome' = "failed"
      BY <1>3, Zenon DEF BeginApply, Step, Return
    <2> QED
      BY <1>0, <2>1
  <1>4. CASE BackUpTarget
    <2>1. pc = "backup" /\ parents' = parents
      BY <1>4, StepFrame, Zenon DEF BackUpTarget, Return
    <2>2. \/ /\ i <= Len(changes) /\ backup' = Append(backup, ws[Target(i)])
             /\ pc' = "backup" /\ i' = i + 1 /\ outcome' = outcome
          \/ i > Len(changes) /\ pc' = "validate" /\ i' = 1 /\ UNCHANGED <<outcome, backup>>
          \/ pc' = "done" /\ outcome' = "failed"
      BY <1>4, Zenon DEF BackUpTarget, Step, Return
    <2>3. backup' = Append(backup, ws[Target(i)]) => Len(backup') = Len(backup) + 1
      BY DEF WorkerTypes
    <2> QED
      BY <1>0, <2>1, <2>2, <2>3
  <1>5. CASE ValidateTarget
    <2>1. pc = "validate" /\ backup' = backup /\ outcome' = outcome
      BY <1>5, Zenon DEF ValidateTarget, Abandon
    <2>2. \/ /\ i <= Len(changes) /\ parents' = Append(parents, Target(i)[2])
             /\ pc' = "install" /\ i' = i
          \/ i > Len(changes) /\ pc' = "verify" /\ i' = 1 /\ parents' = parents
          \/ pc' = "rollback" /\ i' = Len(parents) /\ parents' = parents
      BY <1>5, Zenon DEF ValidateTarget, Step, Abandon
    <2>3. parents' = Append(parents, Target(i)[2]) => Len(parents') = Len(parents) + 1
      BY DEF WorkerTypes
    <2> QED
      BY <1>0, <2>1, <2>2, <2>3
  <1>6. CASE InstallChange
    BY <1>0, <1>6 DEF InstallChange, Step, Abandon
  <1>7. CASE VerifyParents
    BY <1>0, <1>7 DEF VerifyParents, Step, Abandon
  <1>8. CASE Commit
    BY <1>0, <1>8, Zenon DEF Commit, Step, Abandon
  <1>9. CASE RollBack
    <2>1. pc = "rollback" /\ UNCHANGED <<backup, parents>>
      BY <1>9, Zenon DEF RollBack, Return
    <2>2. \/ i > 0 /\ pc' = "rollback" /\ i' = i - 1 /\ outcome' = outcome
          \/ pc' = "done" /\ outcome' = "failed"
      BY <1>9, Zenon DEF RollBack, Step, Return
    <2> QED
      BY <1>0, <2>1, <2>2
  <1> QED
    BY <1>0, <1>1, <1>2, <1>3, <1>4, <1>5, <1>6, <1>7, <1>8, <1>9, PositionFrame DEF Worker

(* Before a parent is held every error leaves the workspace proven.        *)
LEMMA ProvenStep ==
    ASSUME WorkerTypes, WorkspaceTypes, PositionOK, ProvenOK, [Next]_vars
    PROVE  ProvenOK'
  <1>1. parents # <<>> => parents' # <<>>
    <2>1. CASE ValidateTarget
      BY <2>1 DEF ValidateTarget, Abandon, WorkerTypes
    <2> QED
      BY <2>1, StepFrame, Zenon
  <1>2. CASE Prepare \/ StageEntry \/ BeginApply \/ BackUpTarget
    BY <1>1, <1>2, Zenon DEF Prepare, StageEntry, BeginApply, BackUpTarget, Return, ProvenOK
  <1>3. CASE ValidateTarget \/ InstallChange \/ VerifyParents
    BY <1>1, <1>3, Zenon DEF ValidateTarget, InstallChange, VerifyParents, Abandon, ProvenOK
  <1>4. CASE Commit
    <2>1. parents # <<>>
      BY <1>4, ChangeFacts DEF Commit, PositionOK
    <2> QED
      BY <1>1, <2>1, Zenon DEF ProvenOK
  <1>5. CASE RollBack
    <2>1. i > 0 => parents # <<>>
      BY <1>5, PlaceAtWork DEF RollBack
    <2>2. i > 0 \/ proven' = proven
      BY <1>5, Zenon DEF RollBack, Return
    <2> QED
      BY <1>1, <2>1, <2>2, Zenon DEF ProvenOK
  <1> QED
    BY <1>1, <1>2, <1>3, <1>4, <1>5, PositionFrame, Zenon DEF Worker, ProvenOK

(***************************************************************************)
(* The files: inodes, and whose bytes they hold.                           *)
(***************************************************************************)
(* Only an absent file has no inode.                                       *)
LEMMA InodeStep ==
    ASSUME WorkerTypes, WorkspaceTypes, PositionOK, InodeOK, [Next]_vars
    PROVE  InodeOK'
  <1>1. ASSUME NEW x \in Cells PROVE Inode(ws'[x])
    <2>1. Inode(ws[x])
      BY Zenon DEF InodeOK
    <2>2. Inode(Installed(i))
      BY FileFacts, Zenon DEF Installed, Inode
    <2>3. ASSUME RollBack, i > 0 PROVE Inode(Before(i))
      <3>1. backup[i] \in Files
        BY <2>3, PlaceAtWork DEF RollBack, WorkerTypes
      <3> QED
        BY <3>1, FileFacts, Zenon DEF Before, Inode
    <2> QED
      BY <2>1, <2>2, <2>3, WriteFrame, Zenon DEF TouchedAt
  <1>2. \A n \in 1 .. Len(backup') : Inode(backup'[n])
    <2>1. CASE backup' = backup
      BY <2>1, Zenon DEF InodeOK
    <2>2. CASE BackUpTarget /\ backup' # backup
      <3>1. i <= Len(changes) /\ Target(i)[2] # 0 /\ backup' = Append(backup, ws[Target(i)])
        BY <2>2, Zenon DEF BackUpTarget, Return
      <3>2. i \in 1 .. Len(changes)
        BY <2>2, <3>1, ChangeFacts DEF BackUpTarget, PositionOK, WorkerTypes
      <3>3. Inode(ws[Target(i)])
        BY <3>1, <3>2, PlaceFacts, Zenon DEF InodeOK
      <3> QED
        BY <3>1, <3>3 DEF InodeOK, WorkerTypes
    <2> QED
      BY <2>1, <2>2, StepFrame, Zenon
  <1>3. \A p \in Paths : original'[<<p, 2>>] = Absent
    BY StepFrame, Zenon DEF InodeOK
  <1> QED
    BY <1>1, <1>2, <1>3, Zenon DEF InodeOK

(* Where the worker goes from its early steps; it never goes back to them. *)
LEMMA EarlyStep ==
    ASSUME WorkerTypes, [Next]_vars
    PROVE  pc' \in Early => pc \in Early /\ ~InstallChange /\ ~RollBack
  <1> USE DEF Early
  <1>1. CASE Prepare \/ StageEntry \/ BeginApply \/ BackUpTarget
    BY <1>1, Zenon DEF Prepare, StageEntry, BeginApply, BackUpTarget, InstallChange, RollBack
  <1>2. CASE ValidateTarget \/ InstallChange \/ VerifyParents \/ Commit
    BY <1>2, Zenon DEF ValidateTarget, InstallChange, VerifyParents, Commit, Step, Abandon
  <1>3. CASE RollBack
    BY <1>3, Zenon DEF RollBack, Step, Return
  <1> QED
    BY <1>1, <1>2, <1>3, PositionFrame, Zenon DEF Worker, InstallChange, RollBack

(* Bytes of the update are nowhere before the first change.                *)
LEMMA NewStep ==
    ASSUME WorkerTypes, WorkspaceTypes, PositionOK, NewOK, [Next]_vars
    PROVE  NewOK'
  <1>1. ASSUME pc' \in Early, NEW x \in Cells PROVE ws'[x].content # "new"
    BY <1>1, EarlyStep, WriteFrame, Zenon DEF NewOK, TouchedAt
  <1>2. \A n \in 1 .. Len(backup') : backup'[n].content # "new"
    <2>1. CASE backup' = backup
      BY <2>1, Zenon DEF NewOK
    <2>2. CASE BackUpTarget /\ backup' # backup
      <3>1. i <= Len(changes) /\ Target(i)[2] # 0 /\ backup' = Append(backup, ws[Target(i)])
        BY <2>2, Zenon DEF BackUpTarget, Return
      <3>2. i \in 1 .. Len(changes) /\ pc \in Early
        BY <2>2, <3>1, ChangeFacts DEF BackUpTarget, PositionOK, WorkerTypes, Early
      <3>3. ws[Target(i)].content # "new"
        BY <3>1, <3>2, PlaceFacts, Zenon DEF NewOK
      <3> QED
        BY <3>1, <3>3 DEF NewOK, WorkerTypes
    <2> QED
      BY <2>1, <2>2, StepFrame, Zenon
  <1> QED
    BY <1>1, <1>2, Zenon DEF NewOK

(* Only bytes of a staged, verified entry are in the workspace.            *)
LEMMA BytesStep ==
    ASSUME WorkerTypes, WorkspaceTypes, PositionOK, StagedOK, NewOK, OnlyVerifiedBytes,
           [Next]_vars
    PROVE  OnlyVerifiedBytes'
  <1>1. staged \subseteq staged'
    <2>1. CASE StageEntry
      BY <2>1, Zenon DEF StageEntry, Return
    <2> QED
      BY <2>1, StepFrame, Zenon
  <1>2. DOMAIN ws = Cells /\ DOMAIN ws' = Cells /\ Declared' = Declared
    BY WriteFrame, StepFrame, Zenon DEF WorkspaceTypes, Declared
  <1>3. ASSUME NEW x \in Cells, ws'[x].content = "new"
        PROVE  x[1] \in Declared /\ \A p \in Declared : Verified(p) \in staged
    <2>1. CASE ws'[x] = ws[x]
      BY <1>2, <1>3, <2>1, Zenon DEF OnlyVerifiedBytes, Verified
    <2>2. CASE InstallChange /\ x = Held(i) /\ ws'[x] = Installed(i)
      <3>1. i \in 1 .. Len(changes) /\ outcome # "refused" /\ pc = "install"
        BY <2>2, PlaceAtWork, Zenon DEF InstallChange, PositionOK
      <3>2. changes[i].kind = "file"
        BY <1>3, <2>2 DEF Installed, Absent
      <3>3. x[1] = changes[i].path
        BY <2>2, Zenon DEF Held
      <3>4. x[1] \in Declared
        BY <3>1, <3>2, <3>3, Zenon DEF Declared
      <3> QED
        BY <3>1, <3>4, Zenon DEF StagedOK, StagedPaths
    <2>3. CASE RollBack /\ i > 0 /\ x = Held(i) /\ ws'[x] = Before(i)
      <3>1. backup[i] \in Files /\ backup[i].content # "new"
        BY <2>3, PlaceAtWork DEF RollBack, WorkerTypes, NewOK
      <3>2. Before(i).content # "new"
        BY <3>1, FileFacts, Zenon DEF Before
      <3> QED
        BY <1>3, <2>3, <3>2, Zenon
    <2> QED
      BY <1>3, <2>1, <2>2, <2>3, WriteFrame, Zenon DEF TouchedAt
  <1> QED
    BY <1>1, <1>2, <1>3, Zenon DEF OnlyVerifiedBytes, Verified

(* The entries accepted are as many declared paths as were read, so that   *)
(* an archive read to its end has staged every declared file.              *)
LEMMA StagedStep ==
    ASSUME WorkerTypes, PositionOK, StagedOK, [Next]_vars
    PROVE  StagedOK'
  <1>0. /\ Declared' = Declared /\ archive' = archive /\ i \in Nat
        /\ IsFiniteSet(Declared) /\ Cardinality(Declared) \in Nat
    BY StepFrame, DeclaredFinite, Zenon DEF Declared, WorkerTypes
  <1>1. CASE Prepare
    <2>1. CASE pc' = "entry"
      <3>1. StagedPaths' = {}
        BY <1>1, <2>1, Zenon DEF Prepare, Step, Return, StagedOK, StagedPaths
      <3>2. Len(archive) = Cardinality(Declared) /\ i' = 1
        BY <1>1, <2>1, Zenon DEF Prepare, Step, Return
      <3> QED
        BY <1>0, <2>1, <3>1, <3>2, FS_EmptySet DEF StagedOK
    <2> QED
      BY <1>1, <2>1, Zenon DEF Prepare, Step, Return, StagedOK
  <1>2. CASE StageEntry
    <2>0. /\ pc = "entry" /\ Len(archive) = Cardinality(Declared)
          /\ i > 0 /\ i <= Len(archive) + 1
          /\ StagedPaths \subseteq {archive[m].name : m \in 1 .. i - 1}
          /\ Cardinality(StagedPaths) = i - 1
      BY <1>2, Zenon DEF StageEntry, StagedOK
    <2>1. CASE i <= Len(archive) /\ EntryAccepted(i) /\ pc' = "entry"
      <3> DEFINE name == archive[i].name
      <3>1. /\ staged' = staged \cup {[path |-> name, verified |-> archive[i].hashed]}
            /\ i' = i + 1
        BY <1>2, <2>1, Zenon DEF StageEntry, Step, Return
      <3>2. /\ name \in Declared /\ name \notin {archive[m].name : m \in 1 .. i - 1}
            /\ archive[i].hashed
        BY <2>1, Zenon DEF EntryAccepted
      <3>3. archive[i].hashed = TRUE
        <4>1. i \in 1 .. Len(archive)
          BY <1>0, <2>0, <2>1
        <4>2. archive[i].hashed \in BOOLEAN
          BY <4>1, UpdateAssumption, Zenon DEF WorkerTypes
        <4> QED
          BY <3>2, <4>2, Zenon
      <3>4. StagedPaths' = StagedPaths \cup {name}
        BY <1>0, <3>1, <3>2, <3>3, Zenon DEF StagedPaths, Verified
      <3>5. IsFiniteSet(StagedPaths) /\ name \notin StagedPaths
        BY <1>0, <2>0, <3>2, FS_Subset, Zenon DEF StagedPaths
      <3>6. Cardinality(StagedPaths') = i
        <4>1. Cardinality(StagedPaths \cup {name}) = Cardinality(StagedPaths) + 1
          BY <3>5, FS_AddElement, Zenon
        <4> QED
          BY <1>0, <2>0, <3>4, <4>1
      <3>7. StagedPaths' \subseteq {archive[m].name : m \in 1 .. i}
        BY <1>0, <2>0, <3>4
      <3> QED
        BY <1>0, <2>0, <2>1, <3>1, <3>6, <3>7 DEF StagedOK
    <2>2. CASE i > Len(archive) /\ pc' = "apply"
      <3>1. staged' = staged
        BY <1>2, <2>2, Zenon DEF StageEntry, Step, Return
      <3>2. StagedPaths' = StagedPaths
        BY <1>0, <3>1, Zenon DEF StagedPaths
      <3>3. Cardinality(StagedPaths) = Cardinality(Declared)
        BY <1>0, <2>0, <2>2
      <3>4. StagedPaths = Declared
        BY <1>0, <3>3, FS_Subset, Zenon DEF StagedPaths
      <3> QED
        BY <1>0, <2>2, <3>2, <3>4, Zenon DEF StagedOK
    <2>3. CASE pc' = "done" /\ outcome' = "refused"
      BY <2>3, Zenon DEF StagedOK
    <2> QED
      BY <1>2, <2>1, <2>2, <2>3, Zenon DEF StageEntry, Step, Return
  <1>3. CASE ~Prepare /\ ~StageEntry
    <2>1. StagedPaths' = StagedPaths
      BY <1>0, <1>3, StepFrame, Zenon DEF StagedPaths
    <2>2. CASE Worker
      <3>1. pc \notin {"prepare", "entry"} /\ outcome # "refused"
        BY <1>3, <2>2, Zenon DEF Worker, BeginApply, BackUpTarget, ValidateTarget, InstallChange,
           VerifyParents, Commit, RollBack, PositionOK
      <3>2. pc' \notin {"prepare", "entry"}
        <4>1. CASE BeginApply \/ BackUpTarget \/ RollBack
          BY <4>1, Zenon DEF BeginApply, BackUpTarget, RollBack, Step, Return
        <4>2. CASE ValidateTarget \/ InstallChange \/ VerifyParents \/ Commit
          BY <4>2, Zenon DEF ValidateTarget, InstallChange, VerifyParents, Commit, Step, Abandon
        <4> QED
          BY <1>3, <2>2, <4>1, <4>2, Zenon DEF Worker
      <3> QED
        BY <1>0, <2>1, <3>1, <3>2, Zenon DEF StagedOK
    <2> QED
      BY <1>0, <2>1, <2>2, PositionFrame, Zenon DEF StagedOK
  <1> QED
    BY <1>1, <1>2, <1>3, Zenon

(***************************************************************************)
(* The backups.                                                            *)
(***************************************************************************)
(* A file nobody touched is backed up as it was.                           *)
LEMMA BackupStep ==
    ASSUME WorkerTypes, WorkspaceTypes, PositionOK, KeptOK, BackupOK, [Next]_vars
    PROVE  BackupOK'
  <1>0. /\ changes' = changes /\ original' = original /\ touched \subseteq touched'
        /\ Len(backup) \in Nat
    <2>1. ASSUME Touching PROVE touched \subseteq touched'
      BY <2>1, Zenon DEF Touching, TouchFile
    <2> QED
      BY <2>1, StepFrame DEF WorkerTypes
  <1>1. ASSUME NEW d, at'[d] = 1 PROVE at[d] = 1
    <2>1. CASE Moving
      <3>1. PICK e \in DOMAIN at, now \in {0, 2} : at' = [at EXCEPT ![e] = now]
        BY <2>1, Zenon DEF Moving, MoveDirectory
      <3> QED
        BY <1>1, <3>1 DEF WorkspaceTypes
    <2> QED
      BY <1>1, <2>1, StepFrame, Zenon
  <1>2. CASE backup' = backup
    BY <1>0, <1>1, <1>2, Zenon DEF BackupOK
  <1>3. CASE BackUpTarget /\ backup' # backup
    <2>1. i <= Len(changes) /\ Target(i)[2] # 0 /\ backup' = Append(backup, ws[Target(i)])
      BY <1>3, Zenon DEF BackUpTarget, Return
    <2>2. i \in 1 .. Len(changes) /\ pc = "backup" /\ i = Len(backup) + 1 /\ parents = <<>>
      BY <1>3, <2>1, ChangeFacts DEF BackUpTarget, PositionOK, WorkerTypes, Early
    <2>3. ASSUME at[Dir[changes[i].path]] = 1, <<changes[i].path, 1>> \notin touched
          PROVE  ws[Target(i)] = original[<<changes[i].path, 1>>]
      <3>1. Target(i) = <<changes[i].path, 1>> /\ Target(i) \in Cells
        BY <2>1, <2>2, <2>3, PlaceFacts, Zenon DEF Target
      <3> QED
        BY <2>2, <2>3, <3>1 DEF KeptOK, Early
    <2>4. /\ \A n \in 1 .. Len(backup) : backup'[n] = backup[n]
          /\ backup'[i] = ws[Target(i)] /\ Len(backup') = i
      BY <2>1, <2>2 DEF WorkerTypes
    <2>5. \A n \in 1 .. i : n \in 1 .. Len(backup) \/ n = i
      BY <1>0, <2>2
    <2> QED
      BY <1>0, <1>1, <2>3, <2>4, <2>5, Zenon DEF BackupOK
  <1> QED
    BY <1>2, <1>3, StepFrame, Zenon

(* The backup of a change whose parent is held is what was there before    *)
(* the update: the directory is the one backed up, or a new one in which   *)
(* neither a file nor a backup can be.                                     *)
LEMMA HeldStep ==
    ASSUME WorkerTypes, WorkspaceTypes, PositionOK, InodeOK, KeptOK, BackupOK, HeldOK,
           [Next]_vars
    PROVE  HeldOK'
  <1>0. /\ changes' = changes /\ original' = original /\ touched \subseteq touched'
        /\ Len(parents) \in Nat
    <2>1. ASSUME Touching PROVE touched \subseteq touched'
      BY <2>1, Zenon DEF Touching, TouchFile
    <2> QED
      BY <2>1, StepFrame DEF WorkerTypes
  <1>1. CASE parents' = parents
    <2>1. \A n \in 1 .. Len(parents) : backup'[n] = backup[n]
      <3>1. CASE BackUpTarget
        <4>1. parents = <<>>
          BY <3>1, Zenon DEF BackUpTarget, PositionOK, Early
        <4> QED
          BY <4>1
      <3> QED
        BY <3>1, StepFrame, Zenon
    <2> QED
      BY <1>0, <1>1, <2>1, Zenon DEF HeldOK, Held, Same
  <1>2. CASE ValidateTarget /\ parents' # parents
    <2>1. /\ i <= Len(changes) /\ Target(i)[2] # 0 /\ parents' = Append(parents, Target(i)[2])
          /\ ws[Target(i)].id = backup[i].id /\ UNCHANGED <<i, touched, backup>>
      BY <1>2, Zenon DEF ValidateTarget, TargetUnchanged, Step, Abandon, env
    <2>2. /\ i \in 1 .. Len(changes) /\ pc = "validate" /\ i = Len(parents) + 1
          /\ i \in 1 .. Len(backup)
      BY <1>2, <2>1, ChangeFacts, <1>0 DEF ValidateTarget, PositionOK, WorkerTypes, Mutating
    <2>3. Target(i) \in Cells /\ Target(i)[2] \in {1, 2}
      BY <2>1, <2>2, PlaceFacts, Zenon
    <2>4. ASSUME Target(i) \notin touched PROVE Same(backup[i], original[Target(i)])
      <3>1. ASSUME NEW n \in 1 .. Len(parents) PROVE Target(i) # Held(n)
        <4>1. n \in 1 .. Len(changes) /\ n # i
          BY <1>0, <2>2
        <4> QED
          BY <2>2, <4>1, HeldApart, Zenon
      <3>2. ws[Target(i)] = original[Target(i)]
        BY <2>2, <2>3, <2>4, <3>1, Zenon DEF KeptOK, Mutating
      <3>3. Target(i) = <<changes[i].path, at[Dir[changes[i].path]]>>
            /\ Target(i)[2] = at[Dir[changes[i].path]]
        BY Zenon DEF Target
      <3>4. CASE Target(i)[2] = 1
        <4>1. at[Dir[changes[i].path]] = 1 /\ Target(i) = <<changes[i].path, 1>>
          BY <3>3, <3>4, Zenon
        <4>2. backup[i] = original[Target(i)]
          BY <2>2, <2>4, <4>1, Zenon DEF BackupOK
        <4> QED
          BY <4>2, Zenon DEF Same
      <3>5. CASE Target(i)[2] = 2
        <4>1. Target(i) = <<changes[i].path, 2>>
          BY <3>3, <3>5, Zenon
        <4>2. original[Target(i)] = Absent
          BY <2>2, <4>1, ChangeFacts, Zenon DEF InodeOK
        <4>3. backup[i].id = "none"
          BY <2>1, <3>2, <4>2 DEF Absent
        <4>4. backup[i] = Absent
          BY <2>2, <4>3, Zenon DEF InodeOK, Inode
        <4> QED
          BY <4>2, <4>4, Zenon DEF Same
      <3> QED
        BY <2>3, <3>4, <3>5, Zenon
    <2>5. /\ \A n \in 1 .. Len(parents) : parents'[n] = parents[n]
          /\ parents'[i] = Target(i)[2] /\ Len(parents') = i
      BY <2>1, <2>2 DEF WorkerTypes
    <2>6. \A n \in 1 .. i : n \in 1 .. Len(parents) \/ n = i
      BY <1>0, <2>2
    <2>7. Held(i)' = Target(i)
      BY <1>0, <2>1, <2>5, Zenon DEF Held, Target
    <2>8. \A n \in 1 .. Len(parents) : Held(n)' = Held(n)
      BY <1>0, <2>5, Zenon DEF Held
    <2>9. ASSUME NEW n \in 1 .. Len(parents'), Held(n)' \notin touched'
          PROVE  Same(backup[n], original[Held(n)'])
      <3>1. CASE n = i
        BY <2>1, <2>4, <2>7, <2>9, <3>1, Zenon DEF Held
      <3>2. CASE n \in 1 .. Len(parents)
        BY <2>1, <2>8, <2>9, <3>2, Zenon DEF HeldOK
      <3> QED
        BY <2>5, <2>6, <3>1, <3>2, Zenon
    <2> QED
      BY <1>0, <2>1, <2>9, Zenon DEF HeldOK, Same
  <1> QED
    BY <1>1, <1>2, StepFrame, Zenon

(***************************************************************************)
(* What the workspace is while changes are made and undone.                *)
(***************************************************************************)
(* Where the worker can come from.                                         *)
LEMMA RollbackEntry ==
    ASSUME WorkerTypes, PositionOK, [Next]_vars, pc' = "rollback"
    PROVE  \/ pc \in Mutating /\ i' = Len(parents) /\ UNCHANGED <<parents, touched, at>>
           \/ RollBack /\ i > 0 /\ ws' = Undone(i) /\ i' = i - 1
              /\ UNCHANGED <<parents, touched>>
           \/ pc = "rollback" /\ UNCHANGED <<i, parents>> /\ ~Worker
  <1> USE DEF Mutating
  <1>1. CASE Prepare \/ StageEntry \/ BeginApply \/ BackUpTarget
    BY <1>1, Zenon DEF Prepare, StageEntry, BeginApply, BackUpTarget, Step, Return
  <1>2. CASE ValidateTarget \/ InstallChange
    BY <1>2, Zenon DEF ValidateTarget, InstallChange, Step, Abandon, env
  <1>3. CASE VerifyParents \/ Commit
    BY <1>3, Zenon DEF VerifyParents, Commit, Step, Abandon, env
  <1>4. CASE RollBack
    BY <1>4, Zenon DEF RollBack, Step, Return, env
  <1> QED
    BY <1>1, <1>2, <1>3, <1>4, PositionFrame, Zenon DEF Worker

(* Changes are made only on the way forward.                               *)
LEMMA ForwardStep ==
    ASSUME [Next]_vars, pc' \in Mutating
    PROVE  pc \in {"backup"} \cup Mutating
  <1> USE DEF Mutating
  <1>1. CASE Prepare \/ StageEntry \/ BeginApply \/ BackUpTarget
    BY <1>1, Zenon DEF Prepare, StageEntry, BeginApply, BackUpTarget, Step, Return
  <1>2. CASE ValidateTarget \/ InstallChange \/ VerifyParents \/ Commit
    BY <1>2, Zenon DEF ValidateTarget, InstallChange, VerifyParents, Commit
  <1>3. CASE RollBack
    BY <1>3, Zenon DEF RollBack, Step, Return
  <1> QED
    BY <1>1, <1>2, <1>3, PositionFrame, Zenon DEF Worker

(* A held parent stays held.                                               *)
LEMMA HeldGrows ==
    ASSUME WorkerTypes, [Next]_vars
    PROVE  \A n \in 1 .. Len(parents) : n \in 1 .. Len(parents') /\ Held(n)' = Held(n)
  <1>1. CASE parents' = parents
    BY <1>1, StepFrame, Zenon DEF Held
  <1>2. CASE ValidateTarget /\ parents' # parents
    <2>1. parents' = Append(parents, Target(i)[2])
      BY <1>2, Zenon DEF ValidateTarget, Abandon
    <2>2. /\ Len(parents) \in Nat /\ Len(parents') = Len(parents) + 1
          /\ \A n \in 1 .. Len(parents) : parents'[n] = parents[n]
      BY <2>1 DEF WorkerTypes
    <2> QED
      BY <2>2, StepFrame DEF Held
  <1> QED
    BY <1>1, <1>2, StepFrame, Zenon

(* Nobody else's file is different from what it was but for changes held:  *)
(* every install is of a held change, and every undo takes one back.       *)
LEMMA KeptStep ==
    ASSUME WorkerTypes, WorkspaceTypes, PositionOK, KeptOK, HeldOK, [Next]_vars
    PROVE  KeptOK'
  <1>0. /\ changes' = changes /\ original' = original /\ touched \subseteq touched'
        /\ Len(parents) \in Nat
    <2>1. ASSUME Touching PROVE touched \subseteq touched'
      BY <2>1, Zenon DEF Touching, TouchFile
    <2> QED
      BY <2>1, StepFrame DEF WorkerTypes
  <1>1. ASSUME pc' \in Early \cup Mutating, NEW x \in Cells \ touched'
        PROVE  ws'[x] = original[x] \/ \E n \in 1 .. Len(parents') : x = Held(n)'
    <2>1. pc \in Early \cup Mutating /\ ~RollBack
      BY <1>1, EarlyStep, PositionFrame, ForwardStep, Zenon DEF RollBack, Early, Mutating
    <2>2. \A n \in 1 .. Len(parents) : n \in 1 .. Len(parents') /\ Held(n)' = Held(n)
      BY <1>0, HeldGrows, Zenon
    <2>3. CASE \E n \in 1 .. Len(parents) : x = Held(n)
      BY <2>2, <2>3, Zenon
    <2>4. CASE ws[x] = original[x] /\ ~\E n \in 1 .. Len(parents) : x = Held(n)
      <3>1. InstallChange => i \in 1 .. Len(parents)
        BY PlaceAtWork, Zenon DEF InstallChange
      <3>2. ws'[x] = ws[x]
        BY <1>1, <2>1, <2>4, <3>1, WriteFrame, Zenon DEF TouchedAt
      <3> QED
        BY <2>4, <3>2, Zenon
    <2> QED
      BY <1>0, <1>1, <2>1, <2>3, <2>4, Zenon DEF KeptOK
  <1>2. ASSUME pc' = "rollback", NEW x \in Cells \ touched'
        PROVE  Same(ws'[x], original[x]) \/ \E n \in 1 .. i' : x = Held(n)'
    <2>1. CASE pc \in Mutating /\ i' = Len(parents) /\ UNCHANGED <<parents, touched, at>>
      <3>1. \A n \in 1 .. Len(parents) : Held(n)' = Held(n)
        BY <1>0, <2>1, Zenon DEF Held
      <3>2. CASE \E n \in 1 .. Len(parents) : x = Held(n)
        BY <2>1, <3>1, <3>2, Zenon
      <3>3. CASE ws[x] = original[x] /\ ~\E n \in 1 .. Len(parents) : x = Held(n)
        <4>1. InstallChange => i \in 1 .. Len(parents)
          BY PlaceAtWork, Zenon DEF InstallChange
        <4>2. ws'[x] = ws[x]
          BY <1>2, <2>1, <3>3, <4>1, WriteFrame, Zenon DEF TouchedAt, RollBack, Mutating
        <4> QED
          BY <3>3, <4>2, Zenon DEF Same
      <3> QED
        BY <1>2, <2>1, <3>2, <3>3, Zenon DEF KeptOK
    <2>2. CASE RollBack /\ i > 0 /\ ws' = Undone(i) /\ i' = i - 1 /\ UNCHANGED <<parents, touched>>
      <3>0. i \in Nat /\ i \in 1 .. Len(parents) /\ backup[i] \in Files /\ pc = "rollback"
        BY <2>2, PlaceAtWork DEF RollBack, WorkerTypes
      <3>1. \A n \in 1 .. Len(parents) : Held(n)' = Held(n)
        BY <1>0, <2>2, Zenon DEF Held
      <3>2. CASE x = Held(i)
        <4>1. ws'[x] = Before(i)
          BY <2>2, <3>2, Zenon DEF Undone, Before, WorkspaceTypes
        <4>2. Same(backup[i], original[x])
          BY <1>2, <2>2, <3>0, <3>2, Zenon DEF HeldOK
        <4>3. Same(Before(i), backup[i])
          BY <3>0, FileFacts, Zenon DEF Before, Same
        <4> QED
          BY <4>1, <4>2, <4>3, Zenon DEF Same
      <3>3. CASE x # Held(i)
        <4>1. ws'[x] = ws[x]
          BY <2>2, <3>3, Zenon DEF Undone, WorkspaceTypes
        <4>2. Same(ws[x], original[x]) \/ \E n \in 1 .. i : x = Held(n)
          BY <1>2, <2>2, <3>0, Zenon DEF KeptOK
        <4>3. CASE \E n \in 1 .. i : x = Held(n)
          <5>1. PICK n \in 1 .. i : x = Held(n)
            BY <4>3, Zenon
          <5>2. n \in 1 .. i - 1 /\ n \in 1 .. Len(parents)
            BY <1>0, <3>0, <3>3, <5>1
          <5> QED
            BY <2>2, <3>1, <5>1, <5>2, Zenon
        <4> QED
          BY <4>1, <4>2, <4>3, Zenon
      <3> QED
        BY <3>2, <3>3, Zenon
    <2>3. CASE pc = "rollback" /\ UNCHANGED <<i, parents>> /\ ~Worker
      <3>1. ws'[x] = ws[x]
        BY <1>2, <2>3, WriteFrame, Zenon DEF TouchedAt, Worker
      <3>2. \A n \in 1 .. i : Held(n)' = Held(n)
        BY <1>0, <2>3, Zenon DEF Held
      <3>3. Same(ws[x], original[x]) \/ \E n \in 1 .. i : x = Held(n)
        BY <1>0, <1>2, <2>3, Zenon DEF KeptOK
      <3> QED
        BY <2>3, <3>1, <3>2, <3>3, Zenon
    <2> QED
      BY <1>2, <2>1, <2>2, <2>3, RollbackEntry, Zenon
  <1> QED
    BY <1>0, <1>1, <1>2, Zenon DEF KeptOK, Same

(* Only a commit succeeds, and only what was verified is committed.        *)
LEMMA OkStep ==
    ASSUME [Next]_vars, outcome' = "ok", outcome # "ok"
    PROVE  Commit /\ pc = "commit"
  <1>1. CASE Prepare \/ StageEntry \/ BeginApply \/ BackUpTarget \/ RollBack
    BY <1>1, Zenon DEF Prepare, StageEntry, BeginApply, BackUpTarget, RollBack, Return
  <1>2. CASE ValidateTarget \/ InstallChange \/ VerifyParents
    BY <1>2, Zenon DEF ValidateTarget, InstallChange, VerifyParents, Abandon
  <1>3. CASE Commit
    BY <1>3, Zenon DEF Commit
  <1> QED
    BY <1>1, <1>2, <1>3, PositionFrame, Zenon DEF Worker

(* Only the check of the parents leads to the commit.                      *)
LEMMA CommitEntry ==
    ASSUME [Next]_vars, pc' = "commit"
    PROVE  VerifyParents \/ (~Worker /\ pc = "commit")
  <1>1. CASE Prepare \/ StageEntry \/ BeginApply \/ BackUpTarget \/ RollBack
    BY <1>1, Zenon DEF Prepare, StageEntry, BeginApply, BackUpTarget, RollBack, Step, Return
  <1>2. CASE ValidateTarget \/ InstallChange \/ Commit
    BY <1>2, Zenon DEF ValidateTarget, InstallChange, Commit, Step, Abandon
  <1> QED
    BY <1>1, <1>2, PositionFrame, Zenon DEF Worker

(* A change that was made stays, unless a service overwrites it.           *)
LEMMA InstalledStep ==
    ASSUME WorkerTypes, WorkspaceTypes, PositionOK, InstalledOK, [Next]_vars
    PROVE  InstalledOK'
  <1>0. /\ changes' = changes /\ Len(parents) \in Nat /\ i \in Nat
        /\ Len(changes) \in Nat
        /\ \A n : Installed(n)' = Installed(n)
    BY StepFrame, ChangeFacts DEF WorkerTypes, Installed
  <1>1. CASE ValidateTarget
    <2>1. /\ pc = "validate" /\ UNCHANGED <<ws, recent, outcome>> /\ outcome # "ok"
          /\ i = Len(parents) + 1
      BY <1>1, Zenon DEF ValidateTarget, Abandon, env, PositionOK
    <2>2. \A n \in 1 .. Len(parents) : Held(n)' = Held(n)
      BY HeldGrows, Zenon
    <2>3. \A n \in 1 .. Len(parents) : Held(n) \in recent \/ ws[Held(n)] = Installed(n)
      BY <2>1, Zenon DEF InstalledOK, Mutating
    <2>4. CASE parents' = parents /\ pc' # "install"
      BY <1>0, <2>1, <2>2, <2>3, <2>4, Zenon DEF InstalledOK
    <2>5. CASE parents' = Append(parents, Target(i)[2]) /\ pc' = "install" /\ i' = i
      <3>1. \A n \in 1 .. Len(parents') : n = i \/ n \in 1 .. Len(parents)
        BY <1>0, <2>1, <2>5 DEF WorkerTypes
      <3> QED
        BY <1>0, <2>1, <2>2, <2>3, <2>5, <3>1, Zenon DEF InstalledOK
    <2> QED
      BY <1>1, <2>4, <2>5, Zenon DEF ValidateTarget, Step, Abandon
  <1>2. CASE InstallChange
    <2>1. pc = "install" /\ parents' = parents /\ outcome' = outcome /\ outcome # "ok"
      BY <1>2, Zenon DEF InstallChange, Abandon, PositionOK
    <2>2. CASE pc' = "validate"
      <3>1. ws' = [ws EXCEPT ![Held(i)] = Installed(i)] /\ recent' = recent \ {Held(i)}
        BY <1>2, <2>2, Zenon DEF InstallChange, Step, Abandon
      <3>2. Held(i) \in Cells /\ i \in 1 .. Len(changes) /\ i = Len(parents)
        BY <1>2, PlaceAtWork, Zenon DEF InstallChange, PositionOK
      <3>3. ASSUME NEW n \in 1 .. Len(parents), n # i
            PROVE  Held(n) \in recent' \/ ws'[Held(n)] = Installed(n)
        <4>1. n \in 1 .. Len(changes)
          BY <1>0, <3>2
        <4>2. Held(n) # Held(i) /\ Held(n) \in Cells
          BY <1>0, <3>2, <3>3, <4>1, HeldApart, PlaceFacts
        <4>3. Held(n) \in recent \/ ws[Held(n)] = Installed(n)
          BY <2>1, <3>3, Zenon DEF InstalledOK, Mutating
        <4> QED
          BY <3>1, <4>2, <4>3, Zenon DEF WorkspaceTypes
      <3>4. ws'[Held(i)] = Installed(i)
        BY <3>1, <3>2, Zenon DEF WorkspaceTypes
      <3>5. \A n \in 1 .. Len(parents) : Held(n)' = Held(n)
        BY HeldGrows, Zenon
      <3>6. \A n \in 1 .. Len(parents) : Held(n) \in recent' \/ ws'[Held(n)] = Installed(n)
        BY <3>3, <3>4, Zenon
      <3> QED
        BY <1>0, <2>1, <3>5, <3>6, Zenon DEF InstalledOK
    <2>3. CASE pc' = "rollback"
      BY <2>1, <2>3, Zenon DEF InstalledOK, Mutating
    <2> QED
      BY <1>2, <2>2, <2>3, Zenon DEF InstallChange, Step, Abandon
  <1>3. CASE ~ValidateTarget /\ ~InstallChange
    <2>0. parents' = parents
      BY <1>3, StepFrame, Zenon
    <2>1. ASSUME pc' \in Mutating \/ outcome' = "ok"
          PROVE  \/ parents = <<>>
                 \/ pc \in Mutating \/ outcome = "ok"
      <3>1. CASE pc' \in Mutating
        BY <3>1, ForwardStep, Zenon DEF PositionOK, Early
      <3>2. CASE outcome' = "ok" /\ outcome # "ok"
        BY <3>2, OkStep, Zenon DEF Mutating
      <3> QED
        BY <2>1, <3>1, <3>2, Zenon
    <2>2. ASSUME pc' \in Mutating \/ outcome' = "ok", NEW n \in 1 .. Len(parents)
          PROVE  \/ pc' = "install" /\ n = i'
                 \/ Held(n) \in recent'
                 \/ ws'[Held(n)] = Installed(n)
      <3>1. pc \in Mutating \/ outcome = "ok"
        BY <2>1, <2>2
      <3>2. n \in 1 .. Len(changes)
        BY <1>0, <2>2, <3>1 DEF PositionOK
      <3>3. Held(n) \in Cells
        BY <1>0, <3>2, PlaceFacts
      <3>4. ~RollBack
        BY <3>1, Zenon DEF RollBack, Mutating, PositionOK
      <3>5. ws'[Held(n)] = ws[Held(n)] \/ Held(n) \in recent'
        BY <1>3, <3>3, <3>4, WriteFrame, Zenon DEF TouchedAt
      <3>6. Held(n) \in recent => Held(n) \in recent'
        <4>1. ASSUME Touching PROVE recent \subseteq recent'
          BY <4>1, Zenon DEF Touching, TouchFile
        <4> QED
          BY <1>3, <4>1, StepFrame, Zenon
      <3>7. pc = "install" => UNCHANGED <<pc, i>>
        BY <1>3, PositionFrame, Zenon DEF Worker, Prepare, StageEntry, BeginApply, BackUpTarget,
           VerifyParents, Commit, RollBack
      <3>8. (pc = "install" /\ n = i) \/ Held(n) \in recent \/ ws[Held(n)] = Installed(n)
        BY <2>2, <3>1, Zenon DEF InstalledOK
      <3> QED
        BY <3>5, <3>6, <3>7, <3>8, Zenon
    <2>3. \A n \in 1 .. Len(parents) : Held(n)' = Held(n)
      BY HeldGrows, Zenon
    <2> QED
      BY <1>0, <2>0, <2>2, <2>3, Zenon DEF InstalledOK
  <1> QED
    BY <1>1, <1>2, <1>3, Zenon

(* What was verified stays beneath the workspace or is recorded as late.   *)
LEMMA BeneathStep ==
    ASSUME WorkerTypes, WorkspaceTypes, PositionOK, BeneathOK, [Next]_vars
    PROVE  BeneathOK'
  <1>0. /\ changes' = changes /\ i \in Nat /\ Len(changes) \in Nat
        /\ late => late'
    <2>1. ASSUME Moving PROVE late => late'
      BY <2>1, Zenon DEF Moving, MoveDirectory
    <2> QED
      BY <2>1, StepFrame, ChangeFacts DEF WorkerTypes
  <1>1. CASE Moving
    <2>1. UNCHANGED <<pc, i, parents, outcome>> /\ pc # "done"
          /\ late' = (late \/ pc = "commit" \/ (pc = "verify" /\ i > 1))
      BY <1>1, Zenon DEF Moving, MoveDirectory, worker
    <2>2. outcome # "ok"
      BY <2>1, Zenon DEF PositionOK
    <2>3. ~late' /\ pc = "verify" => \A n \in 1 .. Len(changes) : ~(n < i)
      <3>1. ~late' /\ pc = "verify" => ~(i > 1)
        BY <2>1, Zenon
      <3> QED
        BY <1>0, <3>1
    <2> QED
      BY <1>0, <2>1, <2>2, <2>3, Zenon DEF BeneathOK
  <1>2. CASE ~Moving /\ Worker
    <2>0. at' = at /\ late' = late /\ (ValidateTarget \/ parents' = parents)
      BY <1>2, StepFrame, Zenon
    <2>1. CASE VerifyParents
      <3>0. /\ pc = "verify" /\ outcome # "ok" /\ outcome' = outcome
            /\ i > 0 /\ i <= Len(changes) + 1 /\ parents' = parents
        BY <2>1, Zenon DEF VerifyParents, Abandon, PositionOK
      <3>1. \A n : Target(n)' = Target(n) /\ Held(n)' = Held(n)
        BY <1>0, <2>0, <3>0, Zenon DEF Target, Held
      <3>2. CASE Target(i) = Held(i) /\ pc' = "verify" /\ i' = i + 1
        <4>1. \A n \in 1 .. Len(changes) : n < i + 1 => n < i \/ n = i
          BY <1>0
        <4> QED
          BY <1>0, <2>0, <3>0, <3>1, <3>2, <4>1, Zenon DEF BeneathOK
      <3>3. CASE i > Len(changes) /\ pc' = "commit"
        <4>1. \A n \in 1 .. Len(changes) : n < i
          BY <1>0, <3>3
        <4> QED
          BY <1>0, <2>0, <3>0, <3>1, <3>3, <4>1, Zenon DEF BeneathOK
      <3>4. CASE pc' = "rollback"
        BY <3>0, <3>4, Zenon DEF BeneathOK
      <3> QED
        BY <2>1, <3>2, <3>3, <3>4, Zenon DEF VerifyParents, Step, Abandon
    <2>2. CASE Commit
      <3>1. \A n : Target(n)' = Target(n) /\ Held(n)' = Held(n)
        BY <1>0, <2>0, <2>2, Zenon DEF Target, Held, Commit, ValidateTarget
      <3>2. pc = "commit" /\ pc' \in {"done", "rollback"}
        BY <2>2, Zenon DEF Commit, Step, Abandon
      <3> QED
        BY <1>0, <2>0, <3>1, <3>2, Zenon DEF BeneathOK
    <2>3. CASE ~VerifyParents /\ ~Commit
      <3>1. pc' # "commit" /\ outcome' # "ok"
        <4>1. pc # "done"
          BY <1>2, Zenon DEF Worker, Prepare, StageEntry, BeginApply, BackUpTarget, ValidateTarget,
             InstallChange, VerifyParents, Commit, RollBack
        <4> QED
          BY <1>2, <2>3, <4>1, OkStep, CommitEntry, Zenon DEF PositionOK
      <3>2. ASSUME pc' = "verify" PROVE i' = 1
        <4>1. CASE Prepare \/ StageEntry \/ BeginApply \/ BackUpTarget \/ RollBack
          BY <3>2, <4>1, Zenon DEF Prepare, StageEntry, BeginApply, BackUpTarget, RollBack, Step,
             Return
        <4>2. CASE ValidateTarget \/ InstallChange
          BY <3>2, <4>2, Zenon DEF ValidateTarget, InstallChange, Step, Abandon
        <4> QED
          BY <1>2, <2>3, <4>1, <4>2, Zenon DEF Worker
      <3> QED
        BY <1>0, <3>1, <3>2 DEF BeneathOK
    <2> QED
      BY <2>1, <2>2, <2>3, Zenon
  <1>3. CASE ~Moving /\ ~Worker
    <2>1. UNCHANGED <<pc, i, parents, outcome, at, late>>
      BY <1>3, StepFrame, PositionFrame, Zenon
    <2> QED
      BY <1>0, <2>1, Zenon DEF BeneathOK, Target, Held
  <1> QED
    BY <1>1, <1>2, <1>3, Zenon

(***************************************************************************)
(* The invariant, and the properties it implies.                           *)
(***************************************************************************)
(* Before the update nothing is backed up, held, staged or changed.        *)
LEMMA UpdateInit == Init => UpdateInv
  <1> SUFFICES ASSUME Init PROVE UpdateInv
    OBVIOUS
  <1>1. PICK initial \in [Paths -> Initials] :
            ws = [x \in Cells |-> IF x[2] = 1 THEN initial[x[1]] ELSE Absent]
    BY Zenon DEF Init, Cells
  <1>2. \A x \in Cells : x[1] \in Paths
    BY Zenon DEF Cells
  <1>3. \A x \in Cells : ws[x] \in {Absent, OldFile, OldExec, OldOther}
    BY <1>1, <1>2, UpdateAssumption, Zenon
  <1>4. \A x \in Cells : ws[x] \in Files /\ Inode(ws[x]) /\ ws[x].content # "new"
    BY <1>3, FileFacts, Zenon DEF Inode
  <1>5. \A p \in Paths : <<p, 2>> \in Cells /\ ws[<<p, 2>>] = Absent
    BY <1>1 DEF Cells
  <1>6. WorkerTypes
    BY DEF Init, WorkerTypes, Labels, Early
  <1>7. WorkspaceTypes
    <2>1. ws \in [Cells -> Files] /\ original = ws
      BY <1>1, <1>4, Zenon DEF Init
    <2>2. at \in [{Dir[p] : p \in Paths} -> {0, 1, 2}]
      BY Zenon DEF Init
    <2> QED
      BY <2>1, <2>2, Zenon DEF WorkspaceTypes
  <1>8. PositionOK /\ ProvenOK /\ StagedOK
    BY Zenon DEF Init, PositionOK, ProvenOK, StagedOK, Early, Mutating
  <1>9. InodeOK /\ NewOK
    <2>1. original = ws /\ backup = <<>> /\ 1 .. Len(backup) = {}
      BY DEF Init
    <2> QED
      BY <1>4, <1>5, <2>1, Zenon DEF InodeOK, NewOK
  <1>10. KeptOK /\ BackupOK /\ HeldOK
    BY DEF Init, KeptOK, BackupOK, HeldOK
  <1>11. InstalledOK /\ BeneathOK
    BY Zenon DEF Init, InstalledOK, BeneathOK, Mutating
  <1>12. OnlyVerifiedBytes
    BY <1>4, <1>7, Zenon DEF OnlyVerifiedBytes, WorkspaceTypes
  <1> QED
    BY <1>6, <1>7, <1>8, <1>9, <1>10, <1>11, <1>12, Zenon DEF UpdateInv

(* Every step of the update, of whoever cancels it and of the services     *)
(* keeps the invariant.                                                    *)
LEMMA UpdateInvStep == UpdateInv /\ [Next]_vars => UpdateInv'
  BY WorkerTypesStep, WorkspaceTypesStep, PositionStep, ProvenStep, InodeStep, KeptStep,
     BackupStep, HeldStep, InstalledStep, BeneathStep, StagedStep, NewStep, BytesStep, Zenon
     DEF UpdateInv

(* The inductive invariant holds in every behaviour of the update.         *)
THEOREM UpdateCorrect == Spec => []UpdateInv
  BY UpdateInit, UpdateInvStep, PTL DEF Spec

(* Only bytes with the declared hash reach the workspace, only files of    *)
(* the request, and none before all of them were staged and hashed         *)
(* (prepare_archive compares every hash before apply_update changes        *)
(* anything).                                                              *)
THEOREM UpdateBytes == Spec => []OnlyVerifiedBytes
  <1>1. UpdateInv => OnlyVerifiedBytes
    BY Zenon DEF UpdateInv
  <1> QED
    BY <1>1, UpdateCorrect, PTL

(* A committed update is in the workspace, in no directory that was moved  *)
(* out of it before the verification (verify_parent_still_beneath).        *)
THEOREM UpdateBeneath == Spec => []CommittedIsBeneath
  <1>1. UpdateInv => CommittedIsBeneath
    <2> SUFFICES ASSUME UpdateInv, outcome = "ok", ~late, NEW n \in 1 .. Len(changes)
                 PROVE  Target(n)[2] # 0 /\ (Target(n) \in recent \/ ws[Target(n)] = Installed(n))
      BY Zenon DEF CommittedIsBeneath
    <2>1. Target(n) = Held(n)
      BY Zenon DEF UpdateInv, BeneathOK
    <2>2. n \in 1 .. Len(parents) /\ pc # "install"
      BY Zenon DEF UpdateInv, PositionOK
    <2>3. Held(n)[2] \in {1, 2}
      BY <2>2, PlaceFacts, Zenon DEF UpdateInv, Held
    <2>4. Held(n) \in recent \/ ws[Held(n)] = Installed(n)
      BY <2>2, Zenon DEF UpdateInv, InstalledOK
    <2> QED
      BY <2>1, <2>3, <2>4
  <1> QED
    BY <1>1, UpdateCorrect, PTL

(* Once the worker returned nothing more happens in the model: the next    *)
(* update starts from a new revision.                                      *)
LEMMA Returned ==
    ASSUME pc = "done", [Next]_vars
    PROVE  UNCHANGED vars
  <1>1. ~Worker
    BY Zenon DEF Worker, Prepare, StageEntry, BeginApply, BackUpTarget, ValidateTarget,
       InstallChange, VerifyParents, Commit, RollBack
  <1> QED
    BY <1>1, Zenon DEF Next, Cancel, TouchFile, MoveDirectory

(* An update that fails before it holds a parent leaves everything, and    *)
(* one that reports a proven rollback has undone every held change.        *)
LEMMA FailStep ==
    ASSUME UpdateInv, [Next]_vars, pc # "done", pc' = "done", outcome' # "ok"
    PROVE  /\ outcome' \in {"failed", "refused"}
           /\ proven' => /\ UNCHANGED <<ws, touched, original>>
                         /\ \A x \in Cells \ touched : Same(ws[x], original[x])
                         /\ pc = "rollback" => proven
  <1> USE DEF UpdateInv
  <1>1. CASE Prepare \/ StageEntry \/ BeginApply \/ BackUpTarget
    <2>1. /\ outcome' \in {"failed", "refused"} /\ UNCHANGED <<ws, touched, original>>
          /\ pc \in Early
      BY <1>1, Zenon DEF Prepare, StageEntry, BeginApply, BackUpTarget, Step, Return, env, Early
    <2>2. parents = <<>>
      BY <2>1, Zenon DEF PositionOK
    <2>3. \A x \in Cells \ touched : ws[x] = original[x]
      BY <2>1, <2>2 DEF KeptOK
    <2> QED
      BY <2>1, <2>3, Zenon DEF Same, Early
  <1>2. CASE RollBack
    <2>1. outcome' = "failed" /\ pc = "rollback"
      BY <1>2, Zenon DEF RollBack, Step, Return
    <2>2. ASSUME proven' PROVE i = 0 /\ proven /\ UNCHANGED <<ws, touched, original>>
      BY <1>2, <2>2, Zenon DEF RollBack, Step, Return, env
    <2>3. ASSUME i = 0 PROVE \A x \in Cells \ touched : Same(ws[x], original[x])
      BY <2>1, <2>3 DEF KeptOK
    <2> QED
      BY <2>1, <2>2, <2>3, Zenon
  <1>3. CASE ValidateTarget \/ InstallChange \/ VerifyParents \/ Commit
    BY <1>3, Zenon DEF ValidateTarget, InstallChange, VerifyParents, Commit, Step, Abandon
  <1> QED
    BY <1>1, <1>2, <1>3, PositionFrame, Zenon DEF Worker

(* All of the changes, or none.                                            *)
LEMMA AllOrNothingStep == UpdateInv /\ AllOrNothing /\ [Next]_vars => AllOrNothing'
  <1> SUFFICES ASSUME UpdateInv, AllOrNothing, [Next]_vars PROVE AllOrNothing'
    OBVIOUS
  <1>0. UpdateInv'
    BY UpdateInvStep, Zenon
  <1>1. ASSUME outcome' = "ok", NEW n \in 1 .. Len(changes')
        PROVE  Held(n)' \in recent' \/ ws'[Held(n)'] = Installed(n)'
    <2>1. pc' # "install" /\ n \in 1 .. Len(parents')
      BY <1>0, <1>1, Zenon DEF UpdateInv, PositionOK
    <2> QED
      BY <1>0, <1>1, <2>1, Zenon DEF UpdateInv, InstalledOK
  <1>2. ASSUME outcome' \in {"refused", "failed"}, proven', NEW x \in DOMAIN ws' \ touched'
        PROVE  Same(ws'[x], original'[x])
    <2>1. CASE pc = "done"
      <3>1. UNCHANGED <<outcome, proven, ws, touched, original>>
        BY <2>1, Returned, Zenon DEF vars, worker, env
      <3> QED
        BY <1>2, <3>1, Zenon DEF AllOrNothing
    <2>2. CASE pc # "done"
      <3>1. pc' = "done" /\ outcome' # "ok"
        BY <1>0, <1>2 DEF UpdateInv, PositionOK
      <3>2. DOMAIN ws = Cells
        BY Zenon DEF UpdateInv, WorkspaceTypes
      <3>3. /\ UNCHANGED <<ws, touched, original>>
            /\ \A y \in Cells \ touched : Same(ws[y], original[y])
        BY <1>2, <2>2, <3>1, FailStep, Zenon
      <3> QED
        BY <1>2, <3>2, <3>3, Zenon
    <2> QED
      BY <2>1, <2>2, Zenon
  <1> QED
    BY <1>1, <1>2, Zenon DEF AllOrNothing, Same

(* A successful update installed all of its changes, and one that claims a *)
(* proven rollback, or was refused, left every target as it was            *)
(* (apply_update, rollback).                                               *)
THEOREM UpdateAtomic == Spec => []AllOrNothing
  <1>1. Init => AllOrNothing
    BY Zenon DEF Init, AllOrNothing
  <1> QED
    BY <1>1, AllOrNothingStep, UpdateCorrect, PTL DEF Spec

(***************************************************************************)
(* The refinement: the session may rely on UpdateContract.                 *)
(***************************************************************************)
(* The phase of the contract at each position of the worker.               *)
PhasesAre ==
    /\ pc \in {"prepare", "entry"} => PhaseOf = "idle"
    /\ pc \in {"apply", "backup"} => PhaseOf = "apply"
    /\ pc \in Mutating => PhaseOf = IF parents = <<>> THEN "apply" ELSE "mutated"
    /\ pc = "rollback" =>
           PhaseOf = IF parents = <<>> THEN "apply" ELSE IF proven THEN "undo" ELSE "undoUnproven"
    /\ pc = "done" /\ outcome = "refused" => PhaseOf = "over"
    /\ pc = "done" /\ outcome = "ok" => PhaseOf = "committed"
    /\ pc = "done" /\ outcome = "failed" =>
           PhaseOf = IF proven THEN "rolledBack" ELSE "unprovable"

(* Where the worker is tells the phase of the contract.                    *)
LEMMA Phases == PhasesAre
  <1>1. ASSUME pc \in {"prepare", "entry"} PROVE PhaseOf = "idle"
    BY <1>1, Zenon DEF PhaseOf
  <1>2. ASSUME pc \in {"apply", "backup"} PROVE PhaseOf = "apply"
    BY <1>2, Zenon DEF PhaseOf
  <1>3. ASSUME pc \in Mutating
        PROVE  PhaseOf = IF parents = <<>> THEN "apply" ELSE "mutated"
    BY <1>3, Zenon DEF PhaseOf, Mutating
  <1>4. ASSUME pc = "rollback"
        PROVE  PhaseOf = IF parents = <<>> THEN "apply"
                         ELSE IF proven THEN "undo" ELSE "undoUnproven"
    BY <1>4, Zenon DEF PhaseOf
  <1>5. ASSUME pc = "done", outcome = "refused" PROVE PhaseOf = "over"
    BY <1>5, Zenon DEF PhaseOf
  <1>6. ASSUME pc = "done", outcome = "ok" PROVE PhaseOf = "committed"
    BY <1>6, Zenon DEF PhaseOf
  <1>7. ASSUME pc = "done", outcome = "failed"
        PROVE  PhaseOf = IF proven THEN "rolledBack" ELSE "unprovable"
    BY <1>7, Zenon DEF PhaseOf
  <1> QED
    BY <1>1, <1>2, <1>3, <1>4, <1>5, <1>6, <1>7, Zenon DEF PhasesAre

(* The same of the next state.                                             *)
LEMMA NextPhases == PhasesAre'
  BY Phases, PTL

(* Until a parent is held nothing is dirty.                                *)
CleanUnheld == UpdateInv /\ parents = <<>> /\ pc # "done" => ~DirtyOf

(* Before the first parent directory is held the files are what they were. *)
LEMMA CleanUntilHeld == CleanUnheld
  <1> SUFFICES ASSUME UpdateInv, parents = <<>>, pc # "done" PROVE ~DirtyOf
    BY Zenon DEF CleanUnheld
  <1>0. DOMAIN ws = Cells
    BY Zenon DEF UpdateInv, WorkspaceTypes
  <1>1. CASE pc \in Early \cup Mutating
    <2>1. \A x \in Cells \ touched : ws[x] = original[x]
      BY <1>1 DEF UpdateInv, KeptOK
    <2> QED
      BY <1>0, <2>1, Zenon DEF DirtyOf, Same
  <1>2. CASE pc = "rollback"
    <2>1. i \in Nat /\ i <= 0
      BY <1>2, Zenon DEF UpdateInv, PositionOK, WorkerTypes
    <2>2. \A x \in Cells \ touched : Same(ws[x], original[x])
      BY <1>2, <2>1 DEF UpdateInv, KeptOK
    <2> QED
      BY <1>0, <2>2, Zenon DEF DirtyOf
  <1> QED
    BY <1>1, <1>2, Zenon DEF UpdateInv, WorkerTypes, Labels

(* The same of the next state.                                             *)
LEMMA NextClean == CleanUnheld'
  BY CleanUntilHeld, PTL

(* dirty is TRUE or FALSE.                                                 *)
LEMMA DirtyType == DirtyOf \in BOOLEAN /\ DirtyOf' \in BOOLEAN
  BY Zenon DEF DirtyOf

(* Where a worker goes from a position with a contract phase of its own.   *)
LEMMA PhaseMoves ==
    ASSUME UpdateInv, [Next]_vars
    PROVE  /\ pc \in {"prepare", "entry"} =>
                  \/ pc' \in {"prepare", "entry", "apply"}
                  \/ pc' = "done" /\ outcome' = "refused" /\ proven'
           /\ pc \in {"apply", "backup"} =>
                  \/ pc' \in {"apply", "backup", "validate"}
                  \/ pc' = "done" /\ outcome' = "failed"
           /\ pc \in Mutating => \/ pc' \in Mutating \cup {"rollback"}
                                 \/ pc = "commit" /\ pc' = "done" /\ outcome' = "ok"
           /\ pc = "rollback" => \/ pc' = "rollback" /\ proven' = proven
                                 \/ pc' = "done" /\ outcome' = "failed"
  <1> USE DEF Mutating
  <1>1. CASE Prepare \/ StageEntry
    BY <1>1, Zenon DEF Prepare, StageEntry, Step, Return
  <1>2. CASE BeginApply \/ BackUpTarget
    BY <1>2, Zenon DEF BeginApply, BackUpTarget, Step, Return
  <1>3. CASE ValidateTarget \/ InstallChange
    BY <1>3, Zenon DEF ValidateTarget, InstallChange, Step, Abandon
  <1>4. CASE VerifyParents \/ Commit
    BY <1>4, Zenon DEF VerifyParents, Commit, Step, Abandon
  <1>5. CASE RollBack
    BY <1>5, Zenon DEF RollBack, Step, Return
  <1>6. CASE UNCHANGED <<pc, i, proven, outcome, backup, parents, staged>>
    BY <1>6, Zenon
  <1> QED
    BY <1>1, <1>2, <1>3, <1>4, <1>5, <1>6, PositionFrame, Zenon DEF Worker

(* A step that returns with an error and claims that all is as it was is   *)
(* right.                                                                  *)
LEMMA FailIsClean ==
    ASSUME UpdateInv, [Next]_vars, pc # "done", pc' = "done", outcome' # "ok", proven'
    PROVE  ~DirtyOf'
  <1>1. /\ UNCHANGED <<ws, touched, original>>
        /\ \A x \in Cells \ touched : Same(ws[x], original[x])
    BY FailStep, Zenon
  <1>2. DOMAIN ws = Cells
    BY Zenon DEF UpdateInv, WorkspaceTypes
  <1> QED
    BY <1>1, <1>2, Zenon DEF DirtyOf, Same

(* Until the first change, every step is one of the contract or hidden.    *)
LEMMA ContractBefore ==
    ASSUME UpdateInv, UpdateInv', [Next]_vars, parents = <<>>, pc # "done"
    PROVE  [Contract!Step]_<<PhaseOf, DirtyOf>>
  <1>0. DirtyOf = FALSE
    BY CleanUntilHeld, DirtyType, Zenon DEF CleanUnheld
  <1>1. pc' # "done" /\ parents' = <<>> => DirtyOf' = FALSE
    BY NextClean, DirtyType, Zenon DEF CleanUnheld
  <1>2. parents' # <<>> => pc = "validate" /\ pc' = "install"
    BY StepFrame, Zenon DEF ValidateTarget, Step, Abandon
  <1>3. CASE pc \in {"prepare", "entry"}
    <2>1. PhaseOf = "idle"
      BY <1>3, Phases, Zenon DEF PhasesAre
    <2>2. parents' = <<>>
      BY <1>2, <1>3, Zenon
    <2>3. CASE pc' \in {"prepare", "entry"}
      BY <1>0, <1>1, <2>1, <2>2, <2>3, NextPhases, Zenon DEF PhasesAre
    <2>4. CASE pc' = "apply"
      <3>1. PhaseOf' = "apply"
        BY <2>4, NextPhases, Zenon DEF PhasesAre
      <3> QED
        BY <1>0, <1>1, <2>1, <2>2, <2>4, <3>1, Zenon DEF Contract!Step, Contract!Next, Contract!Start
    <2>5. CASE pc' = "done" /\ outcome' = "refused"
      <3>1. PhaseOf' = "over"
        BY <2>5, NextPhases, Zenon DEF PhasesAre
      <3>2. proven'
        BY <1>3, <2>5, PhaseMoves, Zenon
      <3>3. DirtyOf' = FALSE
        BY <2>5, <3>2, FailIsClean, DirtyType, Zenon
      <3> QED
        BY <1>0, <2>1, <3>1, <3>3, Zenon DEF Contract!Step, Contract!Next, Contract!Start
    <2> QED
      BY <1>3, <2>3, <2>4, <2>5, PhaseMoves, Zenon
  <1>4. CASE pc \notin {"prepare", "entry"}
    <2>1. PhaseOf = "apply"
      BY <1>4, Phases, Zenon DEF PhasesAre, UpdateInv, WorkerTypes, Labels, Early
    <2>2. CASE pc' # "done" /\ parents' = <<>>
      <3>1. pc' \in {"apply", "backup", "rollback"} \cup Mutating
        BY <1>4, <2>2, PhaseMoves, Zenon DEF UpdateInv, WorkerTypes, Labels, Early, Mutating
      <3>2. PhaseOf' = "apply"
        BY <2>2, <3>1, NextPhases, Zenon DEF PhasesAre
      <3> QED
        BY <1>0, <1>1, <2>1, <2>2, <3>2, Zenon
    <2>3. CASE parents' # <<>>
      <3>1. PhaseOf' = "mutated"
        BY <1>2, <2>3, NextPhases, Zenon DEF PhasesAre, Mutating
      <3> QED
        BY <2>1, <3>1, DirtyType, Zenon DEF Contract!Step, Contract!Next, Contract!Mutate
    <2>4. CASE pc' = "done" /\ parents' = <<>>
      <3>1. outcome' = "failed"
        <4>1. pc # "commit"
          BY ChangeFacts DEF UpdateInv, PositionOK
        <4> QED
          BY <1>4, <2>4, <4>1, PhaseMoves, Zenon DEF UpdateInv, WorkerTypes, Labels, Early, Mutating
      <3>2. CASE proven'
        <4>1. PhaseOf' = "rolledBack"
          BY <2>4, <3>1, <3>2, NextPhases, Zenon DEF PhasesAre
        <4>2. DirtyOf' = FALSE
          BY <2>4, <3>1, <3>2, FailIsClean, DirtyType, Zenon
        <4> QED
          BY <1>0, <2>1, <4>1, <4>2, Zenon DEF Contract!Step, Contract!Next, Contract!Refuse
      <3>3. proven'
        BY <2>4, Zenon DEF UpdateInv, ProvenOK
      <3> QED
        BY <3>2, <3>3, Zenon
    <2> QED
      BY <2>2, <2>3, <2>4, Zenon
  <1> QED
    BY <1>3, <1>4, Zenon

(* So is every step while changes are made or undone.                      *)
LEMMA ContractAfter ==
    ASSUME UpdateInv, UpdateInv', [Next]_vars, parents # <<>>, pc # "done"
    PROVE  [Contract!Step]_<<PhaseOf, DirtyOf>>
  <1>0. pc \in Mutating \cup {"rollback"}
    BY Zenon DEF UpdateInv, WorkerTypes, Labels, PositionOK
  <1>1. parents' # <<>>
    BY HeldGrows DEF UpdateInv, WorkerTypes
  <1>2. CASE pc \in Mutating
    <2>1. PhaseOf = "mutated"
      BY <1>2, Phases, Zenon DEF PhasesAre
    <2>2. CASE pc' \in Mutating
      BY <1>1, <2>1, <2>2, NextPhases, DirtyType, Zenon DEF PhasesAre, Contract!Step, Contract!Next, Contract!Mutate
    <2>3. CASE pc' = "rollback"
      BY <1>1, <2>1, <2>3, NextPhases, DirtyType, Zenon DEF PhasesAre, Contract!Step, Contract!Next, Contract!Fail
    <2>4. CASE pc' = "done" /\ outcome' = "ok"
      <3>1. ~DirtyOf'
        BY <2>4, Zenon DEF DirtyOf
      <3> QED
        BY <2>1, <2>4, <3>1, NextPhases, Zenon DEF PhasesAre, Contract!Step, Contract!Next, Contract!Commit
    <2> QED
      BY <1>2, <2>2, <2>3, <2>4, PhaseMoves, Zenon
  <1>3. CASE pc = "rollback"
    <2>1. PhaseOf = IF proven THEN "undo" ELSE "undoUnproven"
      BY <1>3, Phases, Zenon DEF PhasesAre
    <2>2. CASE pc' = "rollback" /\ proven' = proven
      <3>1. PhaseOf' = PhaseOf
        BY <1>1, <2>1, <2>2, NextPhases, Zenon DEF PhasesAre
      <3> QED
        BY <2>1, <3>1, DirtyType, Zenon DEF Contract!Step, Contract!Next, Contract!Undo
    <2>3. CASE pc' = "done" /\ outcome' = "failed" /\ proven'
      <3>1. proven /\ ~DirtyOf'
        BY <1>3, <2>3, FailStep, FailIsClean, Zenon
      <3> QED
        BY <2>1, <2>3, <3>1, NextPhases, Zenon DEF PhasesAre, Contract!Step, Contract!Next, Contract!RollBack
    <2>4. CASE pc' = "done" /\ outcome' = "failed" /\ ~proven'
      BY <2>1, <2>4, NextPhases, DirtyType, Zenon DEF PhasesAre, Contract!Step, Contract!Next, Contract!RollBack
    <2> QED
      BY <1>3, <2>2, <2>3, <2>4, PhaseMoves, Zenon
  <1> QED
    BY <1>0, <1>2, <1>3, Zenon

(* The file operations implement the update that Session relies on.        *)
THEOREM UpdateImplemented == Spec => ImplementsUpdateContract
  <1>1. Init => Contract!Init
    BY Phases, DirtyType, Zenon DEF PhasesAre, Init, Contract!Init, DirtyOf
  <1>2. UpdateInv /\ UpdateInv' /\ [Next]_vars => [Contract!Step]_<<PhaseOf, DirtyOf>>
    <2> SUFFICES ASSUME UpdateInv, UpdateInv', [Next]_vars
                 PROVE  [Contract!Step]_<<PhaseOf, DirtyOf>>
      OBVIOUS
    <2>1. CASE pc = "done"
      <3>1. UNCHANGED vars
        BY <2>1, Returned, Zenon
      <3> QED
        BY <3>1, Zenon DEF vars, worker, env, PhaseOf, DirtyOf, Same
    <2> QED
      BY <2>1, ContractBefore, ContractAfter, Zenon
  <1> QED
    BY <1>1, <1>2, UpdateCorrect, PTL DEF Spec, ImplementsUpdateContract, Contract!Spec

=============================================================================
