---------------------------- MODULE SourceUpdate ----------------------------
(***************************************************************************)
(* One source update of a managed session (src/source_updates.rs): the     *)
(* uploaded archive is verified and staged, then every change is backed up, *)
(* validated and installed, the revision is committed, and on any error    *)
(* the installed changes are rolled back, last first.                      *)
(*                                                                         *)
(* The update worker is the only operation of the session, but the task's  *)
(* retained services run in the same workspace: between any two system     *)
(* calls they may edit, replace or remove a target and move a directory    *)
(* away.  The worker holds a descriptor of each parent directory it        *)
(* mutated, so a directory is an instance: 1 the original, 2 what stands   *)
(* at its path after it was moved.                                         *)
(***************************************************************************)
EXTENDS Naturals, Sequences, FiniteSets

CONSTANTS
    Paths,            \* paths a change may name
    Dir,              \* the parent directory of each path
    Requests,         \* declared changes: sequences of [path, kind]
    Archives,         \* uploaded archives: sequences of entries
    Initials,         \* what a target may be before the update
    MaxFiles,         \* policy.max_files
    MaxBytes,         \* policy.max_uncompressed_bytes
    MaxInterference   \* bound: what the services do meanwhile

VARIABLES
    changes,    \* request.changes
    archive,    \* the entries of the uploaded archive
    pc,         \* where the worker is
    i,          \* the entry or change it is at
    total,      \* bytes counted by prepare_archive
    staged,     \* paths with a verified staged file
    root,       \* the staging directory exists
    ws,         \* the files of the workspace, per path and directory instance
    at,         \* the directory instance at each path (0: not a directory)
    backup,     \* what was backed up for each change
    parents,    \* mutation_parents: the directory instance held per change
    cancelled,  \* the update's CancellationFlag
    durable,    \* the metadata names the next revision
    proven,     \* rollback_proven of the error
    outcome,    \* none, ok, failed, or refused by prepare_update
    touched,    \* history: files the services changed
    recent,     \* history: ... since the update last wrote them
    original,   \* history: the workspace before the update
    late,       \* history: a directory moved after its change was verified
    budget      \* bound on interference

worker  == <<pc, i, total, staged, root, backup, parents, durable, proven, outcome>>
request == <<changes, archive>>
env     == <<touched, recent, late, budget>>
vars    == <<worker, request, env, ws, at, cancelled, original>>

(* A file: which inode it is, what kind, and whose content; kind other is  *)
(* a directory, which can be neither renamed over nor unlinked.            *)
Absent == [id |-> "none", kind |-> "none", content |-> "none"]
OldFile  == [id |-> "old", kind |-> "regular", content |-> "old"]
OldExec  == [id |-> "old", kind |-> "exec", content |-> "old"]
OldOther == [id |-> "old", kind |-> "other", content |-> "old"]
NewFile  == [id |-> "new", kind |-> "regular", content |-> "new"]
Foreign  == [id |-> "foreign", kind |-> "regular", content |-> "foreign"]
Restored(file) == [file EXCEPT !.id = "restored"]

(* What parse_session_update_metadata lets through (at least one change,   *)
(* no path twice), what a comparison of hashes says, and what may be there *)
(* before the update.                                                      *)
ASSUME UpdateAssumption ==
    /\ \A r \in Requests :
          /\ r \in Seq([path : Paths, kind : {"file", "delete"}]) /\ r # <<>>
          /\ \A m, n \in 1 .. Len(r) : r[m].path = r[n].path => m = n
    /\ \A a \in Archives : \A n \in 1 .. Len(a) : a[n].hashed \in BOOLEAN
    /\ Initials \subseteq {Absent, OldFile, OldExec, OldOther}

Declared == {changes[n].path : n \in {m \in 1 .. Len(changes) : changes[m].kind = "file"}}
Target(n) == <<changes[n].path, at[Dir[changes[n].path]]>>
Held(n) == <<changes[n].path, parents[n]>>

Init ==
    /\ changes \in Requests /\ archive \in Archives
    /\ pc = "prepare" /\ i = 1 /\ total = 0 /\ staged = {} /\ root = FALSE
    /\ \E initial \in [Paths -> Initials] :
          ws = [x \in Paths \X {1, 2} |-> IF x[2] = 1 THEN initial[x[1]] ELSE Absent]
    /\ original = ws
    /\ at = [d \in {Dir[p] : p \in Paths} |-> 1]
    /\ backup = <<>> /\ parents = <<>>
    /\ cancelled = FALSE /\ durable = FALSE /\ proven = TRUE /\ outcome = "none"
    /\ touched = {} /\ recent = {} /\ late = FALSE /\ budget = MaxInterference

(* The worker returns; dropping PreparedUpdate removes the staging (best   *)
(* effort: what is left is removed by the next startup).                   *)
Return(result, isProven) ==
    /\ pc' = "done" /\ outcome' = result /\ proven' = isProven
    /\ root' \in {root, FALSE}
    /\ UNCHANGED <<i, total, staged, backup, parents, durable>>

Step(label, index) == pc' = label /\ i' = index

(***************************************************************************)
(* prepare_update and prepare_archive: before the session is reserved.     *)
(***************************************************************************)
(* The allowlist was consulted (a path outside it is refused), the staging *)
(* directory created and the archive opened.                               *)
Prepare ==
    /\ pc = "prepare"
    /\ \/ /\ Len(archive) <= MaxFiles /\ Len(archive) = Cardinality(Declared)
          /\ root' = TRUE
          /\ Step("entry", 1)
          /\ UNCHANGED <<total, staged, backup, parents, durable, proven, outcome>>
       \/ Return("refused", TRUE)
    /\ UNCHANGED <<request, env, ws, at, cancelled, original>>

(* Mutant: the entry's hash is not compared.                               *)
EntryAcceptedUnhashed(n) ==
    /\ archive[n].name \in Declared \ {archive[m].name : m \in 1 .. n - 1}
    /\ archive[n].regular
    /\ total + archive[n].size <= MaxBytes
    /\ total + archive[n].actual <= MaxBytes

(* An entry is staged when its name is new and declared, it is a regular   *)
(* file that is not executable, neither its declared size nor what is read *)
(* of it passes the limit, and its bytes have the declared hash.           *)
EntryAccepted(n) ==
    /\ archive[n].name \in Declared \ {archive[m].name : m \in 1 .. n - 1}
    /\ archive[n].regular
    /\ total + archive[n].size <= MaxBytes
    /\ total + archive[n].actual <= MaxBytes
    /\ archive[n].hashed

StageEntry ==
    /\ pc = "entry"
    /\ \/ /\ i <= Len(archive) /\ EntryAccepted(i)
          /\ staged' = staged \cup {[path |-> archive[i].name, verified |-> archive[i].hashed]}
          /\ total' = total + archive[i].size
          /\ Step("entry", i + 1)
          /\ UNCHANGED <<root, backup, parents, durable, proven, outcome>>
       \/ /\ i > Len(archive)
          /\ Step("apply", 1)
          /\ UNCHANGED <<total, staged, root, backup, parents, durable, proven, outcome>>
       \/ i <= Len(archive) /\ Return("refused", TRUE)
    /\ UNCHANGED <<request, env, ws, at, cancelled, original>>

(***************************************************************************)
(* apply_update: nothing is touched until every target is backed up.       *)
(***************************************************************************)
BeginApply ==
    /\ pc = "apply"
    /\ \/ /\ ~cancelled
          /\ Step("backup", 1)
          /\ UNCHANGED <<total, staged, root, backup, parents, durable, proven, outcome>>
       \/ Return("failed", TRUE)
    /\ UNCHANGED <<request, env, ws, at, cancelled, original>>

(* inspect_target and the copy of one target.                              *)
BackUpTarget ==
    /\ pc = "backup"
    /\ \/ /\ i <= Len(changes) /\ Target(i)[2] # 0
          /\ LET file == ws[Target(i)]
             IN  /\ file.kind \in {"none", "regular"}
                 /\ changes[i].kind = "delete" => file # Absent
                 /\ backup' = Append(backup, file)
          /\ Step("backup", i + 1)
          /\ UNCHANGED <<total, staged, root, parents, durable, proven, outcome>>
       \/ /\ i > Len(changes)
          /\ Step("validate", 1)
          /\ UNCHANGED <<total, staged, root, backup, parents, durable, proven, outcome>>
       \/ i <= Len(changes) /\ Return("failed", TRUE)
    /\ UNCHANGED <<request, env, ws, at, cancelled, original>>

(***************************************************************************)
(* The mutations.  An error is kept with its claim of a proven rollback    *)
(* and the changes with a held parent are rolled back.                     *)
(***************************************************************************)
(* Mutant: the change that failed is not rolled back.                      *)
AbandonShort(isProven) ==
    /\ Step("rollback", IF parents = <<>> THEN 0 ELSE Len(parents) - 1)
    /\ proven' = isProven
    /\ UNCHANGED <<total, staged, root, backup, parents, outcome>>

Abandon(isProven) ==
    /\ Step("rollback", Len(parents))
    /\ proven' = isProven
    /\ UNCHANGED <<total, staged, root, backup, parents, outcome>>

(* validate_target_at: the file backed up is still the one at the path.    *)
TargetUnchanged(n) ==
    /\ Target(n)[2] # 0
    /\ ws[Target(n)].id = backup[n].id
    /\ ws[Target(n)].kind \in {"none", "regular", "exec"}

ValidateTarget ==
    /\ pc = "validate"
    /\ \/ /\ i <= Len(changes) /\ ~cancelled /\ TargetUnchanged(i)
          /\ parents' = Append(parents, Target(i)[2])
          /\ Step("install", i)
          /\ UNCHANGED <<total, staged, root, backup, durable, proven, outcome>>
       \/ /\ i > Len(changes)
          /\ Step("verify", 1)
          /\ UNCHANGED <<total, staged, root, backup, parents, durable, proven, outcome>>
       \/ /\ i <= Len(changes)
          /\ Abandon(TRUE) /\ UNCHANGED durable
    /\ UNCHANGED <<request, env, ws, at, cancelled, original>>

(* atomic_copy_at or unlink_file_at, through the held parent; the sync     *)
(* after it may fail when the change is already there.                     *)
Installed(n) == IF changes[n].kind = "file" THEN NewFile ELSE Absent

InstallChange ==
    /\ pc = "install"
    /\ \/ /\ changes[i].kind = "file" \/ ws[Held(i)] # Absent
          /\ ws[Held(i)].kind # "other"
          /\ ws' = [ws EXCEPT ![Held(i)] = Installed(i)]
          /\ recent' = recent \ {Held(i)}
          /\ \/ /\ Step("validate", i + 1)
                /\ UNCHANGED <<total, staged, root, backup, parents, durable, proven, outcome>>
             \/ Abandon(TRUE) /\ UNCHANGED durable
       \/ /\ Abandon(TRUE) /\ UNCHANGED <<durable, ws, recent>>
    /\ UNCHANGED <<request, touched, late, budget, at, cancelled, original>>

(* Mutant: the held parents are not compared with the workspace.           *)
VerifyNothing ==
    /\ pc = "verify"
    /\ Step("commit", 1)
    /\ UNCHANGED <<total, staged, root, backup, parents, durable, proven, outcome>>
    /\ UNCHANGED <<request, env, ws, at, cancelled, original>>

(* verify_parent_still_beneath, one change after the other.                *)
VerifyParents ==
    /\ pc = "verify"
    /\ \/ /\ i <= Len(changes) /\ Target(i) = Held(i)
          /\ Step("verify", i + 1)
          /\ UNCHANGED <<total, staged, root, backup, parents, durable, proven, outcome>>
       \/ /\ i > Len(changes)
          /\ Step("commit", 1)
          /\ UNCHANGED <<total, staged, root, backup, parents, durable, proven, outcome>>
       \/ i <= Len(changes) /\ Abandon(TRUE) /\ UNCHANGED durable
    /\ UNCHANGED <<request, env, ws, at, cancelled, original>>

(* The last look at the flag, and write_metadata of the next revision.     *)
Commit ==
    /\ pc = "commit"
    /\ \/ /\ ~cancelled
          /\ pc' = "done" /\ outcome' = "ok" /\ durable' = TRUE
          /\ root' \in {root, FALSE}
          /\ UNCHANGED <<i, total, staged, backup, parents, proven>>
       \/ cancelled /\ Abandon(TRUE) /\ UNCHANGED durable
       \/ ~cancelled /\ durable' \in {durable, TRUE} /\ Abandon(FALSE)
    /\ UNCHANGED <<request, env, ws, at, cancelled, original>>

(* The workspace with change n undone through its held parent.             *)
Undone(n) ==
    [ws EXCEPT ![Held(n)] = IF backup[n] = Absent THEN Absent ELSE Restored(backup[n])]

(* Mutant: a change that cannot be restored is skipped.                    *)
RollBackSkips ==
    /\ pc = "rollback"
    /\ \/ /\ i > 0
          /\ ws' \in {Undone(i), ws}
          /\ Step("rollback", i - 1)
          /\ UNCHANGED <<total, staged, root, backup, parents, durable, proven, outcome>>
       \/ /\ i = 0
          /\ Return("failed", proven)
          /\ UNCHANGED ws
    /\ UNCHANGED <<request, env, at, cancelled, original>>

(* rollback: a file that was there is copied back, one that was not is     *)
(* unlinked; a failed call, or what is not a regular file, stops it.       *)
RollBack ==
    /\ pc = "rollback"
    /\ \/ /\ i > 0 /\ ws[Held(i)].kind # "other"
          /\ ws' = Undone(i)
          /\ \/ /\ Step("rollback", i - 1)
                /\ UNCHANGED <<total, staged, root, backup, parents, durable, proven, outcome>>
             \/ Return("failed", FALSE)
       \/ /\ i > 0
          /\ Return("failed", FALSE)
          /\ UNCHANGED ws
       \/ /\ i = 0
          /\ Return("failed", proven)
          /\ UNCHANGED ws
    /\ UNCHANGED <<request, env, at, cancelled, original>>

Worker ==
    \/ Prepare \/ StageEntry \/ BeginApply \/ BackUpTarget \/ ValidateTarget
    \/ InstallChange \/ VerifyParents \/ Commit \/ RollBack

(***************************************************************************)
(* Everybody else.                                                         *)
(***************************************************************************)
(* Stop, lifetime expiry or a service failure cancels the update.          *)
Cancel ==
    /\ pc \notin {"prepare", "entry", "done"} /\ ~cancelled
    /\ cancelled' = TRUE
    /\ UNCHANGED <<worker, request, env, ws, at, original>>

(* A service edits a target in place, replaces or removes it.              *)
TouchFile(p) ==
    /\ pc \notin {"prepare", "entry", "done"} /\ budget > 0
    /\ \E x \in {<<p, 1>>, <<p, at[Dir[p]]>>} :
          /\ x[2] # 0
          /\ \E file \in {Foreign, Absent, OldOther, [ws[x] EXCEPT !.content = "foreign"]} :
                /\ ws[x] = Absent => file = Foreign
                /\ ws' = [ws EXCEPT ![x] = file]
          /\ touched' = touched \cup {x}
          /\ recent' = recent \cup {x}
    /\ budget' = budget - 1
    /\ UNCHANGED <<worker, request, at, cancelled, original, late>>

(* A service moves a directory away and may put another in its place.      *)
MoveDirectory(d) ==
    /\ pc \notin {"prepare", "entry", "done"} /\ budget > 0 /\ at[d] = 1
    /\ \E now \in {0, 2} : at' = [at EXCEPT ![d] = now]
    /\ late' = (late \/ pc = "commit" \/ (pc = "verify" /\ i > 1))
    /\ budget' = budget - 1
    /\ UNCHANGED <<worker, request, ws, cancelled, original, touched, recent>>

Next ==
    \/ Worker \/ Cancel
    \/ \E p \in Paths : TouchFile(p)
    \/ \E d \in DOMAIN at : MoveDirectory(d)
    \/ pc = "done" /\ UNCHANGED vars

Spec == Init /\ [][Next]_vars

(***************************************************************************)
(* Properties.                                                             *)
(***************************************************************************)
Same(file, other) == file.kind = other.kind /\ file.content = other.content

(* The workspace moves from one revision to the next or stays as it was:   *)
(* a successful update installed all of its changes, and one that was      *)
(* refused, or failed and claims a proven rollback, left every target with *)
(* its content, whatever moved meanwhile.  What the services themselves    *)
(* touched is theirs.                                                      *)
AllOrNothing ==
    /\ outcome = "ok" =>
          \A n \in 1 .. Len(changes) :
              Held(n) \in recent \/ ws[Held(n)] = Installed(n)
    /\ outcome \in {"refused", "failed"} /\ proven =>
          \A x \in DOMAIN ws \ touched : Same(ws[x], original[x])

(* A committed update is in the workspace, not in a directory that was     *)
(* moved out of it while the update ran (verify_parent_still_beneath).     *)
CommittedIsBeneath ==
    outcome = "ok" /\ ~late =>
        \A n \in 1 .. Len(changes) :
            Target(n)[2] # 0 /\ (Target(n) \in recent \/ ws[Target(n)] = Installed(n))

(* Only bytes with the declared hash reach the workspace, only files of    *)
(* the request are replaced, and nothing at all before the whole archive   *)
(* was verified.                                                           *)
OnlyVerifiedBytes ==
    \A x \in DOMAIN ws :
        ws[x].content = "new" =>
            x[1] \in Declared /\ \A p \in Declared : [path |-> p, verified |-> TRUE] \in staged

(* The refinement: what the session makes of this update.                  *)
PhaseOf ==
    CASE pc \in {"prepare", "entry"}         -> "idle"
      [] pc \in {"apply", "backup"}          -> "apply"
      [] pc \in {"validate", "install", "verify", "commit"} ->
             IF parents = <<>> THEN "apply" ELSE "mutated"
      [] pc = "rollback"                     ->
             IF parents = <<>> THEN "apply" ELSE IF proven THEN "undo" ELSE "undoUnproven"
      [] pc = "done" /\ outcome = "refused"  -> "over"
      [] pc = "done" /\ outcome = "ok"       -> "committed"
      [] OTHER                               -> IF proven THEN "rolledBack" ELSE "unprovable"
DirtyOf ==
    /\ outcome # "ok" /\ pc \in {"install", "validate", "verify", "commit", "rollback", "done"}
    /\ \E x \in DOMAIN ws \ touched : ~Same(ws[x], original[x])

Contract == INSTANCE UpdateContract WITH phase <- PhaseOf, dirty <- DirtyOf

(* The file operations implement the update the session relies on.         *)
ImplementsUpdateContract == Contract!Spec

=============================================================================
