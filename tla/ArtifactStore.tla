--------------------------- MODULE ArtifactStore ---------------------------
(***************************************************************************)
(* The artifact store (src/artifacts.rs): snapshots of a workspace are     *)
(* collected into <storage_root>/<id>/artifacts.zip, downloaded by id, and *)
(* removed by the garbage collector's thread.                              *)
(*                                                                         *)
(* The workspace is a retained one, so its services go on writing while a  *)
(* snapshot is taken; operations of a session are serialized, so one       *)
(* snapshot of it is taken at a time.  A pattern is the literal prefix the *)
(* walk is pruned to and the set of paths the pattern matches.  A version  *)
(* of a file stands for its device and inode.  Of modification times only  *)
(* the age is kept, in steps of the clock and up to one past ttl_sec.      *)
(***************************************************************************)
EXTENDS Naturals, Sequences, FiniteSets, FiniteSetsExt, SequencesExt

CONSTANTS
    MaxSnapshots,     \* bound: snapshots taken
    Paths,            \* relative paths of the workspace, as sequences of names
    Workspaces,       \* workspaces a snapshot may find
    Written,          \* paths the session's services write to
    Include, Exclude, Restricted,   \* sets of patterns
    Fold(_),          \* ASCII case folding of a path
    MaxFiles, MaxDepth, MaxUncompressed,   \* artifacts.max_*
    TtlSec,           \* artifacts.ttl_sec, in clock steps
    MaxBytes,         \* artifacts.max_bytes
    MaxChanges,       \* bound: writes of the services
    MaxFaults         \* bound: daemon restarts and failed removals

\* What a workspace may hold; services write below it.
ASSUME StoreAssumption ==
    /\ MaxSnapshots \in Nat
    /\ TtlSec \in Nat
    /\ Workspaces \subseteq
          [Paths -> [kind : {"none", "file", "link"}, ver : Nat, size : Nat]]
    /\ Written \subseteq Paths

\* The n-th snapshot is stored under a fresh identity, n for short.
Ids == 1..MaxSnapshots

VARIABLES
    files,      \* the workspace: path -> version, kind and size
    changes,    \* writes the services have made
    pc,         \* where the collection of each id is
    cancel,     \* the operation's cancellation
    matched,    \* versions the traversal recorded
    opened,     \* versions and sizes behind the open descriptors
    dir,        \* <storage_root>/<id>: "absent", "empty", "temp", "zip"
    age,        \* time since the newest modification in it
    archive,    \* contents of the written archive: paths and versions
    bytes,      \* its uncompressed size
    gc,         \* the collector's thread
    faults      \* daemon restarts and failed removals so far

vars == <<files, changes, pc, cancel, matched, opened, dir, age, archive, bytes,
          gc, faults>>

workspace == <<files, changes>>
snapshot == <<matched, opened, archive, bytes>>
store == <<dir, age>>

Collecting == {"walk", "open", "mkdir", "create", "write", "rename", "check"}

\* The steps of the publish closure: a failure in one removes the directory.
Publishing == {"create", "write", "rename", "check"}

\* The age past which an entry is expired; older ones are not told apart.
Expired == TtlSec + 1

Idle == [pc |-> "idle", todo |-> {}, entries |-> {}]

Init ==
    /\ files \in Workspaces
    /\ changes = 0
    /\ pc = [i \in Ids |-> "idle"]
    /\ cancel = [i \in Ids |-> FALSE]
    /\ matched = [i \in Ids |-> <<>>]
    /\ opened = [i \in Ids |-> <<>>]
    /\ dir = [i \in Ids |-> "absent"]
    /\ age = [i \in Ids |-> 0]
    /\ archive = [i \in Ids |-> {}]
    /\ bytes = [i \in Ids |-> 0]
    /\ gc = Idle
    /\ faults = 0

-----------------------------------------------------------------------------
(* What a snapshot selects.                                                *)

Matches(patterns, p) == \E pat \in patterns : p \in pat.matches

Ancestors(p) == {SubSeq(p, 1, n) : n \in 1..Len(p)}

\* artifact_walk_prefixes: literal prefixes without the ones below another.
WalkPrefixes ==
    LET prefixes == {pat.literal : pat \in Include}
    IN  {a \in prefixes : \A q \in prefixes \ {a} : ~IsPrefix(q, a)}

\* Entries the walk visits: files and directories on or below a prefix, or
\* above one.
Walked ==
    LET present == {p \in Paths : files[p].kind # "none"}
        entries == UNION {Ancestors(p) : p \in present}
    IN  {e \in entries : \E q \in WalkPrefixes : IsPrefix(q, e) \/ IsPrefix(e, q)}

\* TraversalLimits::observe over the whole walk.
WithinTraversalLimits ==
    /\ \A e \in Walked : Len(e) <= MaxDepth
    /\ Cardinality(Walked) <= MaxFiles

IsExcluded(p) == Matches(Exclude, p)

\* A file is included when a pattern matches it or a directory above it.
IsIncluded(p) == \E a \in Ancestors(p) : Matches(Include, a)

Selected ==
    {p \in Paths : files[p].kind # "none" /\ p \in Walked /\ ~IsExcluded(p) /\ IsIncluded(p)}

\* require_regular_file for each selected entry.
AllRegular == \A p \in Selected : files[p].kind = "file"

\* apply_restricted_patterns drops what a restricted pattern matches.
Unrestricted == {p \in Selected : ~Matches(Restricted, p)}

\* validate_artifact_count_and_depth: the archive's names must stay apart on
\* a case-insensitive file system.
ValidCountAndDepth(sel) ==
    /\ Cardinality(sel) <= MaxFiles
    /\ \A p \in sel : Len(p) <= MaxDepth
    /\ \A p, q \in sel : Fold(p) = Fold(q) => p = q

SumOf(f, S) == FoldSet(LAMBDA p, acc : f[p].size + acc, 0, S)

-----------------------------------------------------------------------------
(* collect_artifacts_zip_controlled, one checkpoint per step.              *)

\* The operations of one session do not overlap.
Start(i) ==
    /\ pc[i] = "idle"
    /\ \A j \in Ids : pc[j] \notin Collecting
    /\ \A j \in 1..(i - 1) : pc[j] # "idle"
    /\ pc' = [pc EXCEPT ![i] = "walk"]
    /\ UNCHANGED <<workspace, cancel, snapshot, store, gc, faults>>

\* The action is cancelled: its client left, its session ends.
Cancel(i) ==
    /\ pc[i] \in Collecting
    /\ ~cancel[i]
    /\ cancel' = [cancel EXCEPT ![i] = TRUE]
    /\ UNCHANGED <<workspace, pc, snapshot, store, gc, faults>>

\* fs::remove_dir_all; what is not there any more stays so.
RemoveDir(i) ==
    /\ dir' = [dir EXCEPT ![i] = "absent"]
    /\ age' = [age EXCEPT ![i] = 0]
    /\ UNCHANGED faults

\* A removal that fails, having removed nothing or the file in the directory.
KeepDir(i) ==
    /\ faults < MaxFaults
    /\ dir[i] # "absent"
    /\ faults' = faults + 1
    /\ dir' \in {dir, [dir EXCEPT ![i] = "empty"]}
    /\ UNCHANGED age

\* The collection ends and its directory is removed; nobody looks at the
\* outcome of the removal, which the model keeps as "failed" or "left".
CleanUp(i) ==
    \/ RemoveDir(i) /\ pc' = [pc EXCEPT ![i] = "failed"]
    \/ KeepDir(i) /\ pc' = [pc EXCEPT ![i] = "left"]

\* An error of the collection: the publish closure's directory is removed.
Fail(i) ==
    /\ \/ pc[i] \in Publishing /\ CleanUp(i)
       \/ /\ pc[i] \notin Publishing
          /\ pc' = [pc EXCEPT ![i] = "failed"]
          /\ UNCHANGED <<store, faults>>
    /\ opened' = [opened EXCEPT ![i] = <<>>]
    /\ UNCHANGED <<matched, archive, bytes>>

\* The traversal records the version of every file it selects.
Walk(i) ==
    /\ pc[i] = "walk"
    /\ IF cancel[i] \/ ~WithinTraversalLimits \/ ~AllRegular
          \/ ~ValidCountAndDepth(Unrestricted)
       THEN Fail(i)
       ELSE /\ IF Unrestricted = {}
               THEN pc' = [pc EXCEPT ![i] = "none"] /\ UNCHANGED matched
               ELSE /\ pc' = [pc EXCEPT ![i] = "open"]
                    /\ matched' = [matched EXCEPT ![i] =
                          [p \in Unrestricted |-> files[p].ver]]
            /\ UNCHANGED <<opened, archive, bytes, store, faults>>
    /\ UNCHANGED <<workspace, cancel, gc>>

\* Mutated traversal check: whatever has the name is taken.
SameFileByName(i, p) == files[p].kind = "file"

\* The opened descriptor is a regular file and the one the traversal saw.
SameFile(i, p) == files[p].kind = "file" /\ files[p].ver = matched[i][p]

\* open_matched_artifacts beneath the root, and the first size check.
Open(i) ==
    /\ pc[i] = "open"
    /\ IF \/ cancel[i]
          \/ \E p \in DOMAIN matched[i] : ~SameFile(i, p)
          \/ SumOf(files, DOMAIN matched[i]) > MaxUncompressed
       THEN Fail(i)
       ELSE /\ opened' = [opened EXCEPT ![i] =
                  [p \in DOMAIN matched[i] |-> [ver |-> files[p].ver, size |-> files[p].size]]]
            /\ pc' = [pc EXCEPT ![i] = "mkdir"]
            /\ UNCHANGED <<matched, archive, bytes, store, faults>>
    /\ UNCHANGED <<workspace, cancel, gc>>

\* create_dir_all and set_permissions; an error of either returns before the
\* closure whose errors remove the directory.
MakeDir(i) ==
    /\ pc[i] = "mkdir"
    /\ \/ /\ dir' = [dir EXCEPT ![i] = "empty"]
          /\ pc' = [pc EXCEPT ![i] = "create"]
          /\ UNCHANGED opened
       \/ Fail(i)
       \/ /\ dir' = [dir EXCEPT ![i] = "empty"]
          /\ pc' = [pc EXCEPT ![i] = "left"]
          /\ opened' = [opened EXCEPT ![i] = <<>>]
    /\ UNCHANGED <<workspace, cancel, matched, archive, bytes, age, gc, faults>>

\* File::create of the temporary archive, which needs its directory.
CreateTemp(i) ==
    /\ pc[i] = "create"
    /\ IF cancel[i] \/ dir[i] = "absent"
       THEN Fail(i)
       ELSE /\ dir' = [dir EXCEPT ![i] = "temp"]
            /\ age' = [age EXCEPT ![i] = 0]
            /\ pc' = [pc EXCEPT ![i] = "write"]
            /\ UNCHANGED <<snapshot, faults>>
    /\ UNCHANGED <<workspace, cancel, gc>>

\* write_artifacts_zip reads the descriptors to their present end and counts
\* again; a temporary file that is gone fails the final stat, and the writer
\* may hit max_transfer_bytes.
WriteZip(i) ==
    /\ pc[i] = "write"
    /\ \/ Fail(i)
       \/ /\ ~cancel[i]
          /\ dir[i] = "temp"
          /\ SumOf(opened[i], DOMAIN opened[i]) <= MaxUncompressed
          /\ archive' = [archive EXCEPT ![i] =
                {<<p, opened[i][p].ver>> : p \in DOMAIN opened[i]}]
          /\ bytes' = [bytes EXCEPT ![i] = SumOf(opened[i], DOMAIN opened[i])]
          /\ age' = [age EXCEPT ![i] = 0]
          /\ pc' = [pc EXCEPT ![i] = "rename"]
          /\ UNCHANGED <<matched, opened, dir, faults>>
    /\ UNCHANGED <<workspace, cancel, gc>>

\* The rename publishes the archive in one step.
Publish(i) ==
    /\ pc[i] = "rename"
    /\ IF cancel[i] \/ dir[i] # "temp"
       THEN Fail(i)
       ELSE /\ dir' = [dir EXCEPT ![i] = "zip"]
            /\ pc' = [pc EXCEPT ![i] = "check"]
            /\ UNCHANGED <<snapshot, age, faults>>
    /\ UNCHANGED <<workspace, cancel, gc>>

\* A cancellation that raced the rename takes the archive back.
CheckPublished(i) ==
    /\ pc[i] = "check"
    /\ IF cancel[i]
       THEN Fail(i)
       ELSE /\ pc' = [pc EXCEPT ![i] = "reported"]
            /\ opened' = [opened EXCEPT ![i] = <<>>]
            /\ UNCHANGED <<matched, archive, bytes, store, faults>>
    /\ UNCHANGED <<workspace, cancel, gc>>

\* A session action whose final event is not acknowledged removes the archive
\* it already published.
Discard(i) ==
    /\ pc[i] = "reported"
    /\ CleanUp(i)
    /\ UNCHANGED <<workspace, cancel, snapshot, gc>>

-----------------------------------------------------------------------------
(* The garbage collector's thread.                                         *)

Present == {i \in Ids : dir[i] # "absent"}

\* Mutated scan: a directory without a file counts as just modified.
ScanEmptyAsFresh(i) ==
    [id |-> i, published |-> dir[i] = "zip",
     size |-> IF dir[i] = "empty" THEN 0 ELSE 1,
     age |-> IF dir[i] = "empty" THEN 0 ELSE age[i]]

\* What scan_entry adds up: no regular file at all is size 0 and the epoch.
\* published is kept for TtlSparesFresh only.
Scan(i) ==
    [id |-> i, published |-> dir[i] = "zip",
     size |-> IF dir[i] = "empty" THEN 0 ELSE 1,
     age |-> IF dir[i] = "empty" THEN Expired ELSE age[i]]

\* gc_artifacts starts by listing the root; without entries the pass is over.
GcStart ==
    /\ gc.pc = "idle"
    /\ IF Present = {} THEN UNCHANGED gc
       ELSE gc' = [gc EXCEPT !.pc = "scan", !.todo = Present]
    /\ UNCHANGED <<workspace, pc, cancel, snapshot, store, faults>>

\* scan_artifact_entries; an entry that is gone by now fails the whole pass.
GcScan(i) ==
    /\ gc.pc = "scan"
    /\ i \in gc.todo
    /\ IF dir[i] = "absent" THEN gc' = Idle
       ELSE gc' = [gc EXCEPT !.todo = @ \ {i}, !.entries = @ \cup {Scan(i)}]
    /\ UNCHANGED <<workspace, pc, cancel, snapshot, store, faults>>

\* Mutated cutoff: an archive exactly ttl_sec old is expired.
GcCutoffInclusive ==
    /\ gc.pc = "scan"
    /\ gc.todo = {}
    /\ gc' = [gc EXCEPT !.pc = "ttl", !.todo = {e \in gc.entries : e.age >= TtlSec}]
    /\ UNCHANGED <<workspace, pc, cancel, snapshot, store, faults>>

\* The age is compared with one cutoff for the pass.
GcCutoff ==
    /\ gc.pc = "scan"
    /\ gc.todo = {}
    /\ gc' = [gc EXCEPT !.pc = "ttl", !.todo = {e \in gc.entries : e.age = Expired}]
    /\ UNCHANGED <<workspace, pc, cancel, snapshot, store, faults>>

\* One removal of a pass: an entry that is gone or that cannot be removed
\* stays on the list.
GcRemove(e) ==
    /\ \/ /\ RemoveDir(e.id)
          /\ gc' = [gc EXCEPT !.todo = @ \ {e},
                              !.entries = IF dir[e.id] = "absent" THEN @ ELSE @ \ {e}]
       \/ /\ KeepDir(e.id)
          /\ gc' = [gc EXCEPT !.todo = @ \ {e}]
    /\ UNCHANGED <<workspace, pc, cancel, snapshot>>

\* An expired entry is removed; the size pass works on what is still listed.
GcExpire(e) ==
    /\ gc.pc = "ttl"
    /\ e \in gc.todo
    /\ GcRemove(e)

Total(entries) == FoldSet(LAMBDA e, acc : e.size + acc, 0, entries)

GcSize ==
    /\ gc.pc = "ttl"
    /\ gc.todo = {}
    /\ gc' = [gc EXCEPT !.pc = "size", !.todo = gc.entries]
    /\ UNCHANGED <<workspace, pc, cancel, snapshot, store, faults>>

\* Oldest first while the total is above max_bytes; only a removal that
\* succeeds lowers the total.
GcShrink(e) ==
    /\ gc.pc = "size"
    /\ e \in gc.todo
    /\ Total(gc.entries) > MaxBytes
    /\ \A f \in gc.todo : e.age >= f.age
    /\ GcRemove(e)

GcDone ==
    /\ gc.pc = "size"
    /\ gc.todo = {} \/ Total(gc.entries) <= MaxBytes
    /\ gc' = Idle
    /\ UNCHANGED <<workspace, pc, cancel, snapshot, store, faults>>

-----------------------------------------------------------------------------
(* The environment.                                                        *)

\* A service of the session replaces a file, by a file or by a symlink.
Replace(p) ==
    /\ changes < MaxChanges
    /\ files[p].kind # "none"
    /\ changes' = changes + 1
    /\ \E k \in {"file", "link"} :
        files' = [files EXCEPT ![p] = [kind |-> k, ver |-> @.ver + 1, size |-> 1]]
    /\ UNCHANGED <<pc, cancel, snapshot, store, gc, faults>>

\* A service appends to a file: descriptors of that version see it.
Extend(p) ==
    /\ changes < MaxChanges
    /\ files[p].kind = "file"
    /\ changes' = changes + 1
    /\ files' = [files EXCEPT ![p].size = @ + 1]
    /\ opened' = [i \in Ids |-> [q \in DOMAIN opened[i] |->
          IF q = p /\ opened[i][q].ver = files[p].ver
          THEN [opened[i][q] EXCEPT !.size = @ + 1] ELSE opened[i][q]]]
    /\ UNCHANGED <<pc, cancel, matched, archive, bytes, store, gc, faults>>

\* Time passes for the directories and for what the collector scanned.
Older(a) == IF a = Expired THEN Expired ELSE a + 1

Aged(entries) == {[e EXCEPT !.age = Older(@)] : e \in entries}

Tick ==
    /\ age' = [i \in Ids |-> IF dir[i] \in {"temp", "zip"} THEN Older(age[i]) ELSE age[i]]
    /\ gc' = [gc EXCEPT !.entries = Aged(@),
                        !.todo = IF gc.pc = "scan" THEN @ ELSE Aged(@)]
    /\ UNCHANGED <<workspace, pc, cancel, snapshot, dir, faults>>

\* The daemon dies and starts again: collections are lost, the store stays as
\* it is.
Crash ==
    /\ faults < MaxFaults
    /\ faults' = faults + 1
    /\ pc' = [i \in Ids |-> IF pc[i] \in Collecting THEN "lost" ELSE pc[i]]
    /\ opened' = [i \in Ids |-> <<>>]
    /\ gc' = Idle
    /\ UNCHANGED <<workspace, cancel, matched, archive, bytes, store>>

-----------------------------------------------------------------------------

Collect(i) ==
    \/ Walk(i) \/ Open(i) \/ MakeDir(i) \/ CreateTemp(i) \/ WriteZip(i)
    \/ Publish(i) \/ CheckPublished(i)

Gc ==
    \/ GcStart \/ GcCutoff \/ GcSize \/ GcDone
    \/ \E i \in Ids : GcScan(i)
    \/ \E e \in gc.todo : gc.pc \in {"ttl", "size"} /\ (GcExpire(e) \/ GcShrink(e))

Next ==
    \/ \E i \in Ids : Start(i) \/ Cancel(i) \/ Collect(i) \/ Discard(i)
    \/ Gc
    \/ \E p \in Written : Replace(p) \/ Extend(p)
    \/ Tick \/ Crash

Spec == Init /\ [][Next]_vars

(***************************************************************************)
(* Fairness.  The collector's thread wakes up again after every pass, the  *)
(* clock goes on, a collection that runs comes to its end, and removals    *)
(* fail MaxFaults times at most.                                           *)
(***************************************************************************)
FairSpec ==
    /\ Spec
    /\ WF_vars(Gc)
    /\ WF_vars(Tick)
    /\ \A i \in Ids : WF_vars(Collect(i))

-----------------------------------------------------------------------------

(***************************************************************************)
(* An archive that can be downloaded holds exactly what the traversal      *)
(* selected: versions of regular files it saw, none of them excluded or    *)
(* restricted, no more bytes than max_uncompressed_bytes, although the     *)
(* services replace and append to the files between the traversal, the     *)
(* opening and the reading.  A collection that failed, or whose archive    *)
(* was taken back, has left nothing in the store, unless its directory     *)
(* could not be protected or the removal itself failed ("left"): the code  *)
(* drops that error, and what is left is the collector's to remove.        *)
(***************************************************************************)
ArchiveIsWhatWasSelected ==
    \A i \in Ids :
        /\ dir[i] = "zip" =>
            /\ archive[i] = {<<p, matched[i][p]>> : p \in DOMAIN matched[i]}
            /\ \A e \in archive[i] :
                IsIncluded(e[1]) /\ ~IsExcluded(e[1]) /\ ~Matches(Restricted, e[1])
            /\ bytes[i] <= MaxUncompressed
        /\ pc[i] = "failed" => dir[i] = "absent"

(***************************************************************************)
(* The pass over expired entries takes away no archive younger than        *)
(* ttl_sec, except one that was not yet published when its directory was   *)
(* scanned: an empty directory counts as modified at the epoch, and the    *)
(* temporary file may be old.                                              *)
(***************************************************************************)
TtlSparesFresh ==
    [][ \A i \in Ids : (dir[i] = "zip" /\ dir'[i] # "zip" /\ gc.pc = "ttl" /\ gc' # gc) =>
          \/ age[i] = Expired
          \/ \E e \in gc.todo : e.id = i /\ ~e.published ]_vars

(***************************************************************************)
(* What is in the store does not stay for ever: an archive past its TTL,   *)
(* and what a crash or a failed removal left, are removed by a later pass, *)
(* although entries that vanish under the scan make whole passes fail.     *)
(***************************************************************************)
StoreIsEmptied ==
    \A i \in Ids : (dir[i] # "absent" /\ pc[i] \notin Collecting) ~> dir[i] = "absent"

=============================================================================
