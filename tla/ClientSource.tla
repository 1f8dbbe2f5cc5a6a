---------------------------- MODULE ClientSource ----------------------------
(***************************************************************************)
(* How the client packages the source it uploads (src/client_source.rs):   *)
(* a blocking worker that reads either one pinned Jujutsu commit or the    *)
(* files themselves, while editors go on changing the tree and the command *)
(* that started it may cancel it.                                          *)
(*                                                                         *)
(* A path holds nothing, or an inode and a version; the version stands for *)
(* length, modification time and content, the target for a symlink.  A     *)
(* file is read in two halves.                                             *)
(***************************************************************************)
EXTENDS Naturals, Sequences, FiniteSets, Functions

CONSTANTS
    Order,        \* the paths, in the order of their bytes
    Links,        \* the paths that are symlinks
    Present,      \* the paths the tree starts with
    Declared,     \* --file paths of an update
    Deleted,      \* --delete paths of an update
    Fold(_),      \* ASCII case folding of a path
    MaxEdits      \* bound: edits of the tree

VARIABLES
    tree,         \* path -> inode and version, 0 for none
    edits,        \* edits so far; each makes a new inode or version
    kind,         \* what is packaged: [jj, update]
    step,         \* where the worker is
    cancelled,    \* SourceCancellation::cancelled
    commit,       \* the pinned commit
    plan,         \* planned entries: path -> what was recorded of it
    todo,         \* paths the current pass has left
    file,         \* the descriptor being read
    archive,      \* path -> the halves written for it
    ws,           \* the temporary workspace: "none", "registered", "forgotten"
    unclean,      \* `workspace forget` failed
    result,       \* of the worker: "none", "ok", "failed", "interrupted"
    before        \* history: the tree when the last read had ended

source == <<tree, edits, kind, step, cancelled, commit, plan, todo, file,
            archive, ws, unclean, result, before>>

Paths == Range(Order)

Nothing == [ino |-> 0, ver |-> 0]

NoFile == [path |-> <<>>, ino |-> 0, opened |-> 0, now |-> 0, half |-> 0]

With(f, p, x) == [q \in DOMAIN f \cup {p} |-> IF q = p THEN x ELSE f[q]]

Held(t) == {p \in Paths : t[p] # Nothing}

\* Outside an enumeration the paths are taken in the order of their bytes.
Position(p) == CHOOSE i \in DOMAIN Order : Order[i] = p

Foremost(p) == p \in todo /\ \A q \in todo : Position(p) <= Position(q)

SourceInit ==
    /\ tree = [p \in Paths |-> IF p \in Present THEN [ino |-> 1, ver |-> 1] ELSE Nothing]
    /\ edits = 0
    /\ kind \in [jj : BOOLEAN, update : BOOLEAN]
    /\ step = "idle"
    /\ cancelled = FALSE
    /\ commit = tree
    /\ plan = <<>>
    /\ todo = {}
    /\ file = NoFile
    /\ archive = <<>>
    /\ ws = "none"
    /\ unclean = FALSE
    /\ result = "none"
    /\ before = tree

-----------------------------------------------------------------------------
(* The user's editors.  A write shows through a descriptor that is open on *)
(* the inode; a replacement or a removal leaves the descriptor alone.      *)

EditTo(p, x) ==
    /\ result = "none"
    /\ step # "idle"
    /\ edits < MaxEdits
    /\ edits' = edits + 1
    /\ tree' = [tree EXCEPT ![p] = x]
    /\ UNCHANGED <<kind, step, cancelled, commit, plan, todo, archive, ws, unclean, result, before>>

Write(p) ==
    /\ p \in Held(tree) \ Links
    /\ EditTo(p, [tree[p] EXCEPT !.ver = edits + 2])
    /\ file' = IF file.path = p /\ file.ino = tree[p].ino
                 THEN [file EXCEPT !.now = edits + 2] ELSE file

Replace(p) == EditTo(p, [ino |-> edits + 2, ver |-> edits + 2]) /\ UNCHANGED file

Unlink(p) == p \in Held(tree) /\ EditTo(p, Nothing) /\ UNCHANGED file

Edit == \E p \in Paths : Write(p) \/ Replace(p) \/ Unlink(p)

-----------------------------------------------------------------------------
(* The worker's outcomes.                                                  *)

unedited == <<tree, edits, kind, cancelled>>

End(r) == step' = "ended" /\ result' = r

\* An error of the step: a command or a read failed, a check refused.
Fail == End("failed") /\ UNCHANGED <<unedited, commit, plan, todo, file, archive, ws, unclean, before>>

\* Where the code polls SourceCancellation::check; a running jj is killed with
\* its group and reaped.
CheckPoint ==
    \/ step \in {"package", "pin", "list", "links", "stat"}
    \/ step \in {"stream", "walk", "rewalk"} /\ todo # {}
    \/ step = "read" /\ file.half < 2
    \/ step = "open" /\ kind.update
    \/ step = "recheck" /\ todo = Declared

Going == cancelled => ~CheckPoint

Check ==
    /\ ~Going
    /\ IF step = "links"
         THEN /\ step' = "forget"
              /\ result' = "interrupted"
         ELSE End("interrupted")
    /\ UNCHANGED <<unedited, commit, plan, todo, file, archive, ws, unclean, before>>

\* package_source_cancellable and package_update_source_cancellable.
Package ==
    /\ step = "package"
    /\ Going
    /\ \/ /\ step' = IF kind.jj THEN "pin" ELSE IF kind.update THEN "absent" ELSE "walk"
          /\ todo' = Paths
          /\ UNCHANGED <<unedited, commit, plan, file, archive, ws, unclean, result, before>>
       \/ Fail

-----------------------------------------------------------------------------
(* package_jj and package_jj_update: everything is read at one commit.     *)

\* `jj log -r @` takes the working copy into a commit and names it.
Pin ==
    /\ step = "pin"
    /\ Going
    /\ \/ /\ commit' = tree
          /\ step' = "list"
          /\ UNCHANGED <<unedited, plan, todo, file, archive, ws, unclean, result, before>>
       \/ Fail

\* validate_planned_entries: names stay apart on a case-insensitive file
\* system, also a name and a directory above another.
Above(p) == {SubSeq(p, 1, n) : n \in 1..(Len(p) - 1)}

ValidPlannedEntries(ps) ==
    \A p, q \in ps : p # q => Fold(p) # Fold(q) /\ Fold(p) \notin {Fold(a) : a \in Above(q)}

\* An update's files are regular at the pin and its deletes are absent there.
UpdateFitsCommit ==
    /\ Declared \subseteq Held(commit) \ Links
    /\ Deleted \cap Held(commit) = {}

ListEntries(entries, next) ==
    /\ plan' = [p \in entries |-> commit[p]]
    /\ todo' = entries
    /\ step' = next
    /\ UNCHANGED <<unedited, commit, file, archive, ws, unclean, result, before>>

ListTree ==
    /\ step = "list"
    /\ ~kind.update
    /\ Going
    /\ \/ /\ ValidPlannedEntries(Held(commit))
          /\ ListEntries(Held(commit), IF Held(commit) \cap Links # {} THEN "add" ELSE "stream")
       \/ Fail

ListUpdate ==
    /\ step = "list"
    /\ kind.update
    /\ Going
    /\ \/ UpdateFitsCommit /\ ListEntries(Declared, "stream")
       \/ Fail

\* populate_jj_symlink_targets: `workspace add` may register the workspace and
\* still fail, or be killed; the guard is armed before it runs.
WorkspaceAdd ==
    /\ step = "add"
    /\ \/ /\ ~cancelled
          /\ ws' = "registered"
          /\ step' = "links"
          /\ UNCHANGED result
       \/ /\ ws' \in {"none", "registered"}
          /\ step' = "forget"
          /\ result' = IF cancelled THEN "interrupted" ELSE "failed"
    /\ UNCHANGED <<unedited, commit, plan, todo, file, archive, unclean, before>>

ReadLinks ==
    /\ step = "links"
    /\ Going
    /\ step' = "forget"
    /\ result' \in {"none", "failed"}
    /\ UNCHANGED <<unedited, commit, plan, todo, file, archive, ws, unclean, before>>

\* WorkspaceCleanupGuard::finish: `workspace forget` runs outside the
\* cancellation and within its own limit; its failure is part of the result.
Forget ==
    /\ step = "forget"
    /\ \E ok \in BOOLEAN :
          /\ ws' = IF ok /\ ws = "registered" THEN "forgotten" ELSE ws
          /\ unclean' = ~ok
          /\ step' = IF ok /\ result = "none" THEN "stream" ELSE "ended"
          /\ result' = IF ~ok /\ result = "none" THEN "failed" ELSE result
    /\ UNCHANGED <<unedited, commit, plan, todo, file, archive, before>>

\* One entry after the other: a file from `jj file show` at the pin
\* (stream_jj_file), a symlink from the target read before.
StreamEntry(p) ==
    /\ archive' = With(archive, p, <<commit[p].ver, commit[p].ver>>)
    /\ todo' = todo \ {p}
    /\ UNCHANGED <<unedited, commit, plan, file, step, ws, unclean, result, before>>

StreamFile ==
    /\ step = "stream"
    /\ Going
    /\ \E p \in todo \ Links : Foremost(p) /\ (StreamEntry(p) \/ Fail)

StreamLink ==
    /\ step = "stream"
    /\ Going
    /\ \E p \in todo \cap Links : Foremost(p) /\ StreamEntry(p)

\* finish_package and finish_update_package hash the archive.
FinishPackage ==
    /\ ~kind.update
    /\ step \in {"stream", "rewalk"}
    /\ todo = {}
    /\ \E r \in {"ok", "failed"} : End(r)
    /\ UNCHANGED <<unedited, commit, plan, todo, file, archive, ws, unclean, before>>

FinishUpdatePackage ==
    /\ kind.update
    /\ step = "finish" \/ (step = "stream" /\ todo = {})
    /\ \E r \in {"ok", "failed"} : End(r)
    /\ UNCHANGED <<unedited, commit, plan, todo, file, archive, ws, unclean, before>>

-----------------------------------------------------------------------------
(* package_filesystem_with_hooks and package_filesystem_update.            *)

\* What enumerate_filesystem records of a path: a file's kind, a link's target.
Planned(p) == IF p \in Links THEN tree[p].ver ELSE 0

\* One path of the first enumeration, in the order the directories are read;
\* sorting and validation follow the last one.
Walk ==
    /\ step = "walk"
    /\ Going
    /\ \/ /\ \E p \in todo :
                /\ plan' = IF p \in Held(tree) THEN With(plan, p, Planned(p)) ELSE plan
                /\ todo' = todo \ {p}
          /\ UNCHANGED <<step, result>>
       \/ /\ todo = {}
          /\ ValidPlannedEntries(DOMAIN plan)
          /\ step' = "stat"
          /\ todo' = DOMAIN plan
          /\ UNCHANGED <<plan, result>>
       \/ End("failed") /\ UNCHANGED <<plan, todo>>
    /\ UNCHANGED <<unedited, commit, file, archive, ws, unclean, before>>

\* require_absent_nofollow, before the files are read and again at the end.
RequireAbsent ==
    /\ step \in {"absent", "absent again"}
    /\ Going
    /\ IF Deleted \cap Held(tree) # {} THEN End("failed") /\ UNCHANGED todo
       ELSE /\ step' = IF step = "absent again" THEN "finish"
                       ELSE IF Declared = {} THEN "recheck" ELSE "open"
            /\ todo' = Declared
            /\ UNCHANGED result
    /\ UNCHANGED <<unedited, commit, plan, file, archive, ws, unclean, before>>

\* symlink_metadata of the next file.
Stat ==
    /\ step = "stat"
    /\ Going
    /\ \E p \in todo \ Links :
          /\ Foremost(p)
          /\ IF p \notin Held(tree) THEN Fail
             ELSE /\ file' = [NoFile EXCEPT !.path = p, !.ino = tree[p].ino]
                  /\ step' = "open"
                  /\ UNCHANGED <<unedited, commit, plan, todo, archive, ws, unclean, result, before>>

\* A symlink's target must still be the enumerated one.
PackLink ==
    /\ step = "stat"
    /\ Going
    /\ \E p \in todo \cap Links :
          /\ Foremost(p)
          /\ IF p \notin Held(tree) \/ tree[p].ver # plan[p] THEN Fail
             ELSE /\ archive' = With(archive, p, <<plan[p], plan[p]>>)
                  /\ todo' = todo \ {p}
                  /\ UNCHANGED <<unedited, commit, plan, file, step, ws, unclean, result, before>>

\* The descriptor must be the inode that was looked at; an update opens first
\* and takes the metadata from the descriptor (open_relative_nofollow).
Open ==
    /\ step = "open"
    /\ Going
    /\ \E p \in todo :
          /\ Foremost(p)
          /\ IF p \notin Held(tree) \ Links \/ (~kind.update /\ tree[p].ino # file.ino) THEN Fail
             ELSE /\ file' = [path |-> p, ino |-> tree[p].ino, opened |-> tree[p].ver,
                              now |-> tree[p].ver, half |-> 0]
                  /\ step' = "read"
                  /\ UNCHANGED <<unedited, commit, plan, todo, archive, ws, unclean, result, before>>

\* The read loop, a half at a time; then the descriptor's metadata must be
\* what it was when it was opened.
ReadHalf(p) ==
    /\ file.half < 2
    /\ archive' = With(archive, p,
                       IF file.half = 0 THEN <<file.now>> ELSE Append(archive[p], file.now))
    /\ file' = [file EXCEPT !.half = @ + 1]
    /\ UNCHANGED <<step, plan, todo, result, before>>

\* Without the metadata check after the read loop.
UnchangedUnchecked == TRUE

Unchanged == file.now = file.opened

CloseFile(p) ==
    /\ file.half = 2
    /\ IF Unchanged
         THEN /\ plan' = IF kind.update THEN With(plan, p, [ino |-> file.ino, ver |-> file.opened])
                         ELSE plan
              /\ LET last == kind.update /\ todo = {p}
                 IN  /\ todo' = IF last THEN Declared ELSE todo \ {p}
                     /\ step' = IF last THEN "recheck" ELSE IF kind.update THEN "open" ELSE "stat"
              /\ before' = tree
              /\ UNCHANGED result
         ELSE End("failed") /\ UNCHANGED <<plan, todo, before>>
    /\ file' = NoFile
    /\ UNCHANGED archive

Read ==
    /\ step = "read"
    /\ Going
    /\ ReadHalf(file.path) \/ CloseFile(file.path)
    /\ UNCHANGED <<unedited, commit, ws, unclean>>

\* All files read: the enumeration is repeated.
StartRewalk ==
    /\ step = "stat"
    /\ todo = {}
    /\ Going
    /\ step' = "rewalk"
    /\ todo' = Paths
    /\ UNCHANGED <<unedited, commit, plan, file, archive, ws, unclean, result, before>>

SamePlanned(p) ==
    IF p \in Held(tree) THEN p \in DOMAIN plan /\ plan[p] = Planned(p) ELSE p \notin DOMAIN plan

\* The second manifest must equal the first.
Rewalk ==
    /\ step = "rewalk"
    /\ Going
    /\ \E p \in todo :
          IF SamePlanned(p) THEN todo' = todo \ {p} /\ UNCHANGED <<step, result>>
          ELSE End("failed") /\ UNCHANGED todo
    /\ UNCHANGED <<unedited, commit, plan, file, archive, ws, unclean, before>>

\* An update looks at each of its files once more, then at its deletes.
SameFile(p) == tree[p] = plan[p]

Recheck ==
    /\ step = "recheck"
    /\ Going
    /\ \/ todo = {} /\ step' = "absent again" /\ UNCHANGED <<todo, result>>
       \/ \E p \in todo :
             /\ Foremost(p)
             /\ IF SameFile(p) THEN todo' = todo \ {p} /\ UNCHANGED <<step, result>>
                ELSE End("failed") /\ UNCHANGED todo
    /\ UNCHANGED <<unedited, commit, plan, file, archive, ws, unclean, before>>

-----------------------------------------------------------------------------

\* Steps on the client's own files, which end by themselves.
FileStep ==
    \/ Package \/ Walk \/ RequireAbsent \/ Stat \/ PackLink \/ Open \/ Read
    \/ StartRewalk \/ Rewalk \/ Recheck \/ FinishPackage \/ FinishUpdatePackage

\* Steps that wait for jj without a limit.
JjStep == Pin \/ ListTree \/ ListUpdate \/ WorkspaceAdd \/ ReadLinks \/ StreamFile \/ StreamLink

Worker == FileStep \/ JjStep \/ Forget \/ Check

Working == step \notin {"idle", "ended"}
=============================================================================
