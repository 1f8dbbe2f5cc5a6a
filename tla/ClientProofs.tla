---------------------------- MODULE ClientProofs ----------------------------
(***************************************************************************)
(* The safety of one invocation of the client, for every tree, every exit  *)
(* code and any number of failing writes and edits.                        *)
(***************************************************************************)
EXTENDS Client, TLAPS

(***************************************************************************)
(* Evidence.                                                               *)
(***************************************************************************)
Statuses == {"none", "preparing", "reading_input", "running", "ready", "succeeded", "failed",
             "interrupted"}
Records == [status : Statuses, id : BOOLEAN, errors : BOOLEAN,
            cleanup : {"none", "not attempted", "succeeded", "failed"}]

(* What any number of writes leave: the last record in memory, a failure   *)
(* remembered, and on disk what is in memory if none failed.               *)
Wrote(m) ==
    /\ mem' = m
    /\ faults' \in Nat /\ faults' >= faults
    /\ failed' \in BOOLEAN
    /\ failed' <=> failed \/ faults' > faults
    /\ ~failed' => disk' = m

(* SessionEvidence::write_provenance, one write after the other.           *)
LEMMA WritesFacts ==
    ASSUME NEW n \in Nat \ {0}, NEW ms, DOMAIN ms = 1..n, Len(ms) = n, faults \in Nat,
           failed \in BOOLEAN, Writes(ms)
    PROVE  Wrote(ms[n])
  <1>1. PICK bad \in SUBSET DOMAIN ms :
            /\ faults' = (IF bad = {} THEN faults ELSE faults + 1)
            /\ mem' = ms[Len(ms)]
            /\ disk' = IF DOMAIN ms \ bad = {} THEN disk ELSE ms[Max(DOMAIN ms \ bad)]
            /\ failed' = (failed \/ bad # {})
    BY Zenon DEF Writes
  <1>2. bad = {} => disk' = ms[n]
    <2>1. SUFFICES ASSUME bad = {} PROVE disk' = ms[n]
      OBVIOUS
    <2>2. DOMAIN ms \ bad = 1..n /\ 1..n # {} BY <2>1
    <2>3. Max(1..n) = n BY DEF Max
    <2> QED BY <1>1, <2>2, <2>3, Zenon
  <1>3. mem' = ms[n] BY <1>1, Zenon
  <1>4. faults' \in Nat /\ faults' >= faults /\ (faults' > faults <=> bad # {})
    BY <1>1
  <1> QED BY <1>1, <1>2, <1>3, <1>4, Zenon DEF Wrote

(* The writes of one step end with the record that matters.                *)
LEMMA LastWrite ==
    ASSUME faults \in Nat, failed \in BOOLEAN, NEW s \in Seq(Records), NEW a \in Records, NEW b \in Records
    PROVE  /\ Writes(<<b>>) => Wrote(b)
           /\ Writes(<<a, b>>) => Wrote(b)
           /\ Writes(s \o <<b>>) => Wrote(b)
           /\ Writes(s \o <<a, b>>) => Wrote(b)
           /\ \A r \in Seq(Records) : Writes(s \o (r \o <<a, b>>)) => Wrote(b)
  <1>1. Writes(<<b>>) => Wrote(b)
    <2> DEFINE t == <<b>>
    <2>1. DOMAIN t = 1..1 /\ Len(t) = 1 /\ t[1] = b OBVIOUS
    <2> HIDE DEF t
    <2>2. Writes(t) => Wrote(b) BY <2>1, WritesFacts
    <2> QED BY <2>2 DEF t
  <1>2. Writes(<<a, b>>) => Wrote(b)
    <2> DEFINE t == <<a, b>>
    <2>1. DOMAIN t = 1..2 /\ Len(t) = 2 /\ t[2] = b OBVIOUS
    <2> HIDE DEF t
    <2>2. Writes(t) => Wrote(b) BY <2>1, WritesFacts
    <2> QED BY <2>2 DEF t
  <1>3. Writes(s \o <<b>>) => Wrote(b)
    <2> DEFINE t == s \o <<b>>
    <2>1. Len(s) \in Nat /\ DOMAIN t = 1..(Len(s) + 1) /\ Len(t) = Len(s) + 1 /\ t[Len(s) + 1] = b
      OBVIOUS
    <2> HIDE DEF t
    <2>2. Writes(t) => Wrote(b) BY <2>1, WritesFacts
    <2> QED BY <2>2 DEF t
  <1>4. Writes(s \o <<a, b>>) => Wrote(b)
    <2> DEFINE t == s \o <<a, b>>
    <2>1. Len(s) \in Nat /\ DOMAIN t = 1..(Len(s) + 2) /\ Len(t) = Len(s) + 2 /\ t[Len(s) + 2] = b
      OBVIOUS
    <2> HIDE DEF t
    <2>2. Writes(t) => Wrote(b) BY <2>1, WritesFacts
    <2> QED BY <2>2 DEF t
  <1>5. ASSUME NEW r \in Seq(Records), Writes(s \o (r \o <<a, b>>)) PROVE Wrote(b)
    <2> DEFINE t == s \o (r \o <<a, b>>)
               n == Len(s) + Len(r) + 2
    <2>1. r \o <<a, b>> \in Seq(Records) /\ Len(r \o <<a, b>>) = Len(r) + 2
          /\ (r \o <<a, b>>)[Len(r) + 2] = b
      OBVIOUS
    <2>2. Len(s) \in Nat /\ Len(r) \in Nat /\ DOMAIN t = 1..n /\ Len(t) = n /\ t[n] = b
      BY <2>1
    <2>3. Writes(t) BY <1>5
    <2>4. n \in Nat \ {0} BY <2>2
    <2> HIDE DEF t, n
    <2> QED BY <2>2, <2>3, <2>4, WritesFacts
  <1> QED BY <1>1, <1>2, <1>3, <1>4, <1>5, Zenon

(* What the setters of the evidence change.                                *)
LEMMA RecordFacts ==
    ASSUME NEW m \in Records
    PROVE  /\ \A s \in Statuses :
                  /\ WithStatus(m, s) \in Records /\ WithStatus(m, s).status = s
                  /\ WithStatus(m, s).id = m.id /\ WithStatus(m, s).errors = m.errors
           /\ WithError(m) \in Records /\ WithError(m).status = m.status
           /\ WithError(m).id = m.id /\ WithError(m).errors = TRUE
           /\ \A c \in {"not attempted", "succeeded", "failed"} :
                  /\ WithCleanup(m, c) \in Records /\ WithCleanup(m, c).status = m.status
                  /\ WithCleanup(m, c).id = m.id /\ WithCleanup(m, c).errors = m.errors
           /\ WithId(m) \in Records /\ WithId(m).status = m.status
           /\ WithId(m).id = TRUE /\ WithId(m).errors = m.errors
  BY Zenon DEF Records, WithStatus, WithError, WithCleanup, WithId

(* The evidence has its types, and is on disk unless a write failed.       *)
EvidenceTypes ==
    mem \in Records /\ failed \in BOOLEAN /\ faults \in Nat /\ (~failed => disk = mem)

(* The step wrote a record with this status that lost nothing.             *)
Recorded(s) ==
    \E m \in Records : Wrote(m) /\ m.status = s /\ (mem.id => m.id) /\ (mem.errors => m.errors)

(* A record of failure.                                                    *)
LEMMA FailureRecorded ==
    ASSUME EvidenceTypes, NEW s \in Seq(Records), NEW x \in Records, mem.id => x.id,
           Writes(FailureRecord(x)) \/ Writes(s \o FailureRecord(x))
    PROVE  Recorded("failed") /\ mem'.errors
  <1> DEFINE e == WithError(x)
             m == WithStatus(e, "failed")
  <1>1. e \in Records /\ e.id = x.id /\ e.errors = TRUE BY RecordFacts, Zenon
  <1>2. "failed" \in Statuses BY DEF Statuses
  <1>3. m \in Records /\ m.status = "failed" /\ m.id = x.id /\ m.errors = TRUE
    BY <1>1, <1>2, RecordFacts, Zenon
  <1>4. Wrote(m)
    BY <1>1, <1>3, LastWrite, Zenon DEF FailureRecord, EvidenceTypes
  <1> QED BY <1>3, <1>4, Zenon DEF Recorded, Wrote

(* A record of an interrupt.                                               *)
LEMMA EarlyRecorded ==
    ASSUME EvidenceTypes, NEW s \in Seq(Records), NEW x \in Records, mem.id => x.id,
           mem.errors => x.errors, Writes(EarlyRecord(x)) \/ Writes(s \o EarlyRecord(x))
    PROVE  Recorded("interrupted") /\ (Session \/ x.errors => mem'.errors)
  <1> DEFINE c == IF cmd = "start" /\ ~x.id THEN WithCleanup(x, "not attempted") ELSE x
             e == WithError(c)
             r == IF c # x THEN <<c>> ELSE <<>>
  <1>1. c \in Records /\ c.id = x.id /\ c.errors = x.errors BY RecordFacts, Zenon
  <1>2. "interrupted" \in Statuses BY DEF Statuses
  <1>3. e \in Records /\ e.id = x.id /\ e.errors = TRUE BY <1>1, RecordFacts, Zenon
  <1>4. CASE ~Session
    <2> DEFINE m == WithStatus(x, "interrupted")
    <2>1. m \in Records /\ m.status = "interrupted" /\ m.id = x.id /\ m.errors = x.errors
      BY <1>2, RecordFacts, Zenon
    <2>2. EarlyRecord(x) = <<m>> BY <1>4, Zenon DEF EarlyRecord
    <2>3. Wrote(m) BY <2>1, <2>2, LastWrite, Zenon DEF EvidenceTypes
    <2> QED BY <1>4, <2>1, <2>3, Zenon DEF Recorded, Wrote
  <1>5. CASE Session
    <2> DEFINE m == WithStatus(e, "interrupted")
    <2>1. m \in Records /\ m.status = "interrupted" /\ m.id = x.id /\ m.errors = TRUE
      BY <1>2, <1>3, RecordFacts, Zenon
    <2>2. EarlyRecord(x) = r \o <<e, m>> BY <1>5, Zenon DEF EarlyRecord
    <2>3. r \in Seq(Records)
      <3> HIDE DEF c
      <3> QED BY <1>1
    <2> HIDE DEF r, m, e
    <2>4. Wrote(m) BY <1>3, <2>1, <2>2, <2>3, LastWrite, Zenon DEF EvidenceTypes
    <2> QED BY <2>1, <2>4, Zenon DEF Recorded, Wrote
  <1> QED BY <1>4, <1>5, Zenon

(***************************************************************************)
(* The session commands.                                                   *)
(***************************************************************************)
Before == {"prepare", "prepared", "config", "elect", "resolve", "package", "cancelling", "input"}
Answered == {"completed", "judge"}
Closing == {"final", "final written", "final failed", "emit"}
Over == {"exiting", "ended"}
Success == {"ready", "succeeded"}
Afters == {"interrupted", "provenance", "failure", "exit", "remote"}

EvidenceOK ==
    /\ EvidenceTypes
    /\ failed <=> faults > 0
    /\ observed => mem.id

(* What is known of the request at each label.                             *)
RequestOK ==
    /\ queued \in BOOLEAN /\ observed \in BOOLEAN
    /\ res.code \in Int /\ res.bad \in BOOLEAN
    /\ res.kind \in {"none", "ready", "exit", "connect", "timeout", "other"}
    /\ seen = "final" \/ pc \in Answered => res.kind # "none"
    /\ pc \in Before => ~queued /\ ~observed
    /\ pc \in {"judge", "download"} \cup Closing => ~queued
    /\ pc \in {"download"} \cup Closing /\ cmd \in {"start", "action"} => observed
    /\ pc \in {"download"} \cup Closing /\ cmd = "start" => res.kind = "ready"

(* Where a download can be under way.                                      *)
DownloadOK ==
    /\ pc \in Before \cup Answered \cup {"request"} => dl = "none"
    /\ pc \in Closing => dl \notin {"fetch", "extract", "stage"}
    /\ staging = "made" => dl = "stage"
    /\ staging = "left" => dl = "failed"

(* A download that goes on without its command, or failed and is not on    *)
(* record, was interrupted.                                                *)
Pending == dl \in {"fetch", "extract", "stage"} \/ (dl = "failed" /\ ~mem.errors)

Abandoned ==
    \/ pc = "stopping" /\ after = "interrupted"
    \/ pc \in Over /\ mem.status = "interrupted"

LeftOK == Pending => pc \in {"download", "killed"} \/ Abandoned

(* The line is printed by the last step of a command that goes on to exit. *)
LineOK ==
    out = "line" => Session /\ pc \in Over /\ ~asked /\ code = IF failed THEN 1 ELSE 0

(* A status of success is written once and last.                           *)
StatusOK ==
    /\ mem.status \in Success =>
           pc \in {"final written", "final failed", "emit", "stopping"} \cup Over
    /\ pc \in {"final written", "emit"} => mem.status = FinalStatus
    /\ pc = "final failed" => failed
    /\ pc = "prepare" => ~mem.id /\ ~mem.errors

(* The best-effort stop.                                                   *)
StopOK ==
    /\ asked \in BOOLEAN
    /\ asked => pc \in {"stopping"} \cup Over
    /\ pc = "stopping" =>
           /\ asked
           /\ after = "provenance" => failed
           /\ after = "exit" => StartExited
    /\ pc = "elect" => code \in {1, ConnectionFallback}

(* What the exit code says.                                                *)
ExitOK ==
    pc \in Over =>
        /\ failed => code = 1
        /\ ~failed /\ mem.status \in Success => code = 0
        /\ code = 0 /\ StartExited => mem.status = "failed" /\ res.code = 0
        /\ code = 0 /\ ~StartExited =>
               /\ mem.status = IF cmd = "start" THEN "ready" ELSE "succeeded"
               /\ cmd \in {"start", "action"} => mem.id
               /\ sig # "early"
               /\ cmd = "start" => out = "line"
        /\ code = Interrupted130 => mem.status = "interrupted" \/ res.code = Interrupted130
        /\ cmd = "start" => out = "line" \/ (queued \/ observed => asked)

SessionInv == EvidenceOK /\ RequestOK /\ StatusOK /\ StopOK /\ ExitOK

CommandInv ==
    /\ EvidenceTypes
    /\ cmd \in Commands
    /\ DownloadOK
    /\ LeftOK
    /\ LineOK
    /\ pc = "stopping" => after \in Afters
    /\ Session => SessionInv

(***************************************************************************)
(* Workers and what they leave.                                            *)
(***************************************************************************)
WorkerInv ==
    /\ ws = "registered" => step \in {"links", "forget"} \/ (step = "ended" /\ unclean)
    /\ unclean => step = "ended" /\ result # "ok"
    /\ pc \in Before \ {"package", "cancelling"} => step = "idle"
    /\ pc \notin {"package", "cancelling", "killed"} \cup Over => ~Working /\ ws # "registered" /\ ~unclean
    /\ pc \in Over /\ (Working \/ unclean \/ ws = "registered") => mem.errors
    /\ pc = "ended" => ~Working /\ ~Extracting

(***************************************************************************)
(* The package.                                                            *)
(***************************************************************************)
Trees == [Paths -> [ino : Nat, ver : Nat]]

SourceTypes ==
    /\ kind \in [jj : BOOLEAN, update : BOOLEAN]
    /\ tree \in Trees /\ commit \in Trees /\ before \in Trees
    /\ edits \in Nat
    /\ \A p \in Paths : tree[p] = Nothing \/ tree[p].ver \in 1..(edits + 1)
    /\ DOMAIN file = {"path", "ino", "opened", "now", "half"}
    /\ file.half \in 0..2
    /\ file.opened \in Nat /\ file.now \in Nat
    /\ file.opened <= file.now /\ file.now <= edits + 1

(* Which package each step belongs to.                                     *)
StepOK ==
    /\ step \in {"pin", "list", "add", "links", "forget", "stream"} => kind.jj
    /\ step \in {"walk", "stat", "rewalk"} => ~kind.jj /\ ~kind.update
    /\ step \in {"absent", "recheck", "absent again", "finish"} => ~kind.jj /\ kind.update
    /\ step \in {"open", "read"} => ~kind.jj
    /\ step \in {"idle", "package", "pin", "list", "add", "links", "forget", "walk", "absent"} =>
           DOMAIN archive = {}
    /\ result = "ok" => step = "ended"

(* Both halves of an entry are of one version.                             *)
Whole(p, v) == archive[p][1] = v /\ archive[p][2] = v

(* The entries of a pinned commit.                                         *)
PinnedOK ==
    step \in {"add", "links", "forget", "stream"} =>
        /\ DOMAIN archive \cup todo = DOMAIN plan
        /\ kind.update => DOMAIN plan = Declared /\ Deleted \cap Held(commit) = {}
        /\ ~kind.update => ValidPlannedEntries(DOMAIN plan)
        /\ \A p \in DOMAIN archive : Whole(p, commit[p].ver)

(* The file being read.                                                    *)
ReadOK ==
    step = "read" =>
        /\ file.path \in todo
        /\ file.path \in Paths
        /\ file.opened >= 1
        /\ file.half > 0 => /\ file.path \in DOMAIN archive
                            /\ archive[file.path][1] \in file.opened..file.now
        /\ file.half = 1 => Len(archive[file.path]) = 1 /\ archive[file.path] \in Seq(Nat)
        /\ file.half = 2 => archive[file.path][2] \in file.opened..file.now

(* The entries of a full tree.                                             *)
TreeOK ==
    step \in {"stat", "open", "read", "rewalk"} /\ ~kind.update =>
        /\ ValidPlannedEntries(DOMAIN plan)
        /\ step # "rewalk" => DOMAIN archive \cup todo = DOMAIN plan
        /\ step = "rewalk" => DOMAIN archive = DOMAIN plan
        /\ \A p \in DOMAIN archive :
               step = "rewalk" \/ p \notin todo => archive[p][1] = archive[p][2]

(* A file of an update whose read has ended: while it is what was read, it *)
(* also was when the last read ended.                                      *)
Taken(p) ==
    /\ p \in Paths /\ p \in DOMAIN plan
    /\ plan[p].ver \in 1..(edits + 1)
    /\ Whole(p, plan[p].ver)
    /\ tree[p] = plan[p] => before[p] = plan[p]

(* The files of an update.                                                 *)
FilesOK ==
    /\ step \in {"open", "read"} /\ kind.update =>
           /\ DOMAIN archive \cup todo = Declared
           /\ \A p \in Declared \ todo : Taken(p)
    /\ step \in {"recheck", "absent again", "finish"} =>
           /\ DOMAIN archive = Declared
           /\ \A p \in Declared : Taken(p)
    /\ step = "recheck" => \A p \in Declared \ todo : before[p] = plan[p]
    /\ step \in {"absent again", "finish"} => \A p \in Declared : before[p] = plan[p]

PackageInv ==
    SourceTypes /\ StepOK /\ PinnedOK /\ ReadOK /\ TreeOK /\ FilesOK /\ PackagedIsFaithful

(* What most steps of the worker leave alone.                              *)
LEMMA TypesStay ==
    ASSUME SourceTypes, UNCHANGED <<tree, edits, kind>>,
           commit' \in {commit, tree}, before' \in {before, tree},
           file' = file \/ file' = NoFile
    PROVE  SourceTypes'
  BY DEF SourceTypes, NoFile

(* A worker that ends without a package.                                   *)
LEMMA EndsWithout ==
    ASSUME SourceTypes', step' = "ended", result' # "ok"
    PROVE  PackageInv'
  BY DEF PackageInv, StepOK, PinnedOK, ReadOK, TreeOK, FilesOK, PackagedIsFaithful

(* A step that fails.                                                      *)
LEMMA FailKeeps == PackageInv /\ Fail => PackageInv'
  <1> SUFFICES ASSUME PackageInv, Fail PROVE PackageInv'
    OBVIOUS
  <1>1. SourceTypes' BY TypesStay, Zenon DEF PackageInv, Fail, unedited
  <1> QED BY <1>1, EndsWithout, Zenon DEF Fail, End

(* A step that is cancelled.                                               *)
LEMMA CheckKeeps == PackageInv /\ Check => PackageInv'
  <1> SUFFICES ASSUME PackageInv, Check PROVE PackageInv'
    OBVIOUS
  <1>1. SourceTypes' BY TypesStay, Zenon DEF PackageInv, Check, unedited
  <1>2. CASE step = "links"
    BY <1>1, <1>2 DEF Check, unedited, PackageInv, StepOK, PinnedOK, ReadOK, TreeOK, FilesOK,
         PackagedIsFaithful, Whole
  <1>3. CASE step # "links"
    BY <1>1, <1>3, EndsWithout, Zenon DEF Check, End
  <1> QED BY <1>2, <1>3, Zenon

(* package_source_cancellable starts one of the three ways.                *)
LEMMA PackageKeeps == PackageInv /\ Package => PackageInv'
  <1> SUFFICES ASSUME PackageInv, Package, ~Fail PROVE PackageInv'
    BY FailKeeps, Zenon
  <1>1. SourceTypes' BY TypesStay, Zenon DEF PackageInv, Package, unedited
  <1> QED
    BY <1>1, Zenon DEF Package, unedited, PackageInv, StepOK, PinnedOK, ReadOK, TreeOK, FilesOK,
         PackagedIsFaithful, SourceTypes

(* package_jj up to the stream: one commit, its entries, its links.        *)
LEMMA JjKeeps ==
    PackageInv /\ (Pin \/ ListTree \/ ListUpdate \/ WorkspaceAdd \/ ReadLinks \/ Forget) => PackageInv'
  <1> SUFFICES ASSUME PackageInv, ~Fail PROVE
        Pin \/ ListTree \/ ListUpdate \/ WorkspaceAdd \/ ReadLinks \/ Forget => PackageInv'
    BY FailKeeps, Zenon
  <1>1. ASSUME Pin PROVE PackageInv'
    <2>1. SourceTypes' BY <1>1, TypesStay, Zenon DEF PackageInv, Pin, unedited
    <2> QED
      BY <1>1, <2>1, Zenon DEF Pin, unedited, PackageInv, StepOK, PinnedOK, ReadOK, TreeOK, FilesOK,
           PackagedIsFaithful
  <1>2. ASSUME NEW es, NEW next \in {"add", "stream"}, ListEntries(es, next), step = "list",
               kind.update => es = Declared /\ Deleted \cap Held(commit) = {},
               ~kind.update => ValidPlannedEntries(es)
        PROVE  PackageInv'
    <2>1. SourceTypes' BY <1>2, TypesStay, Zenon DEF PackageInv, ListEntries, unedited
    <2>2. DOMAIN plan' = es /\ todo' = es /\ DOMAIN archive' = {} /\ step' = next
          /\ UNCHANGED <<kind, commit, result>>
      BY <1>2 DEF ListEntries, unedited, PackageInv, StepOK
    <2>3. ValidPlannedEntries(es) => ValidPlannedEntries(DOMAIN plan')
      BY <2>2, Zenon
    <2>4. StepOK' BY <1>2, <2>2, Zenon DEF PackageInv, StepOK
    <2>5. PinnedOK' BY <1>2, <2>2 DEF PinnedOK, ValidPlannedEntries
    <2> QED BY <1>2, <2>1, <2>2, <2>4, <2>5, Zenon DEF PackageInv, ReadOK, TreeOK, FilesOK,
         PackagedIsFaithful
  <1>3. ASSUME ListTree PROVE PackageInv'
    BY <1>2, <1>3, Zenon DEF ListTree
  <1>4. ASSUME ListUpdate PROVE PackageInv'
    BY <1>2, <1>4, Zenon DEF ListUpdate, UpdateFitsCommit
  <1>5. ASSUME WorkspaceAdd \/ ReadLinks \/ Forget PROVE PackageInv'
    <2>1. SourceTypes'
      BY <1>5, TypesStay, Zenon DEF PackageInv, WorkspaceAdd, ReadLinks, Forget, unedited
    <2>2. UNCHANGED <<kind, commit, plan, todo, archive>> /\ step \in {"add", "links", "forget"}
          /\ step' \in {"links", "forget", "stream", "ended"}
      BY <1>5 DEF WorkspaceAdd, ReadLinks, Forget, unedited
    <2>3. result' # "ok"
      BY <1>5, Zenon DEF WorkspaceAdd, ReadLinks, Forget, PackageInv, StepOK
    <2> QED
      BY <2>1, <2>2, <2>3, Zenon DEF PackageInv, StepOK, PinnedOK, ReadOK, TreeOK, FilesOK,
           PackagedIsFaithful, Whole, ValidPlannedEntries
  <1> QED BY <1>1, <1>3, <1>4, <1>5, Zenon

(* package_jj's stream: each entry is read at the pin.                     *)
LEMMA StreamKeeps == PackageInv /\ (StreamFile \/ StreamLink) => PackageInv'
  <1> SUFFICES ASSUME PackageInv, ~Fail, step = "stream",
                      NEW p \in todo, StreamEntry(p)
               PROVE  PackageInv'
    BY FailKeeps, Zenon DEF StreamFile, StreamLink
  <1>1. SourceTypes' BY TypesStay, Zenon DEF PackageInv, StreamEntry, unedited
  <1> DEFINE x == <<commit[p].ver, commit[p].ver>>
  <1>2. x[1] = commit[p].ver /\ x[2] = commit[p].ver OBVIOUS
  <1> HIDE DEF x
  <1>3. /\ DOMAIN archive' = DOMAIN archive \cup {p}
        /\ archive'[p] = x
        /\ \A q \in DOMAIN archive : q # p => archive'[q] = archive[q]
    BY DEF StreamEntry, With, x
  <1>4. UNCHANGED <<kind, step, commit, plan, result>> /\ todo' = todo \ {p}
    BY Zenon DEF StreamEntry, unedited
  <1>5. PinnedOK'
    BY <1>2, <1>3, <1>4, Zenon DEF PackageInv, PinnedOK, Whole, ValidPlannedEntries
  <1> QED
    BY <1>1, <1>4, <1>5 DEF PackageInv, StepOK, ReadOK, TreeOK, FilesOK, PackagedIsFaithful

(* finish_package, finish_update_package.                                  *)
LEMMA FinishKeeps == PackageInv /\ (FinishPackage \/ FinishUpdatePackage) => PackageInv'
  <1> SUFFICES ASSUME PackageInv, FinishPackage \/ FinishUpdatePackage PROVE PackageInv'
    OBVIOUS
  <1>1. SourceTypes'
    BY TypesStay, Zenon DEF PackageInv, FinishPackage, FinishUpdatePackage, unedited
  <1>2. /\ UNCHANGED <<kind, plan, commit, archive, before>> /\ step' = "ended"
        /\ kind.update => step = "finish" \/ (step = "stream" /\ todo = {})
        /\ ~kind.update => step = "rewalk" \/ (step = "stream" /\ todo = {})
    <2>1. CASE FinishPackage BY <2>1, Zenon DEF FinishPackage, End, unedited, PackageInv, StepOK
    <2>2. CASE FinishUpdatePackage BY <2>2, Zenon DEF FinishUpdatePackage, End, unedited, PackageInv, StepOK
    <2> QED BY <2>1, <2>2, Zenon
  <1>3. PackagedIsFaithful'
    <2>1. CASE step = "stream"
      <3>1. DOMAIN archive = DOMAIN plan /\ kind.jj
        BY <2>1, <1>2 DEF PackageInv, PinnedOK, StepOK
      <3> QED
        BY <1>2, <2>1, <3>1 DEF PackageInv, PinnedOK, StepOK, PackagedIsFaithful, Whole, ValidPlannedEntries
    <2>2. CASE step = "rewalk"
      BY <1>2, <2>2 DEF PackageInv, TreeOK, StepOK, PackagedIsFaithful, ValidPlannedEntries
    <2>3. CASE step = "finish"
      BY <1>2, <2>3 DEF PackageInv, FilesOK, StepOK, PackagedIsFaithful, Whole, Taken
    <2> QED BY <1>2, <2>1, <2>2, <2>3, Zenon
  <1> QED BY <1>1, <1>2, <1>3, Zenon DEF PackageInv, StepOK, PinnedOK, ReadOK, TreeOK, FilesOK

(* The enumerations of a full tree.                                        *)
LEMMA WalkKeeps == PackageInv /\ (Walk \/ StartRewalk \/ Rewalk) => PackageInv'
  <1> SUFFICES ASSUME PackageInv PROVE Walk \/ StartRewalk \/ Rewalk => PackageInv'
    OBVIOUS
  <1>0. Walk \/ StartRewalk \/ Rewalk => SourceTypes'
    BY TypesStay, Zenon DEF PackageInv, Walk, StartRewalk, Rewalk, unedited
  <1>1. ASSUME Walk PROVE PackageInv'
    <2>1. CASE step' = "ended"
      BY <1>0, <1>1, <2>1, EndsWithout DEF Walk, End, PackageInv, StepOK
    <2>2. CASE step' = "walk"
      BY <1>0, <1>1, <2>2 DEF Walk, End, unedited, PackageInv, StepOK, PinnedOK, ReadOK, TreeOK, FilesOK,
           PackagedIsFaithful
    <2>3. CASE step' = "stat"
      <3>1. /\ UNCHANGED <<kind, plan, archive, result>> /\ todo' = DOMAIN plan /\ step = "walk"
            /\ ValidPlannedEntries(DOMAIN plan)
        BY <1>1, <2>3 DEF Walk, End, unedited
      <3>2. ValidPlannedEntries(DOMAIN plan') BY <3>1, Zenon
      <3> QED
        BY <1>0, <1>1, <2>3, <3>1 DEF PackageInv, StepOK, PinnedOK, ReadOK, TreeOK, FilesOK,
             PackagedIsFaithful, ValidPlannedEntries
    <2> QED BY <1>1, <2>1, <2>2, <2>3 DEF Walk, End
  <1>2. ASSUME StartRewalk PROVE PackageInv'
    BY <1>0, <1>2 DEF StartRewalk, unedited, PackageInv, StepOK, PinnedOK, ReadOK, TreeOK, FilesOK,
         PackagedIsFaithful, ValidPlannedEntries
  <1>3. ASSUME Rewalk PROVE PackageInv'
    <2>1. CASE step' = "ended"
      BY <1>0, <1>3, <2>1, EndsWithout DEF Rewalk, End
    <2>2. CASE step' # "ended"
      BY <1>0, <1>3, <2>2, Zenon DEF Rewalk, End, unedited, PackageInv, StepOK, PinnedOK, ReadOK, TreeOK,
           FilesOK, PackagedIsFaithful, ValidPlannedEntries
    <2> QED BY <2>1, <2>2, Zenon
  <1> QED BY <1>1, <1>2, <1>3, Zenon

(* Links and files of a full tree, one after the other.                    *)
LEMMA StatKeeps == PackageInv /\ (Stat \/ PackLink) => PackageInv'
  <1> SUFFICES ASSUME PackageInv, ~Fail PROVE Stat \/ PackLink => PackageInv'
    BY FailKeeps, Zenon
  <1>1. ASSUME Stat PROVE PackageInv'
    <2>1. PICK p \in todo : file' = [NoFile EXCEPT !.path = p, !.ino = tree[p].ino]
      BY <1>1, Zenon DEF Stat
    <2>2. /\ step = "stat" /\ step' = "open"
          /\ UNCHANGED <<tree, edits, kind, commit, plan, todo, archive, result, before>>
      BY <1>1, Zenon DEF Stat, unedited
    <2>3. file'.half = 0 /\ file'.opened = 0 /\ file'.now = 0
          /\ DOMAIN file' = {"path", "ino", "opened", "now", "half"}
      BY <2>1 DEF NoFile
    <2>4. SourceTypes' BY <2>2, <2>3 DEF PackageInv, SourceTypes
    <2> QED
      BY <2>2, <2>4 DEF PackageInv, StepOK, PinnedOK, ReadOK, TreeOK, FilesOK, PackagedIsFaithful,
           ValidPlannedEntries
  <1>2. ASSUME PackLink PROVE PackageInv'
    <2>1. PICK p \in todo : archive' = With(archive, p, <<plan[p], plan[p]>>) /\ todo' = todo \ {p}
      BY <1>2, Zenon DEF PackLink
    <2>2. /\ step = "stat"
          /\ UNCHANGED <<tree, edits, kind, step, commit, plan, file, result, before>>
      BY <1>2, Zenon DEF PackLink, unedited
    <2>3. /\ DOMAIN archive' = DOMAIN archive \cup {p}
          /\ archive'[p][1] = archive'[p][2]
          /\ \A q \in DOMAIN archive : q # p => archive'[q] = archive[q]
      BY <2>1 DEF With
    <2>4. SourceTypes' BY <2>2, TypesStay DEF PackageInv
    <2>5. TreeOK' BY <2>1, <2>2, <2>3, Zenon DEF PackageInv, TreeOK, ValidPlannedEntries
    <2> QED
      BY <2>2, <2>4, <2>5 DEF PackageInv, StepOK, PinnedOK, ReadOK, FilesOK, PackagedIsFaithful
  <1> QED BY <1>1, <1>2, Zenon

(* The descriptor is opened on what the tree holds.                        *)
LEMMA OpenKeeps == PackageInv /\ Open => PackageInv'
  <1> SUFFICES ASSUME PackageInv, ~Fail, Open PROVE PackageInv'
    BY FailKeeps, Zenon
  <1>1. PICK p \in todo : p \in Held(tree) /\
            file' = [path |-> p, ino |-> tree[p].ino, opened |-> tree[p].ver,
                     now |-> tree[p].ver, half |-> 0]
    BY Zenon DEF Open
  <1>2. /\ step = "open" /\ step' = "read"
        /\ UNCHANGED <<tree, edits, kind, commit, plan, todo, archive, result, before>>
    BY Zenon DEF Open, unedited
  <1>3. /\ DOMAIN file' = {"path", "ino", "opened", "now", "half"}
        /\ file'.path = p /\ file'.half = 0
        /\ file'.opened = tree[p].ver /\ file'.now = tree[p].ver
    BY <1>1
  <1>4. p \in Paths /\ tree[p].ver \in 1..(edits + 1)
    BY <1>1 DEF Held, PackageInv, SourceTypes
  <1>5. SourceTypes' BY <1>2, <1>3, <1>4 DEF PackageInv, SourceTypes
  <1>6. ReadOK' BY <1>1, <1>2, <1>3, <1>4 DEF ReadOK
  <1>7. TreeOK' BY <1>2 DEF PackageInv, TreeOK, ValidPlannedEntries
  <1>8. FilesOK' BY <1>2 DEF PackageInv, FilesOK, Taken, Whole
  <1> QED BY <1>2, <1>5, <1>6, <1>7, <1>8 DEF PackageInv, StepOK, PinnedOK, PackagedIsFaithful

(* The two looks at an update's deletes, and the second one at its files.  *)
LEMMA RecheckKeeps == PackageInv /\ (RequireAbsent \/ Recheck) => PackageInv'
  <1> SUFFICES ASSUME PackageInv PROVE RequireAbsent \/ Recheck => PackageInv'
    OBVIOUS
  <1>0. RequireAbsent \/ Recheck => SourceTypes'
    BY TypesStay, Zenon DEF PackageInv, RequireAbsent, Recheck, unedited
  <1>1. ASSUME RequireAbsent PROVE PackageInv'
    <2>1. CASE step' = "ended"
      BY <1>0, <1>1, <2>1, EndsWithout, Zenon DEF RequireAbsent, End
    <2>2. CASE step' # "ended"
      <3>1. /\ UNCHANGED <<tree, edits, kind, commit, plan, archive, result, before>>
            /\ todo' = Declared
            /\ \/ step = "absent" /\ Declared = {} /\ step' = "recheck"
               \/ step = "absent" /\ step' = "open"
               \/ step = "absent again" /\ step' = "finish"
        BY <1>1, <2>2, Zenon DEF RequireAbsent, End, unedited
      <3>2. FilesOK' BY <3>1, Zenon DEF PackageInv, StepOK, FilesOK, Taken, Whole
      <3> QED
        BY <1>0, <1>1, <3>1, <3>2, Zenon DEF PackageInv, StepOK, PinnedOK, ReadOK, TreeOK,
             PackagedIsFaithful
    <2> QED BY <2>1, <2>2, Zenon
  <1>2. ASSUME Recheck PROVE PackageInv'
    <2>1. CASE step' = "ended"
      BY <1>0, <1>2, <2>1, EndsWithout DEF Recheck, End
    <2>2. CASE step' # "ended"
      <3>1. /\ UNCHANGED <<tree, edits, kind, commit, plan, archive, result, before>>
            /\ step = "recheck"
            /\ \/ todo = {} /\ step' = "absent again"
               \/ step' = "recheck" /\ \E p \in todo : tree[p] = plan[p] /\ todo' = todo \ {p}
        BY <1>2, <2>2, Zenon DEF Recheck, End, unedited, SameFile
      <3>2. FilesOK' BY <3>1, Zenon DEF PackageInv, FilesOK, Taken, Whole
      <3> QED
        BY <1>0, <1>2, <3>1, <3>2, Zenon DEF PackageInv, StepOK, PinnedOK, ReadOK, TreeOK,
             PackagedIsFaithful
    <2> QED BY <2>1, <2>2, Zenon
  <1> QED BY <1>1, <1>2, Zenon

(* The read loop and the metadata check after it.                          *)
LEMMA ReadKeeps == PackageInv /\ Read => PackageInv'
  <1> SUFFICES ASSUME PackageInv, Read PROVE PackageInv'
    OBVIOUS
  <1>p. PICK p : p = file.path OBVIOUS
  <1>0. /\ UNCHANGED <<tree, edits, kind, commit>> /\ step = "read" /\ p = file.path
        /\ p \in todo /\ p \in Paths /\ file.opened >= 1 /\ ~kind.jj
        /\ kind.update \in BOOLEAN
    BY <1>p DEF Read, unedited, PackageInv, ReadOK, StepOK, SourceTypes
  <1>1. CASE ReadHalf(p)
    <2> DEFINE x == IF file.half = 0 THEN <<file.now>> ELSE Append(archive[p], file.now)
    <2>1. UNCHANGED <<step, plan, todo, result, before>> /\ file.half \in {0, 1}
      BY <1>1 DEF ReadHalf, PackageInv, SourceTypes
    <2>2. /\ DOMAIN file' = DOMAIN file /\ file'.half = file.half + 1
          /\ file'.path = p /\ file'.opened = file.opened /\ file'.now = file.now
      BY <1>0, <1>1 DEF ReadHalf, PackageInv, SourceTypes
    <2>3. SourceTypes' BY <1>0, <2>1, <2>2 DEF PackageInv, SourceTypes
    <2>4. /\ x[1] \in file.opened..file.now
          /\ file.half = 0 => Len(x) = 1 /\ x \in Seq(Nat)
          /\ file.half = 1 => x[2] \in file.opened..file.now
      <3>1. CASE file.half = 0
        BY <3>1 DEF PackageInv, SourceTypes
      <3>2. CASE file.half = 1
        BY <1>0, <3>2 DEF PackageInv, SourceTypes, ReadOK
      <3> QED BY <2>1, <3>1, <3>2, Zenon
    <2> HIDE DEF x
    <2>5. /\ DOMAIN archive' = DOMAIN archive \cup {p}
          /\ archive'[p] = x
          /\ \A q \in DOMAIN archive : q # p => archive'[q] = archive[q]
      BY <1>1 DEF ReadHalf, With, x
    <2>6. ReadOK'
      BY <1>0, <2>1, <2>2, <2>4, <2>5 DEF PackageInv, ReadOK, SourceTypes
    <2>7. TreeOK'
      BY <1>0, <2>1, <2>5 DEF PackageInv, TreeOK, ValidPlannedEntries
    <2>8. FilesOK'
      BY <1>0, <2>1, <2>5 DEF PackageInv, FilesOK, Taken, Whole
    <2> QED
      BY <1>0, <2>1, <2>3, <2>6, <2>7, <2>8 DEF PackageInv, StepOK, PinnedOK, PackagedIsFaithful
  <1>2. CASE CloseFile(p) /\ ~Unchanged
    <2>1. SourceTypes' BY <1>0, <1>2, TypesStay, Zenon DEF CloseFile, PackageInv
    <2> QED BY <1>2, <2>1, EndsWithout DEF CloseFile, End
  <1>3. CASE CloseFile(p) /\ Unchanged
    <2>1. SourceTypes' BY <1>0, <1>3, TypesStay, Zenon DEF CloseFile, PackageInv
    <2>2. before' = tree /\ UNCHANGED <<archive, result>> BY <1>3, Zenon DEF CloseFile
    <2>3. p \in DOMAIN archive /\ Whole(p, file.opened)
      BY <1>0, <1>3, SMTT(20) DEF CloseFile, Unchanged, PackageInv, ReadOK, SourceTypes, Whole
    <2>4. CASE ~kind.update
      <3>1. UNCHANGED plan /\ todo' = todo \ {p} /\ step' = "stat"
        BY <1>3, <2>4, Zenon DEF CloseFile
      <3>2. TreeOK'
        BY <1>0, <2>2, <2>3, <2>4, <3>1 DEF PackageInv, TreeOK, Whole, ValidPlannedEntries
      <3> QED
        BY <1>0, <2>1, <2>2, <2>4, <3>1, <3>2 DEF PackageInv, StepOK, PinnedOK, ReadOK, FilesOK,
             PackagedIsFaithful
    <2>5. CASE kind.update
      <3> DEFINE x == [ino |-> file.ino, ver |-> file.opened]
      <3>1. /\ plan' = With(plan, p, x)
            /\ todo' = IF todo = {p} THEN Declared ELSE todo \ {p}
            /\ step' = IF todo = {p} THEN "recheck" ELSE "open"
        BY <1>3, <2>5, Zenon DEF CloseFile
      <3>2. x.ver = file.opened OBVIOUS
      <3> HIDE DEF x
      <3>3. /\ DOMAIN plan' = DOMAIN plan \cup {p}
            /\ plan'[p] = x
            /\ \A q \in DOMAIN plan : q # p => plan'[q] = plan[q]
        BY <3>1 DEF With
      <3>4. Taken(p)'
        BY <1>0, <2>2, <2>3, <3>2, <3>3 DEF Taken, Whole, PackageInv, SourceTypes
      <3>5. ASSUME NEW q \in Declared \ todo PROVE Taken(q)'
        <4>1. Taken(q) /\ q # p BY <1>0, <2>5, <3>5 DEF PackageInv, FilesOK
        <4> QED BY <4>1, <1>0, <2>2, <3>3 DEF Taken, Whole
      <3>6. DOMAIN archive \cup todo = Declared BY <1>0, <2>5 DEF PackageInv, FilesOK
      <3>7. FilesOK'
        BY <1>0, <2>2, <2>3, <3>1, <3>4, <3>5, <3>6 DEF FilesOK
      <3>8. step' \in {"open", "recheck"} BY <3>1, Zenon
      <3> QED
        BY <1>0, <2>1, <2>2, <2>5, <3>7, <3>8, Zenon DEF PackageInv, StepOK, PinnedOK, ReadOK, TreeOK,
             PackagedIsFaithful
    <2> QED BY <1>0, <2>4, <2>5, Zenon
  <1> QED BY <1>p, <1>1, <1>2, <1>3, Zenon DEF Read

(* The user's editors change the tree while the worker reads: what a file  *)
(* of an update was when it was read it can only cease to be.              *)
LEMMA EditKeeps == PackageInv /\ Edit => PackageInv'
  <1> SUFFICES ASSUME PackageInv, NEW p \in Paths, Write(p) \/ Replace(p) \/ Unlink(p)
               PROVE  PackageInv'
    BY Zenon DEF Edit
  <1>1. PICK x : EditTo(p, x) /\ (x = Nothing \/ (x \in [ino : Nat, ver : {edits + 2}]))
    BY DEF Write, Replace, Unlink, Nothing, PackageInv, SourceTypes, Trees
  <1>2. /\ UNCHANGED <<kind, step, commit, plan, todo, archive, result, before>>
        /\ edits' = edits + 1 /\ result = "none" /\ tree' = [tree EXCEPT ![p] = x]
    BY <1>1, Zenon DEF EditTo
  <1>3. /\ DOMAIN file' = DOMAIN file /\ file'.half = file.half
        /\ file'.path = file.path /\ file'.opened = file.opened
        /\ file'.now \in {file.now, edits + 2}
    BY DEF Write, Replace, Unlink, PackageInv, SourceTypes
  <1>4. x \in [ino : Nat, ver : Nat] /\ (x = Nothing \/ x.ver = edits + 2)
    BY <1>1 DEF Nothing, PackageInv, SourceTypes
  <1>5. SourceTypes'
    <2>1. tree' \in Trees /\ tree'[p] = x /\ \A q \in Paths : q # p => tree'[q] = tree[q]
      BY <1>2, <1>4 DEF PackageInv, SourceTypes, Trees
    <2> QED BY <1>2, <1>3, <1>4, <2>1 DEF PackageInv, SourceTypes
  <1>6. ASSUME NEW q, Taken(q) PROVE Taken(q)'
    <2>1. q \in Paths /\ plan[q].ver \in 1..(edits + 1) /\ (tree[q] = plan[q] => before[q] = plan[q])
      BY <1>6 DEF Taken
    <2>2. tree'[q] = plan[q] => tree[q] = plan[q]
      BY <1>2, <1>4, <2>1 DEF PackageInv, SourceTypes, Trees, Nothing
    <2> QED BY <1>2, <1>6, <2>1, <2>2 DEF Taken, Whole, PackageInv, SourceTypes
  <1>7. ReadOK' BY <1>2, <1>3 DEF PackageInv, ReadOK, SourceTypes
  <1>8. FilesOK' BY <1>2, <1>6, Zenon DEF PackageInv, FilesOK
  <1>9. TreeOK' /\ PinnedOK'
    BY <1>2 DEF PackageInv, TreeOK, PinnedOK, Whole, ValidPlannedEntries
  <1> QED BY <1>2, <1>5, <1>7, <1>8, <1>9, Zenon DEF PackageInv, StepOK, PackagedIsFaithful

(***************************************************************************)
(* The records of the steps.                                               *)
(***************************************************************************)
(* What a record that was written leaves.                                  *)
LEMMA RecordedFacts ==
    ASSUME EvidenceTypes, NEW s, Recorded(s)
    PROVE  /\ EvidenceTypes'
           /\ mem'.status = s
           /\ mem.id => mem'.id
           /\ mem.errors => mem'.errors
           /\ failed' <=> failed \/ WriteFailed
           /\ failed => failed'
           /\ (failed <=> faults > 0) => (failed' <=> faults' > 0)
           /\ ~failed' => disk' = mem'
  <1>1. PICK m \in Records : Wrote(m) /\ m.status = s /\ (mem.id => m.id) /\ (mem.errors => m.errors)
    BY Zenon DEF Recorded
  <1>2. EvidenceTypes' /\ mem' = m /\ (failed' <=> failed \/ faults' > faults) /\ (~failed' => disk' = m)
        /\ faults \in Nat /\ faults' \in Nat /\ faults' >= faults
    BY <1>1, Zenon DEF Wrote, EvidenceTypes
  <1>3. faults' > faults => faults' > 0 BY <1>2
  <1>4. ~(faults' > faults) => faults' = faults BY <1>2
  <1>5. failed => (faults > 0 => faults' > 0) BY <1>2
  <1> QED BY <1>1, <1>2, <1>3, <1>4, <1>5, Zenon DEF WriteFailed

(* The records of one step.                                                *)
LEMMA SingleRecords ==
    ASSUME EvidenceTypes
    PROVE  /\ \A s \in Statuses : Writes(<<WithStatus(mem, s)>>) => Recorded(s)
           /\ Writes(<<WithId(mem)>>) => Recorded(mem.status) /\ mem'.id
           /\ Writes(<<WithError(mem)>>) => Recorded(mem.status) /\ mem'.errors
           /\ Writes(<<mem>>) => Recorded(mem.status)
  <1>1. ASSUME NEW m \in Records, mem.id => m.id, mem.errors => m.errors, Writes(<<m>>)
        PROVE  Recorded(m.status) /\ mem' = m
    <2>1. <<>> \in Seq(Records) OBVIOUS
    <2>2. Wrote(m) BY <1>1, <2>1, LastWrite, Zenon DEF EvidenceTypes
    <2> QED BY <1>1, <2>2, Zenon DEF Recorded, Wrote
  <1>2. ASSUME NEW s \in Statuses, Writes(<<WithStatus(mem, s)>>) PROVE Recorded(s)
    <2> DEFINE m == WithStatus(mem, s)
    <2>1. m \in Records /\ m.status = s /\ m.id = mem.id /\ m.errors = mem.errors
      BY RecordFacts, Zenon DEF EvidenceTypes
    <2> HIDE DEF m
    <2>2. Writes(<<m>>) BY <1>2, Zenon DEF m
    <2>3. Recorded(m.status) BY <1>1, <2>1, <2>2, Zenon
    <2> QED BY <2>1, <2>3, Zenon
  <1>3. ASSUME Writes(<<WithId(mem)>>) PROVE Recorded(mem.status) /\ mem'.id
    <2> DEFINE m == WithId(mem)
    <2>1. m \in Records /\ m.status = mem.status /\ m.id /\ m.errors = mem.errors
      BY RecordFacts, Zenon DEF EvidenceTypes
    <2> HIDE DEF m
    <2>2. Writes(<<m>>) BY <1>3, Zenon DEF m
    <2>3. Recorded(m.status) /\ mem' = m BY <1>1, <2>1, <2>2, Zenon
    <2> QED BY <2>1, <2>3, Zenon
  <1>4. ASSUME Writes(<<WithError(mem)>>) PROVE Recorded(mem.status) /\ mem'.errors
    <2> DEFINE m == WithError(mem)
    <2>1. m \in Records /\ m.status = mem.status /\ m.id = mem.id /\ m.errors = TRUE
      BY RecordFacts, Zenon DEF EvidenceTypes
    <2> HIDE DEF m
    <2>2. Writes(<<m>>) BY <1>4, Zenon DEF m
    <2>3. Recorded(m.status) /\ mem' = m BY <1>1, <2>1, <2>2, Zenon
    <2> QED BY <2>1, <2>3, Zenon
  <1>5. Writes(<<mem>>) => Recorded(mem.status) BY <1>1, Zenon DEF EvidenceTypes
  <1> QED BY <1>2, <1>3, <1>4, <1>5, Zenon

(* An exit with this status and this code.                                 *)
Ends(s, c) ==
    /\ Recorded(s)
    /\ pc' = "exiting"
    /\ code' = EvidenceExit(c)

(* finish_session_failure and finish_early_interrupted.                    *)
LEMMA FinishFacts ==
    ASSUME EvidenceTypes
    PROVE  /\ \A c : FinishSessionFailure(c) => Ends("failed", c) /\ UNCHANGED <<after, asked>>
           /\ FinishEarlyInterrupted => Ends("interrupted", 130) /\ UNCHANGED <<after, asked>>
  <1>0. <<>> \in Seq(Records) OBVIOUS
  <1>1. Writes(FailureRecord(mem)) => Recorded("failed")
    BY <1>0, FailureRecorded, Zenon DEF EvidenceTypes
  <1>2. Writes(EarlyRecord(mem)) => Recorded("interrupted")
    BY <1>0, EarlyRecorded, Zenon DEF EvidenceTypes
  <1> QED BY <1>1, <1>2, Zenon DEF FinishSessionFailure, FinishEarlyInterrupted, Exit, Ends, Interrupted130

(* A status that follows the errors of the step.                           *)
LEMMA StatusRecorded ==
    ASSUME EvidenceTypes, NEW s \in Statuses, NEW e \in BOOLEAN,
           LET m == IF e THEN WithError(mem) ELSE mem
           IN  Writes((IF e THEN <<m>> ELSE <<>>) \o <<WithStatus(m, s)>>)
    PROVE  Recorded(s) /\ (e => mem'.errors)
  <1> DEFINE m == IF e THEN WithError(mem) ELSE mem
             r == IF e THEN <<m>> ELSE <<>>
             b == WithStatus(m, s)
  <1>1. m \in Records /\ m.id = mem.id /\ (mem.errors => m.errors) /\ (e => m.errors)
    BY RecordFacts, Zenon DEF EvidenceTypes
  <1>2. Writes(r \o <<b>>) BY Zenon
  <1> HIDE DEF m
  <1>3. b \in Records /\ b.status = s /\ b.id = m.id /\ b.errors = m.errors
    BY <1>1, RecordFacts, Zenon
  <1> HIDE DEF b
  <1>4. r \in Seq(Records) BY <1>1
  <1> HIDE DEF r
  <1>5. Wrote(b) BY <1>2, <1>3, <1>4, LastWrite, Zenon DEF EvidenceTypes
  <1> QED BY <1>1, <1>3, <1>5, Zenon DEF Recorded, Wrote

(* The records of a best-effort stop.                                      *)
LEMMA StopRecorded ==
    ASSUME EvidenceTypes, StopEnds, after \in Afters
    PROVE  \/ after = "interrupted" /\ Ends("interrupted", 130)
           \/ after = "provenance" /\ Recorded(mem.status) /\ pc' = "exiting" /\ code' = 1
           \/ after = "failure" /\ Ends("failed", 1)
           \/ after = "exit" /\ Ends("failed", Normalize(res))
           \/ after = "remote" /\ \E x \in ErrorCodes(res.kind) : Ends("failed", x)
  <1>1. PICK cleanup \in {"succeeded", "failed"} :
          LET c == WithCleanup(mem, cleanup)
              m == IF cleanup = "failed" THEN WithError(c) ELSE c
              record == IF cleanup = "failed" THEN <<c, m>> ELSE <<c>>
          IN  CASE after = "interrupted" ->
                     Writes(record \o <<WithStatus(m, "interrupted")>>) /\ Exit(Interrupted130)
                [] after = "provenance" -> Writes(record) /\ pc' = "exiting" /\ code' = 1
                [] after = "failure" -> Writes(record \o FailureRecord(m)) /\ Exit(1)
                [] after = "exit" ->
                     Writes(record \o <<WithStatus(m, "failed")>>) /\ Exit(Normalize(res))
                [] after = "remote" ->
                     /\ Writes(record \o FailureRecord(m))
                     /\ \E x \in ErrorCodes(res.kind) : Exit(x)
    BY Zenon DEF StopEnds
  <1> DEFINE c == WithCleanup(mem, cleanup)
             m == IF cleanup = "failed" THEN WithError(c) ELSE c
             record == IF cleanup = "failed" THEN <<c, m>> ELSE <<c>>
  <1>2. c \in Records /\ c.status = mem.status /\ c.id = mem.id /\ c.errors = mem.errors
    <2>1. cleanup \in {"not attempted", "succeeded", "failed"} BY Zenon
    <2>2. mem \in Records BY Zenon DEF EvidenceTypes
    <2> QED BY <2>1, <2>2, RecordFacts, Zenon
  <1> HIDE DEF c
  <1>3. m \in Records /\ m.status = mem.status /\ m.id = mem.id /\ (mem.errors => m.errors)
    BY <1>2, RecordFacts, Zenon
  <1>4. Writes(record) => Wrote(m)
    <2>1. <<>> \in Seq(Records) OBVIOUS
    <2>2. faults \in Nat /\ failed \in BOOLEAN BY Zenon DEF EvidenceTypes
    <2>3. CASE cleanup = "failed"
      <3>1. Writes(<<c, m>>) => Wrote(m) BY <1>2, <1>3, <2>1, <2>2, LastWrite, Zenon
      <3> QED BY <2>3, <3>1, Zenon
    <2>4. CASE cleanup # "failed"
      <3>1. Writes(<<m>>) => Wrote(m) BY <1>2, <1>3, <2>1, <2>2, LastWrite, Zenon
      <3> QED BY <2>4, <3>1, Zenon
    <2> QED BY <2>3, <2>4, Zenon
  <1>5. /\ after = "interrupted" => Writes(record \o <<WithStatus(m, "interrupted")>>) /\ Exit(130)
        /\ after = "provenance" => Writes(record) /\ pc' = "exiting" /\ code' = 1
        /\ after = "failure" => Writes(record \o FailureRecord(m)) /\ Exit(1)
        /\ after = "exit" => Writes(record \o <<WithStatus(m, "failed")>>) /\ Exit(Normalize(res))
        /\ after = "remote" => /\ Writes(record \o FailureRecord(m))
                               /\ \E x \in ErrorCodes(res.kind) : Exit(x)
    BY <1>1, Zenon DEF c, Interrupted130
  <1> HIDE DEF m
  <1>6. record \in Seq(Records) BY <1>2, <1>3
  <1> HIDE DEF record
  <1>7. ASSUME NEW s \in Statuses, Writes(record \o <<WithStatus(m, s)>>) PROVE Recorded(s)
    <2>1. WithStatus(m, s) \in Records /\ WithStatus(m, s).status = s /\ WithStatus(m, s).id = m.id
          /\ WithStatus(m, s).errors = m.errors
      BY <1>3, RecordFacts, Zenon
    <2>2. Wrote(WithStatus(m, s)) BY <1>2, <1>6, <1>7, <2>1, LastWrite, Zenon DEF EvidenceTypes
    <2> QED BY <1>3, <2>1, <2>2, Zenon DEF Recorded
  <1>8. Writes(record \o FailureRecord(m)) => Recorded("failed")
    BY <1>3, <1>6, FailureRecorded, Zenon
  <1>9. "interrupted" \in Statuses /\ "failed" \in Statuses BY DEF Statuses
  <1>10. Wrote(m) => Recorded(mem.status) BY <1>3, Zenon DEF Recorded
  <1> QED BY <1>4, <1>5, <1>7, <1>8, <1>9, <1>10, Zenon DEF Ends, Exit, Afters

(***************************************************************************)
(* What a step of a session command can do.                                *)
(***************************************************************************)
(* The record after the step has this status.                              *)
Kept(s) == Recorded(s) \/ (UNCHANGED evidence /\ mem.status = s)

(* What a record that was kept or written leaves.                          *)
LEMMA KeptFacts ==
    ASSUME EvidenceOK, NEW s, Kept(s)
    PROVE  /\ EvidenceTypes'
           /\ mem'.status = s
           /\ mem.id => mem'.id
           /\ failed => failed'
           /\ failed' <=> faults' > 0
           /\ ~failed' => disk' = mem'
  <1>1. CASE Recorded(s)
    BY <1>1, RecordedFacts, Zenon DEF EvidenceOK
  <1>2. CASE UNCHANGED evidence /\ mem.status = s
    <2>1. UNCHANGED <<mem, disk, failed, faults>> BY <1>2, Zenon DEF evidence
    <2> QED BY <1>2, <2>1 DEF EvidenceOK, EvidenceTypes
  <1> QED BY <1>1, <1>2, Zenon DEF Kept

Last4 == {"final written", "final failed", "emit", "stopping"} \cup Over

(* The command leaves with an error.                                       *)
Quits(s) ==
    /\ pc \notin Over
    /\ pc' = "exiting"
    /\ Kept(s)
    /\ code' = 0 => StartExited /\ s = "failed" /\ res.code = 0
    /\ failed' => code' = 1
    /\ failed' \/ s \notin Success
    /\ code' = 130 => s = "interrupted" \/ res.code = 130
    /\ cmd = "start" /\ (queued' \/ observed') => asked
    /\ observed' = observed
    /\ queued' \in BOOLEAN
    /\ UNCHANGED <<cmd, seen, res, asked, after>>

(* The command asks the server to stop the session.                        *)
Stops(s) ==
    /\ pc \notin Over
    /\ pc' = "stopping"
    /\ Kept(s)
    /\ asked' = TRUE
    /\ after' = "provenance" => failed'
    /\ after' = "exit" => StartExited
    /\ queued' \in BOOLEAN /\ observed' \in BOOLEAN
    /\ observed' => mem'.id
    /\ UNCHANGED <<cmd, seen, res>>

(* The command goes on, short of its last write.                           *)
Passes(s) ==
    /\ pc \notin Last4
    /\ pc' \notin Last4 \cup {"prepare", "elect"}
    /\ Kept(s)
    /\ s \notin Success
    /\ observed' => mem'.id
    /\ UNCHANGED <<cmd, asked>>
    /\ RequestOK'

(* Nothing that the session's facts are about.                             *)
Idles ==
    /\ UNCHANGED <<cmd, pc, mem, disk, failed, faults, seen, queued, observed, res, after, asked, out, code>>
    /\ pc \in Closing => UNCHANGED dl
    /\ pc \in Over => sig' = sig \/ sig' = "late"

(* The exit of a command that carried out its last write.                  *)
Succeeds ==
    /\ pc = "emit"
    /\ pc' = "exiting"
    /\ sig # "early"
    /\ code' = IF failed THEN 1 ELSE IF cmd \in {"start", "update"} THEN 0 ELSE RequestedExit
    /\ cmd = "start" => out' = "line"
    /\ UNCHANGED <<cmd, sig, mem, disk, failed, faults, seen, queued, observed, res, after, asked, dl>>

(* Leaving with an error keeps the facts of a session command.             *)
LEMMA QuitsKeeps ==
    ASSUME SessionInv, NEW s, Quits(s)
    PROVE  SessionInv'
  <1>1. EvidenceOK' /\ mem'.status = s
    BY KeptFacts, Zenon DEF SessionInv, EvidenceOK, Quits
  <1>2. RequestOK' /\ StatusOK' /\ StopOK'
    BY Zenon DEF SessionInv, Quits, RequestOK, StatusOK, StopOK, Before, Answered, Closing, Over
  <1>3. ExitOK'
    BY <1>1 DEF Quits, ExitOK, StartExited, Interrupted130
  <1> QED BY <1>1, <1>2, <1>3, Zenon DEF SessionInv

(* So does asking the server to stop.                                      *)
LEMMA StopsKeeps ==
    ASSUME SessionInv, NEW s, Stops(s)
    PROVE  SessionInv'
  <1>1. EvidenceOK'
    BY KeptFacts, Zenon DEF SessionInv, EvidenceOK, Stops
  <1>2. RequestOK' /\ StatusOK' /\ StopOK' /\ ExitOK'
    BY Zenon DEF SessionInv, Stops, RequestOK, StatusOK, StopOK, ExitOK, StartExited, Before, Answered,
         Closing, Over
  <1> QED BY <1>1, <1>2, Zenon DEF SessionInv

(* So does going on, short of the last write.                              *)
LEMMA PassesKeeps ==
    ASSUME SessionInv, NEW s, Passes(s)
    PROVE  SessionInv'
  <1>1. EvidenceOK' /\ mem'.status = s
    BY KeptFacts, Zenon DEF SessionInv, EvidenceOK, Passes
  <1>2. StatusOK' /\ StopOK' /\ ExitOK'
    BY <1>1, Zenon DEF SessionInv, Passes, Last4, StatusOK, StopOK, ExitOK, Over, Success
  <1> QED BY <1>1, <1>2, Zenon DEF SessionInv, Passes

(* So does a step of something else.                                       *)
LEMMA IdlesKeeps ==
    ASSUME SessionInv, Idles
    PROVE  SessionInv'
  <1>1. EvidenceOK' BY DEF SessionInv, Idles, EvidenceOK, EvidenceTypes
  <1>2. RequestOK' /\ StopOK' BY DEF SessionInv, Idles, RequestOK, StopOK, StartExited
  <1>3. StatusOK'
    BY Zenon DEF SessionInv, Idles, StatusOK, FinalStatus, Succeeded, ArtifactFailedSuccess,
         TeardownFailed, Closing
  <1>4. ExitOK' BY DEF SessionInv, Idles, ExitOK, StartExited
  <1> QED BY <1>1, <1>2, <1>3, <1>4, Zenon DEF SessionInv

(* So does the exit of a command that carried out its last write.          *)
LEMMA SucceedsKeeps ==
    ASSUME SessionInv, Session, Succeeds, cmd \in {"start", "update", "action", "stop"}
    PROVE  SessionInv'
  <1>1. EvidenceOK' BY DEF SessionInv, Succeeds, EvidenceOK, EvidenceTypes
  <1>2. RequestOK' /\ StopOK' /\ StatusOK'
    BY DEF SessionInv, Succeeds, RequestOK, StopOK, StatusOK, StartExited, Before, Answered, Closing, Over
  <1>3. /\ RequestedExit = 0 <=> Succeeded
        /\ RequestedExit = 130 => res.code = 130
    BY DEF SessionInv, RequestOK, RequestedExit, Normalize, Succeeded, ArtifactFailedSuccess,
         TeardownFailed, TimedOut124
  <1>4. ExitOK'
    <2>1. mem.status = FinalStatus /\ ~asked /\ ~queued
          /\ (cmd \in {"start", "action"} => mem.id) /\ (cmd = "start" => res.kind = "ready")
      BY DEF SessionInv, Succeeds, StatusOK, StopOK, RequestOK, EvidenceOK, Over, Closing
    <2>2. ~StartExited' BY <2>1 DEF Succeeds, StartExited
    <2> QED
      BY <1>3, <2>1, <2>2 DEF Succeeds, ExitOK, FinalStatus, Interrupted130, Success
  <1> QED BY <1>1, <1>2, <1>3, <1>4, Zenon DEF SessionInv

(***************************************************************************)
(* The session commands, up to the request.                                *)
(***************************************************************************)
(* A code under which a command may leave with "failed".                   *)
Owned(c) == (c = 0 => StartExited /\ res.code = 0) /\ (c = 130 => res.code = 130)

(* The command leaves with a status that is no success.                    *)
LEMMA EndsKeeps ==
    ASSUME SessionInv, Session, pc \notin Over, UNCHANGED <<cmd, seen, res, after, asked>>,
           observed' = observed, queued' \in BOOLEAN,
           cmd = "start" => (~queued' /\ ~observed) \/ asked,
           \/ Ends("interrupted", 130)
           \/ \E c : Ends("failed", c) /\ Owned(c)
    PROVE  SessionInv'
  <1>1. observed \in BOOLEAN BY Zenon DEF SessionInv, RequestOK
  <1>2. CASE Ends("interrupted", 130)
    <2>1. code' = 1 \/ (code' = 130 /\ ~failed') BY <1>2, Zenon DEF Ends, EvidenceExit
    <2>2. failed' => code' = 1 BY <1>2, Zenon DEF Ends, EvidenceExit
    <2>3. code' # 0 BY <2>1
    <2>4. "interrupted" \notin Success BY DEF Success
    <2>5. Quits("interrupted") BY <1>1, <1>2, <2>2, <2>3, <2>4, Zenon DEF Quits, Ends, Kept
    <2> QED BY <2>5, QuitsKeeps, Zenon
  <1>3. CASE \E c : Ends("failed", c) /\ Owned(c)
    <2>1. PICK c : Ends("failed", c) /\ Owned(c) BY <1>3, Zenon
    <2>2. code' = 1 \/ (code' = c /\ ~failed') BY <2>1, Zenon DEF Ends, EvidenceExit
    <2>3. (code' = 0 => StartExited /\ res.code = 0) /\ (code' = 130 => res.code = 130)
      BY <2>1, <2>2 DEF Owned
    <2>4. failed' => code' = 1 BY <2>1, Zenon DEF Ends, EvidenceExit
    <2>5. "failed" \notin Success BY DEF Success
    <2>6. Quits("failed") BY <1>1, <2>1, <2>3, <2>4, <2>5, Zenon DEF Quits, Ends, Kept
    <2> QED BY <2>6, QuitsKeeps, Zenon
  <1> QED BY <1>2, <1>3, Zenon

(* ... by finish_session_failure or finish_early_interrupted.              *)
LEMMA FinishKeepsSession ==
    ASSUME SessionInv, Session, pc \notin Over, UNCHANGED <<cmd, seen, queued, observed, res>>,
           cmd = "start" => ~queued /\ ~observed,
           FinishEarlyInterrupted \/ \E c \in {1, 124, 222} : FinishSessionFailure(c)
    PROVE  SessionInv'
  <1>1. EvidenceTypes /\ queued \in BOOLEAN BY Zenon DEF SessionInv, EvidenceOK, RequestOK
  <1>2. CASE FinishEarlyInterrupted
    <2>1. Ends("interrupted", 130) /\ UNCHANGED <<after, asked>> BY <1>1, <1>2, FinishFacts, Zenon
    <2> QED BY <1>1, <2>1, EndsKeeps, Zenon
  <1>3. CASE \E c \in {1, 124, 222} : FinishSessionFailure(c)
    <2>1. PICK c \in {1, 124, 222} : FinishSessionFailure(c) BY <1>3, Zenon
    <2>2. Ends("failed", c) /\ UNCHANGED <<after, asked>> BY <1>1, <2>1, FinishFacts, Zenon
    <2>3. Owned(c) BY DEF Owned
    <2>4. \E x : Ends("failed", x) /\ Owned(x) BY <2>2, <2>3, Zenon
    <2> QED BY <1>1, <2>2, <2>4, EndsKeeps, Zenon
  <1> QED BY <1>2, <1>3, Zenon

(* A session command leaves after a write that failed.                     *)
LEMMA WriteFailedKeeps ==
    ASSUME SessionInv, Session, pc \notin Over, UNCHANGED <<cmd, seen, queued, observed, res, after, asked>>,
           cmd = "start" => ~queued /\ ~observed,
           NEW s, Recorded(s), WriteFailed, pc' = "exiting", code' = 1
    PROVE  SessionInv'
  <1>1. failed' /\ queued \in BOOLEAN
    BY RecordedFacts, Zenon DEF SessionInv, EvidenceOK, RequestOK
  <1>2. 1 # 0 /\ 1 # 130 OBVIOUS
  <1>3. Quits(s) BY <1>1, <1>2, Zenon DEF Quits, Kept
  <1> QED BY <1>3, QuitsKeeps, Zenon

(* The way to the request.                                                 *)
LEMMA EarlyPass ==
    ASSUME SessionInv, pc \in Before, pc' \in (Before \ {"prepare", "elect"}) \cup {"request"},
           NEW s, Kept(s), s \notin Success,
           UNCHANGED <<cmd, asked, seen, queued, observed, res>>
    PROVE  SessionInv'
  <1>1. RequestOK' BY Zenon DEF SessionInv, RequestOK, Before, Answered, Closing
  <1>2. ~observed /\ observed' = observed BY DEF SessionInv, RequestOK
  <1>3. pc \notin Last4 /\ pc' \notin Last4 \cup {"prepare", "elect"}
    BY Zenon DEF Before, Last4, Over
  <1>4. Passes(s) BY <1>1, <1>2, <1>3 DEF Passes
  <1> QED BY <1>4, PassesKeeps, Zenon

(* The command asks for the stop of the session.                           *)
LEMMA StopKeeps ==
    ASSUME SessionInv, pc \notin Over, NEW s, Kept(s), NEW then, BestEffortStop(then),
           then = "provenance" => failed',
           then = "exit" => StartExited,
           UNCHANGED <<cmd, seen, res>>,
           queued' \in BOOLEAN, observed' \in BOOLEAN, observed' => mem'.id
    PROVE  SessionInv'
  <1>1. Stops(s) BY Zenon DEF Stops, BestEffortStop
  <1> QED BY <1>1, StopsKeeps, Zenon

(* The command asks for it without another record.                         *)
LEMMA StopQuietly ==
    ASSUME SessionInv, pc \notin Over, NEW then, BestEffortStop(then), UNCHANGED evidence,
           then = "provenance" => failed,
           then = "exit" => StartExited,
           UNCHANGED <<cmd, seen, queued, observed, res>>
    PROVE  SessionInv'
  <1>1. Kept(mem.status) BY Zenon DEF Kept
  <1>2. UNCHANGED <<mem, failed>> BY Zenon DEF evidence
  <1>3. queued \in BOOLEAN /\ observed \in BOOLEAN /\ (observed => mem.id)
    BY Zenon DEF SessionInv, RequestOK, EvidenceOK
  <1> QED BY <1>1, <1>2, <1>3, StopKeeps, Zenon

(* What holds of a start before its first id.                              *)
LEMMA BeforeFacts ==
    ASSUME SessionInv, pc \in Before
    PROVE  ~queued /\ ~observed /\ pc \notin Over /\ mem.status \notin Success
           /\ queued \in BOOLEAN /\ observed \in BOOLEAN
  BY Zenon DEF SessionInv, RequestOK, StatusOK, Before, Over

(* A record on the way to the request, and what follows it.                *)
LEMMA EarlyWrite ==
    ASSUME SessionInv, Session, pc \in Before, pc # "elect", NEW s, Recorded(s), s \notin Success,
           UNCHANGED <<cmd, seen, queued, observed, res, after, asked>>,
           IF WriteFailed THEN pc' = "exiting" /\ code' = 1
           ELSE pc' \in (Before \ {"prepare", "elect"}) \cup {"request"}
    PROVE  SessionInv'
  <1>1. EvidenceTypes BY Zenon DEF SessionInv, EvidenceOK
  <1>2. CASE WriteFailed BY <1>2, BeforeFacts, WriteFailedKeeps, Zenon
  <1>3. CASE ~WriteFailed
    <2>1. Kept(s) BY Zenon DEF Kept
    <2> QED BY <1>3, <2>1, EarlyPass, Zenon
  <1> QED BY <1>2, <1>3, Zenon

(* main up to the command, and what each command resolves first.           *)
LEMMA StartUp ==
    ASSUME SessionInv, Session,
           PrepareEvidence \/ Prepared \/ LoadConfig \/ ElectFailure \/ ResolveStart \/ ResolveUpdate
             \/ ResolveAction \/ ResolveStop
    PROVE  SessionInv'
  <1>0. UNCHANGED <<cmd, seen, queued, observed, res>> /\ EvidenceTypes /\ pc \in Before
    <2>1. UNCHANGED request /\ UNCHANGED cmd
      BY Zenon DEF PrepareEvidence, Prepared, LoadConfig, ElectFailure, ResolveStart, ResolveUpdate,
            ResolveAction, ResolveStop, resolved
    <2>2. pc \in Before
      BY Zenon DEF PrepareEvidence, Prepared, LoadConfig, ElectFailure, ResolveStart, ResolveUpdate,
            ResolveAction, ResolveStop, Before
    <2> QED BY <2>1, <2>2, Zenon DEF request, SessionInv, EvidenceOK
  <1>1. ~queued /\ ~observed /\ pc \notin Over /\ mem.status \notin Success
        /\ queued \in BOOLEAN /\ observed \in BOOLEAN
    BY <1>0, BeforeFacts, Zenon
  <1>2. ASSUME FinishEarlyInterrupted \/ \E c \in {1, 124, 222} : FinishSessionFailure(c) PROVE SessionInv'
    BY <1>0, <1>1, <1>2, FinishKeepsSession, Zenon
  <1>3. ASSUME pc' \in (Before \ {"prepare", "elect"}) \cup {"request"}, UNCHANGED <<evidence, asked>>,
       pc # "elect"
        PROVE  SessionInv'
    <2>1. Kept(mem.status) BY <1>3, Zenon DEF Kept
    <2> QED BY <1>0, <1>1, <1>3, <2>1, EarlyPass, Zenon
  <1>4. ASSUME NEW s, Recorded(s), s \notin Success, UNCHANGED <<after, asked>>, pc # "elect",
               IF WriteFailed THEN pc' = "exiting" /\ code' = 1
               ELSE pc' \in (Before \ {"prepare", "elect"}) \cup {"request"}
        PROVE  SessionInv'
    BY <1>0, <1>4, EarlyWrite, Zenon
  <1>5. ASSUME Exit(1), UNCHANGED <<after, asked>>, NEW s, Recorded(s), WriteFailed PROVE SessionInv'
    <2>1. code' = 1 /\ pc' = "exiting" BY <1>5, Zenon DEF Exit, EvidenceExit
    <2> QED BY <1>0, <1>1, <1>5, <2>1, WriteFailedKeeps, Zenon
  <1>6. CASE PrepareEvidence
    <2>1. UNCHANGED <<after, asked>> /\ pc # "elect" /\ pc = "prepare"
      BY <1>6 DEF PrepareEvidence
    <2>2. "prepared" \in (Before \ {"prepare", "elect"}) \cup {"request"} BY DEF Before
    <2>3. CASE /\ Writes(<<Provenance>>)
               /\ IF WriteFailed THEN pc' = "exiting" /\ code' = 1 ELSE pc' = "prepared"
      <3>1. Recorded("preparing")
        <4>1. Provenance \in Records /\ Provenance.status = "preparing"
          BY DEF Provenance, Records, Statuses
        <4>2. <<>> \in Seq(Records) OBVIOUS
        <4>3. Wrote(Provenance) BY <1>0, <2>3, <4>1, <4>2, LastWrite, Zenon DEF EvidenceTypes
        <4>4. ~mem.id /\ ~mem.errors BY <2>1, Zenon DEF SessionInv, StatusOK
        <4> QED BY <4>1, <4>3, <4>4, Zenon DEF Recorded
      <3>2. IF WriteFailed THEN pc' = "exiting" /\ code' = 1
            ELSE pc' \in (Before \ {"prepare", "elect"}) \cup {"request"}
        BY <2>2, <2>3, Zenon
      <3>3. "preparing" \notin Success BY DEF Success
      <3> QED BY <1>4, <2>1, <3>1, <3>2, <3>3, Zenon
    <2>4. CASE UNCHANGED evidence /\ pc' = "exiting" /\ code' = 1
      <3>1. 1 # 0 /\ 1 # 130 OBVIOUS
      <3>2. Quits(mem.status) BY <1>0, <1>1, <2>1, <2>4, <3>1, Zenon DEF Quits, Kept
      <3> QED BY <3>2, QuitsKeeps, Zenon
    <2> QED BY <1>6, <2>3, <2>4, Zenon DEF PrepareEvidence
  <1>7. CASE Prepared
    BY <1>2, <1>3, <1>7 DEF Prepared, Before
  <1>8. CASE LoadConfig
    <2>1. CASE FinishEarlyInterrupted BY <1>2, <2>1, Zenon
    <2>2. CASE pc' = "resolve" /\ UNCHANGED <<evidence, after, asked, code>>
      BY <1>3, <1>8, <2>2 DEF LoadConfig, Before
    <2>3. CASE \E c \in {1, 222} : /\ Writes(FailureRecord(mem)) /\ pc' = "elect" /\ code' = c
                                    /\ UNCHANGED <<after, asked>>
      <3>1. Recorded("failed")
        <4>1. <<>> \in Seq(Records) OBVIOUS
        <4> QED BY <1>0, <2>3, <4>1, FailureRecorded, Zenon DEF EvidenceTypes
      <3>2. EvidenceOK' /\ mem'.status = "failed"
        BY <1>0, <1>1, <3>1, KeptFacts, Zenon DEF Kept, SessionInv, EvidenceOK
      <3>3. pc' = "elect" /\ code' \in {1, 222} /\ UNCHANGED asked BY <2>3
      <3>4. pc' \notin Answered /\ pc' \notin {"judge", "download"} \cup Closing
            /\ pc' \notin {"download"} \cup Closing
        BY <3>3 DEF Answered, Closing
      <3>5. RequestOK'
        <4>1. RequestOK /\ ~queued /\ ~observed BY <1>0, Zenon DEF SessionInv, RequestOK
        <4> QED BY <1>0, <3>4, <4>1, Zenon DEF RequestOK
      <3>6. asked \in BOOLEAN /\ ~asked BY <1>0 DEF SessionInv, StopOK, Before, Over
      <3>7. StatusOK' /\ StopOK' /\ ExitOK'
        BY <3>2, <3>3, <3>6 DEF StatusOK, StopOK, ExitOK, Over, Success, ConnectionFallback
      <3> QED BY <3>2, <3>5, <3>7, Zenon DEF SessionInv
    <2> QED BY <1>8, <2>1, <2>2, <2>3, Zenon DEF LoadConfig, ConnectionFallback
  <1>9. CASE ElectFailure
    <2>1. CASE FinishEarlyInterrupted BY <1>2, <2>1, Zenon
    <2>2. CASE ~FinishEarlyInterrupted
      <3>1. pc' = "exiting" /\ code' = (IF failed THEN 1 ELSE code) /\ UNCHANGED <<evidence, after, asked>>
            /\ code \in {1, 222}
        BY <1>9, <2>2 DEF ElectFailure, SessionInv, StopOK, ConnectionFallback
      <3>2. UNCHANGED failed BY <3>1, Zenon DEF evidence
      <3>3. code' # 0 /\ code' # 130 /\ (failed' => code' = 1) BY <3>1, <3>2
      <3>4. Quits(mem.status) BY <1>0, <1>1, <3>1, <3>3, Zenon DEF Quits, Kept
      <3> QED BY <3>4, QuitsKeeps, Zenon
    <2> QED BY <2>1, <2>2, Zenon
  <1>10. ASSUME ResolveSession PROVE SessionInv'
    BY <1>2, <1>10, Zenon DEF ResolveSession
  <1>11. CASE ResolveStart
    <2>1. CASE StartPackaging /\ UNCHANGED evidence
      BY <1>3, <1>11, <2>1 DEF ResolveStart, StartPackaging, resolved, Before
    <2> QED BY <1>10, <1>11, <2>1, Zenon DEF ResolveStart
  <1>12. CASE ResolveUpdate \/ ResolveAction \/ ResolveStop
    <2>0. UNCHANGED <<after, asked>> /\ pc = "resolve"
      BY <1>12, Zenon DEF ResolveUpdate, ResolveAction, ResolveStop, resolved
    <2>1. CASE ResolveSession BY <1>10, <2>1, Zenon
    <2>2. CASE ~ResolveSession
      <3>1. PICK s : /\ Recorded(s) /\ s \notin Success
                     /\ IF WriteFailed THEN Exit(1) ELSE pc' \in {"package", "input", "request"}
        <4>1. CASE ResolveUpdate
          <5>1. Writes(<<mem>>) /\ IF WriteFailed THEN Exit(1) ELSE pc' = "package"
            BY <2>2, <4>1, Zenon DEF ResolveUpdate, StartPackaging
          <5> QED BY <1>0, <1>1, <5>1, SingleRecords, Zenon
        <4>2. CASE ResolveAction
          <5>1. Writes(<<WithStatus(mem, "reading_input")>>) /\ IF WriteFailed THEN Exit(1) ELSE pc' = "input"
            BY <2>2, <4>2, Zenon DEF ResolveAction
          <5>2. "reading_input" \in Statuses /\ "reading_input" \notin Success BY DEF Statuses, Success
          <5>3. EvidenceTypes /\ Writes(<<WithStatus(mem, "reading_input")>>) BY <1>0, <5>1, Zenon
          <5>4. Recorded("reading_input") BY <5>2, <5>3, SingleRecords, Zenon
          <5> QED BY <5>1, <5>2, <5>4, Zenon
        <4>3. CASE ResolveStop
          <5>1. Writes(<<WithStatus(mem, "running")>>) /\ IF WriteFailed THEN Exit(1) ELSE pc' = "request"
            BY <2>2, <4>3, Zenon DEF ResolveStop
          <5>2. "running" \in Statuses /\ "running" \notin Success BY DEF Statuses, Success
          <5>3. EvidenceTypes /\ Writes(<<WithStatus(mem, "running")>>) BY <1>0, <5>1, Zenon
          <5>4. Recorded("running") BY <5>2, <5>3, SingleRecords, Zenon
          <5> QED BY <5>1, <5>2, <5>4, Zenon
        <4> QED BY <1>12, <4>1, <4>2, <4>3, Zenon
      <3>2. {"package", "input", "request"} \subseteq (Before \ {"prepare", "elect"}) \cup {"request"}
        BY DEF Before
      <3>3. CASE WriteFailed BY <1>5, <2>0, <3>1, <3>3, Zenon
      <3>4. CASE ~WriteFailed BY <1>4, <2>0, <3>1, <3>2, <3>4, Zenon
      <3> QED BY <3>3, <3>4, Zenon
    <2> QED BY <2>1, <2>2, Zenon
  <1> QED BY <1>6, <1>7, <1>8, <1>9, <1>11, <1>12, Zenon

(* Packaging, and the input of an action.                                  *)
LEMMA Packaging ==
    ASSUME SessionInv, Session,
           InterruptPackaging \/ PackagedStart \/ PackagedUpdate \/ Cancelled \/ ReadActionInput
    PROVE  SessionInv'
  <1>0. UNCHANGED <<cmd, seen, queued, observed, res>> /\ EvidenceTypes /\ pc \in Before /\ pc # "elect"
    <2>1. UNCHANGED request /\ UNCHANGED cmd
      BY Zenon DEF InterruptPackaging, PackagedStart, PackagedUpdate, PackagedSession, packaged, Cancelled,
            ReadActionInput
    <2>2. pc \in {"package", "cancelling", "input"}
      BY Zenon DEF InterruptPackaging, PackagedStart, PackagedUpdate, PackagedSession, Cancelled,
            ReadActionInput
    <2>3. pc \in Before /\ pc # "elect" BY <2>2 DEF Before
    <2> QED BY <2>1, <2>3, Zenon DEF request, SessionInv, EvidenceOK
  <1>1. ~queued /\ ~observed /\ pc \notin Over /\ mem.status \notin Success
        /\ queued \in BOOLEAN /\ observed \in BOOLEAN
    BY <1>0, BeforeFacts, Zenon
  <1>2. ASSUME FinishSessionFailure(1) PROVE SessionInv'
    BY <1>0, <1>1, <1>2, FinishKeepsSession, Zenon
  <1>3. ASSUME Writes(<<WithStatus(mem, "running")>>),
               IF WriteFailed THEN Exit(1) ELSE pc' = "request" /\ UNCHANGED code,
               UNCHANGED <<after, asked>>
        PROVE  SessionInv'
    <2>1. "running" \in Statuses /\ "running" \notin Success BY DEF Statuses, Success
    <2>2. Recorded("running") BY <1>0, <1>3, <2>1, SingleRecords, Zenon
    <2>3. Exit(1) => pc' = "exiting" /\ code' = 1 BY Zenon DEF Exit, EvidenceExit
    <2>4. IF WriteFailed THEN pc' = "exiting" /\ code' = 1
          ELSE pc' \in (Before \ {"prepare", "elect"}) \cup {"request"}
      BY <1>3, <2>3
    <2> QED BY <1>0, <1>3, <2>1, <2>2, <2>4, EarlyWrite, Zenon
  <1>4. CASE InterruptPackaging
    <2>1. Kept(mem.status) /\ UNCHANGED asked BY <1>4, Zenon DEF InterruptPackaging, Kept
    <2>2. pc' \in (Before \ {"prepare", "elect"}) \cup {"request"} BY <1>4 DEF InterruptPackaging, Before
    <2> QED BY <1>0, <1>1, <2>1, <2>2, EarlyPass, Zenon
  <1>5. CASE PackagedStart \/ PackagedUpdate
    BY <1>2, <1>3, <1>5, Zenon DEF PackagedStart, PackagedUpdate, PackagedSession
  <1>6. CASE Cancelled
    <2> DEFINE m == IF step # "ended" \/ unclean \/ result = "failed" THEN WithError(mem) ELSE mem
               s == IF m # mem THEN <<m>> ELSE <<>>
    <2>1. m \in Records /\ m.id = mem.id /\ (mem.errors => m.errors)
      BY <1>0, RecordFacts, Zenon DEF EvidenceTypes
    <2>2. Writes(s \o EarlyRecord(m)) BY <1>6, Zenon DEF Cancelled
    <2> HIDE DEF m
    <2>3. s \in Seq(Records) BY <2>1
    <2> HIDE DEF s
    <2>4. Recorded("interrupted") BY <1>0, <2>1, <2>2, <2>3, EarlyRecorded, Zenon
    <2>5. Ends("interrupted", 130) /\ UNCHANGED <<after, asked>>
      BY <1>6, <2>4, Zenon DEF Cancelled, Exit, Ends, Interrupted130
    <2> QED BY <1>0, <1>1, <2>5, EndsKeeps, Zenon
  <1>7. CASE ReadActionInput
    <2>1. CASE Interrupt
      <3>1. BestEffortStop("interrupted") /\ UNCHANGED evidence BY <2>1, Zenon DEF Interrupt
      <3>2. "interrupted" # "provenance" /\ "interrupted" # "exit" OBVIOUS
      <3> QED BY <1>0, <1>1, <3>1, <3>2, StopQuietly, Zenon
    <2> QED BY <1>2, <1>3, <1>7, <2>1, Zenon DEF ReadActionInput
  <1> QED BY <1>4, <1>5, <1>6, <1>7, Zenon

(***************************************************************************)
(* The request.                                                            *)
(***************************************************************************)
Middle == {"request", "completed", "judge", "download"}

(* What holds while the request is under way and after it.                 *)
LEMMA MiddleFacts ==
    ASSUME SessionInv, pc \in Middle \cup {"final"}
    PROVE  /\ pc \notin Over /\ pc \notin Last4 /\ mem.status \notin Success
           /\ queued \in BOOLEAN /\ observed \in BOOLEAN /\ EvidenceTypes
           /\ observed => mem.id
  BY Zenon DEF SessionInv, RequestOK, StatusOK, EvidenceOK, Middle, Over, Last4

(* The command goes on after the request was sent.                         *)
LEMMA MiddlePass ==
    ASSUME SessionInv, pc \in Middle, pc' \in Middle \cup {"final"}, NEW s, Kept(s), s \notin Success,
           observed' => mem'.id, UNCHANGED <<cmd, asked>>, RequestOK'
    PROVE  SessionInv'
  <1>1. pc \notin Last4 /\ pc' \notin Last4 \cup {"prepare", "elect"} BY Zenon DEF Middle, Last4, Over
  <1>2. Passes(s) BY <1>1 DEF Passes
  <1> QED BY <1>2, PassesKeeps, Zenon

(* ... and records nothing.                                                *)
LEMMA MiddleQuiet ==
    ASSUME SessionInv, pc \in Middle, pc' \in Middle \cup {"final"}, UNCHANGED evidence,
           UNCHANGED <<cmd, asked, observed>>, RequestOK'
    PROVE  SessionInv'
  <1>1. Kept(mem.status) /\ UNCHANGED mem BY Zenon DEF Kept, evidence
  <1>2. mem.status \notin Success /\ (observed => mem.id) BY MiddleFacts, Zenon
  <1>3. observed' => mem'.id BY <1>1, <1>2, Zenon
  <1> QED BY <1>1, <1>2, <1>3, MiddlePass, Zenon

(* What the reader of the response does.                                   *)
LEMMA Reading ==
    ASSUME SessionInv, Session,
           \/ ReadSessionId \/ ReadActionId \/ ReadStartFinal \/ ReadActionFinal \/ ReadUpdateResponse
           \/ ReadStopResponse \/ ReadEnd \/ Unreachable \/ HttpError \/ StreamBreaks
    PROVE  SessionInv'
  <1>1. pc = "request" /\ pc' \in {"request", "completed"} /\ UNCHANGED waiting /\ UNCHANGED observed
    BY DEF ReadSessionId, ReadActionId, ReadId, ReadStartFinal, ReadActionFinal, ReadUpdateResponse,
           ReadStopResponse, ReadFinal, ReadEnd, Unreachable, HttpError, StreamBreaks, RequestFails, request
  <1>2. UNCHANGED evidence /\ UNCHANGED <<cmd, asked>> BY <1>1, Zenon DEF waiting
  <1>3. /\ queued' \in BOOLEAN
        /\ res'.code \in Int /\ res'.bad \in BOOLEAN
        /\ res'.kind \in {"none", "ready", "exit", "connect", "timeout", "other"}
        /\ seen' = "final" \/ pc' = "completed" => res'.kind # "none"
    <2>1. Codes \subseteq Int BY ClientAssumption
    <2>2. \A r \in Results : r.code \in Int /\ r.bad \in BOOLEAN /\ r.kind = "exit"
      <3>1. SUFFICES ASSUME NEW r \in Results PROVE r.code \in Int /\ r.bad \in BOOLEAN /\ r.kind = "exit"
        OBVIOUS
      <3>2. r.code \in Codes /\ r.bad \in BOOLEAN /\ r.kind \in {"exit"} BY DEF Results
      <3> QED BY <2>1, <3>2, Zenon
    <2>3. \A r \in {Ready, ReadyWithErrors} : r.code \in Int /\ r.bad \in BOOLEAN /\ r.kind = "ready"
      <3>1. Ready.code = 0 /\ Ready.bad = FALSE /\ Ready.kind = "ready" BY DEF Ready, NoResult
      <3>2. ReadyWithErrors.code = 0 /\ ReadyWithErrors.bad = TRUE /\ ReadyWithErrors.kind = "ready"
        BY DEF ReadyWithErrors, Ready, NoResult
      <3>3. \A r \in {Ready, ReadyWithErrors} : r.code = 0 /\ r.bad \in BOOLEAN /\ r.kind = "ready"
        BY <3>1, <3>2, Zenon
      <3>4. 0 \in Int OBVIOUS
      <3> QED BY <3>3, <3>4, Zenon
    <2>4. CASE ReadSessionId \/ ReadActionId \/ ReadEnd
      <3>1. UNCHANGED res /\ queued' \in {TRUE, queued}
            /\ (ReadEnd => seen = "final") /\ (seen' = "final" => seen = "final")
            /\ (pc' = "completed" => seen = "final")
        BY <2>4, Zenon DEF ReadSessionId, ReadActionId, ReadId, ReadEnd, request
      <3> QED BY <1>2, <3>1, Zenon DEF SessionInv, RequestOK
    <2>5. CASE ReadStartFinal \/ ReadActionFinal \/ ReadUpdateResponse \/ ReadStopResponse
      <3>1. UNCHANGED queued /\ (res' \in Results \/ res' \in {Ready, ReadyWithErrors})
        BY <2>5 DEF ReadStartFinal, ReadActionFinal, ReadUpdateResponse, ReadStopResponse, ReadFinal
      <3> QED BY <2>2, <2>3, <3>1 DEF SessionInv, RequestOK
    <2>6. CASE Unreachable \/ HttpError \/ StreamBreaks
      <3>1. UNCHANGED queued /\ \E k \in {"connect", "timeout", "other"} : res' = [NoResult EXCEPT !.kind = k]
        BY <2>6 DEF Unreachable, HttpError, StreamBreaks, RequestFails
      <3> QED BY <3>1 DEF NoResult, SessionInv, RequestOK
    <2> QED BY <2>4, <2>5, <2>6, Zenon
  <1>4. RequestOK'
    BY <1>1, <1>2, <1>3, Zenon DEF SessionInv, RequestOK, Before, Answered, Closing
  <1>5. pc \in Middle /\ pc' \in Middle \cup {"final"} BY <1>1 DEF Middle
  <1> QED BY <1>1, <1>2, <1>4, <1>5, MiddleQuiet, Zenon

(* The ids that arrive, and the completion.                                *)
LEMMA Observing ==
    ASSUME SessionInv, Session, ObserveSession \/ ObserveAction \/ Completed
    PROVE  SessionInv'
  <1>1. pc \in Middle /\ UNCHANGED <<cmd, seen, res>> /\ queued' = FALSE
        /\ pc \in {"request", "completed"}
    BY DEF ObserveSession, ObserveAction, Observe, Completed, interrupting, Middle
  <1>2. pc \notin Over /\ mem.status \notin Success /\ EvidenceTypes
        /\ queued \in BOOLEAN /\ observed \in BOOLEAN
    BY <1>1, MiddleFacts, Zenon
  <1>3. ASSUME pc' = pc \/ (pc = "completed" /\ pc' = "judge"), observed' \in BOOLEAN PROVE RequestOK'
    BY <1>1, <1>3, Zenon DEF SessionInv, RequestOK, Before, Answered, Closing
  <1>4. ASSUME Writes(<<WithId(mem)>>), WriteFailed, BestEffortStop("provenance"), observed' \in BOOLEAN
        PROVE  SessionInv'
    <2>1. Recorded(mem.status) /\ mem'.id BY <1>2, <1>4, SingleRecords, Zenon
    <2>2. failed' /\ Kept(mem.status) BY <1>2, <1>4, <2>1, RecordedFacts, Zenon DEF Kept
    <2>3. "provenance" # "exit" OBVIOUS
    <2>4. queued' \in BOOLEAN BY <1>1, Zenon
    <2> QED BY <1>1, <1>2, <1>4, <2>1, <2>2, <2>3, <2>4, StopKeeps, Zenon
  <1>5. ASSUME Writes(<<WithId(mem)>>), ~WriteFailed, UNCHANGED asked, observed' \in BOOLEAN,
               pc' = pc \/ (pc = "completed" /\ pc' = "judge")
        PROVE  SessionInv'
    <2>1. Recorded(mem.status) /\ mem'.id BY <1>2, <1>5, SingleRecords, Zenon
    <2>2. Kept(mem.status) BY <2>1, Zenon DEF Kept
    <2>3. pc' \in Middle \cup {"final"} BY <1>1, <1>5 DEF Middle
    <2>4. RequestOK' BY <1>3, <1>5, Zenon
    <2> QED BY <1>1, <1>2, <1>5, <2>1, <2>2, <2>3, <2>4, MiddlePass, Zenon
  <1>6. CASE ObserveSession \/ ObserveAction
    BY <1>4, <1>5, <1>6, Zenon DEF ObserveSession, ObserveAction, Observe
  <1>7. CASE Completed /\ queued
    <2>1. observed' \in BOOLEAN BY <1>7 DEF Completed
    <2> QED BY <1>4, <1>5, <1>7, <2>1, Zenon DEF Completed
  <1>8. CASE Completed /\ ~queued
    <2>1. observed' = observed /\ pc = "completed" /\ pc' = "judge" /\ UNCHANGED <<evidence, asked>>
      BY <1>2, <1>8, Zenon DEF Completed
    <2>2. RequestOK' BY <1>2, <1>3, <2>1, Zenon
    <2>3. pc' \in Middle \cup {"final"} BY <2>1 DEF Middle
    <2> QED BY <1>1, <2>1, <2>2, <2>3, MiddleQuiet, Zenon
  <1> QED BY <1>6, <1>7, <1>8, Zenon

(* SIGINT during the request.                                              *)
LEMMA Interrupting ==
    ASSUME SessionInv, Session, InterruptStart \/ InterruptNamed \/ InterruptDropped
    PROVE  SessionInv'
  <1>1. pc = "request" /\ UNCHANGED interrupting
    BY Zenon DEF InterruptStart, InterruptNamed, InterruptDropped
  <1>2. pc \in Middle /\ UNCHANGED <<cmd, seen, res>> BY <1>1 DEF Middle, interrupting
  <1>3. pc \notin Over /\ mem.status \notin Success /\ EvidenceTypes
        /\ queued \in BOOLEAN /\ observed \in BOOLEAN /\ (observed => mem.id)
    BY <1>2, MiddleFacts, Zenon
  <1>4. "interrupted" # "provenance" /\ "interrupted" # "exit" OBVIOUS
  <1>5. ASSUME BestEffortStop("interrupted"), queued' = FALSE, observed' = (observed \/ queued),
               IF queued THEN Writes(<<WithId(mem)>>) ELSE UNCHANGED evidence
        PROVE  SessionInv'
    <2>1. queued' \in BOOLEAN /\ observed' \in BOOLEAN BY <1>5, Zenon
    <2>2. CASE queued
      <3>1. Kept(mem.status) /\ mem'.id BY <1>3, <1>5, <2>2, SingleRecords, Zenon DEF Kept
      <3> QED BY <1>2, <1>3, <1>4, <1>5, <2>1, <3>1, StopKeeps, Zenon
    <2>3. CASE ~queued
      <3>1. Kept(mem.status) /\ UNCHANGED mem BY <1>5, <2>3, Zenon DEF Kept, evidence
      <3>2. observed' => mem'.id BY <1>3, <1>5, <2>3, <3>1, Zenon
      <3> QED BY <1>2, <1>3, <1>4, <1>5, <2>1, <3>1, <3>2, StopKeeps, Zenon
    <2> QED BY <2>2, <2>3, Zenon
  <1>6. ASSUME FinishEarlyInterrupted, UNCHANGED <<queued, observed>>, cmd = "start" => ~queued /\ ~observed
        PROVE  SessionInv'
    BY <1>2, <1>3, <1>6, FinishKeepsSession, Zenon
  <1>7. CASE InterruptStart
    <2>1. CASE queued \/ observed
      BY <1>5, <1>7, <2>1, Zenon DEF InterruptStart, Interrupt
    <2>2. CASE ~queued /\ ~observed
      <3>1. FinishEarlyInterrupted /\ UNCHANGED <<queued, observed>>
        BY <1>3, <1>7, <2>2, Zenon DEF InterruptStart
      <3> QED BY <1>6, <2>2, <3>1, Zenon
    <2> QED BY <2>1, <2>2, Zenon
  <1>8. CASE InterruptNamed
    BY <1>5, <1>8, Zenon DEF InterruptNamed
  <1>9. CASE InterruptDropped
    <2>1. cmd # "start" BY <1>9 DEF InterruptDropped
    <2> QED BY <1>6, <1>9, <2>1, Zenon DEF InterruptDropped
  <1> QED BY <1>7, <1>8, <1>9, Zenon

(***************************************************************************)
(* The outcome and the artifacts.                                          *)
(***************************************************************************)
(* The codes of a remote error are the client's own.                       *)
LEMMA ErrorCodesOwn == \A k : ErrorCodes(k) \subseteq {1, 124, 222}
  BY DEF ErrorCodes, ConnectionFallback, TimedOut124

(* What a command makes of the outcome of its request.                     *)
LEMMA Judging ==
    ASSUME SessionInv, Session, JudgeStart \/ JudgeUpdate \/ JudgeAction \/ JudgeStop
    PROVE  SessionInv'
  <1>1. pc = "judge" /\ UNCHANGED <<cmd, seen, queued, observed, res>>
    BY DEF JudgeStart, JudgeUpdate, JudgeAction, JudgeStop, judged, request
  <1>2. pc \in Middle BY <1>1 DEF Middle
  <1>3. pc \notin Over /\ mem.status \notin Success /\ EvidenceTypes
        /\ queued \in BOOLEAN /\ observed \in BOOLEAN /\ (observed => mem.id)
    BY <1>2, MiddleFacts, Zenon
  <1>4. ~queued /\ res.kind \in {"ready", "exit", "connect", "timeout", "other"} /\ res.bad \in BOOLEAN
        /\ res.code \in Int
    BY <1>1 DEF SessionInv, RequestOK, Answered
  <1>5. ASSUME RemoteError \/ FinishSessionFailure(1), cmd = "start" => ~observed PROVE SessionInv'
    <2>1. \E c \in {1, 124, 222} : FinishSessionFailure(c)
      <3>1. CASE RemoteError
        <4>1. PICK c \in ErrorCodes(res.kind) : FinishSessionFailure(c) BY <3>1, Zenon DEF RemoteError
        <4>2. c \in {1, 124, 222} BY <4>1, ErrorCodesOwn
        <4> QED BY <4>1, <4>2, Zenon
      <3>2. CASE FinishSessionFailure(1) BY <3>2, Zenon
      <3> QED BY <1>5, <3>1, <3>2, Zenon
    <2> QED BY <1>1, <1>3, <1>4, <1>5, <2>1, FinishKeepsSession, Zenon
  <1>6. ASSUME pc' \in {"download", "final"}, NEW s, Kept(s), s \notin Success, UNCHANGED asked,
               observed' => mem'.id, cmd \in {"start", "action"} => observed,
               cmd = "start" => res.kind = "ready"
        PROVE  SessionInv'
    <2>1. RequestOK'
      BY <1>1, <1>4, <1>6, Zenon DEF SessionInv, RequestOK, Before, Answered, Closing
    <2>2. pc' \in Middle \cup {"final"} BY <1>6 DEF Middle
    <2> QED BY <1>1, <1>2, <1>6, <2>1, <2>2, MiddlePass, Zenon
  <1>7. ASSUME pc' \in {"download", "final"}, UNCHANGED evidence, UNCHANGED asked,
               cmd \notin {"start", "action"}
        PROVE  SessionInv'
    <2>1. Kept(mem.status) /\ UNCHANGED mem /\ cmd # "start" BY <1>7, Zenon DEF Kept, evidence
    <2>2. observed' => mem'.id BY <1>1, <1>3, <2>1, Zenon
    <2> QED BY <1>3, <1>6, <1>7, <2>1, <2>2, Zenon
  <1>8. ASSUME NEW a, BestEffortStop(a), UNCHANGED evidence, a # "provenance",
               a = "exit" => StartExited
        PROVE  SessionInv'
    BY <1>1, <1>3, <1>8, StopQuietly, Zenon
  <1>0. ASSUME StreamErrors PROVE Kept(mem.status) /\ (observed' => mem'.id)
    <2>1. Kept(mem.status) BY <1>0, <1>3, SingleRecords, Zenon DEF Kept, StreamErrors
    <2>2. EvidenceOK BY Zenon DEF SessionInv
    <2> QED BY <1>1, <1>3, <2>1, <2>2, KeptFacts, Zenon
  <1>9. CASE JudgeStart
    <2>1. CASE Refused
      <3>0. res.kind # "ready" BY <2>1 DEF Refused
      <3>1. IF observed THEN BestEffortStop("remote") /\ UNCHANGED <<evidence, code>> ELSE RemoteError
        BY <1>9, <2>1, <3>0, Zenon DEF JudgeStart
      <3>2. "remote" # "provenance" /\ "remote" # "exit" OBVIOUS
      <3>3. CASE observed BY <1>8, <3>1, <3>2, <3>3, Zenon
      <3>4. CASE ~observed BY <1>5, <3>1, <3>4, Zenon
      <3> QED BY <3>3, <3>4, Zenon
    <2>2. CASE res.kind = "ready"
      <3>1. ~Refused BY <2>2 DEF Refused
      <3>2. /\ IF ~observed THEN BestEffortStop("failure")
               ELSE IF PollPending THEN BestEffortStop("interrupted")
               ELSE pc' = "final" /\ UNCHANGED <<after, asked>>
            /\ StreamErrors
        BY <1>9, <2>2, <3>1, Zenon DEF JudgeStart
      <3>3. "failure" # "provenance" /\ "failure" # "exit" /\ "interrupted" # "provenance" /\ "interrupted" # "exit"
        OBVIOUS
      <3>4. Kept(mem.status) /\ (observed' => mem'.id) BY <1>0, <3>2, Zenon
      <3>5. CASE observed /\ ~PollPending
        <4>1. pc' \in {"download", "final"} /\ UNCHANGED asked BY <3>2, <3>5
        <4> QED BY <1>3, <1>6, <2>2, <3>4, <3>5, <4>1, Zenon
      <3>6. CASE ~(observed /\ ~PollPending)
        <4>1. BestEffortStop("failure") \/ BestEffortStop("interrupted") BY <3>2, <3>6, Zenon
        <4> QED BY <1>1, <1>3, <3>3, <3>4, <4>1, StopKeeps, Zenon
      <3> QED BY <3>5, <3>6, Zenon
    <2>3. CASE res.kind = "exit"
      <3> DEFINE m == IF res.bad THEN WithError(mem) ELSE mem
      <3>0. ~Refused /\ res.kind # "ready" BY <2>3 DEF Refused
      <3>1. IF observed
            THEN StreamErrors /\ BestEffortStop("exit")
            ELSE /\ Writes((IF res.bad THEN <<m>> ELSE <<>>) \o <<WithStatus(m, "failed")>>)
                 /\ Exit(Normalize(res))
                 /\ UNCHANGED <<after, asked>>
        BY <1>9, <3>0, Zenon DEF JudgeStart
      <3>2. cmd = "start" BY <1>9, Zenon DEF JudgeStart
      <3>3. CASE observed
        <4>1. Kept(mem.status) /\ (observed' => mem'.id) BY <1>0, <3>1, <3>3, Zenon
        <4>2. "exit" # "provenance" /\ StartExited BY <2>3, <3>2 DEF StartExited
        <4> QED BY <1>1, <1>3, <3>1, <3>3, <4>1, <4>2, StopKeeps, Zenon
      <3>4. CASE ~observed
        <4>1. "failed" \in Statuses BY DEF Statuses
        <4>2. Recorded("failed") BY <1>3, <1>4, <3>1, <3>4, <4>1, StatusRecorded, Zenon
        <4>3. Owned(Normalize(res))
          BY <1>4, <2>3, <3>2 DEF Owned, Normalize, TimedOut124, StartExited
        <4>4. Ends("failed", Normalize(res)) /\ UNCHANGED <<after, asked>>
          BY <3>1, <3>4, <4>2, Zenon DEF Ends, Exit
        <4>5. \E c : Ends("failed", c) /\ Owned(c) BY <4>3, <4>4, Zenon
        <4> QED BY <1>1, <1>3, <1>4, <3>4, <4>4, <4>5, EndsKeeps, Zenon
      <3> QED BY <3>3, <3>4, Zenon
    <2> QED BY <1>4, <2>1, <2>2, <2>3 DEF Refused
  <1>10. CASE JudgeUpdate
    <2>1. cmd # "start" /\ cmd # "action" BY <1>10 DEF JudgeUpdate
    <2>2. pc' = "final" => pc' \in {"download", "final"} OBVIOUS
    <2>3. cmd \notin {"start", "action"} BY <2>1
    <2>4. \/ RemoteError \/ FinishSessionFailure(1)
          \/ pc' = "final" /\ UNCHANGED <<evidence, after, asked, code>>
      BY <1>10, Zenon DEF JudgeUpdate
    <2> QED BY <1>5, <1>7, <2>1, <2>2, <2>3, <2>4, Zenon
  <1>11. CASE JudgeAction
    <2>1. cmd = "action" /\ cmd # "start" BY <1>11 DEF JudgeAction
    <2>2. CASE Refused \/ ~observed
      BY <1>5, <1>11, <2>1, <2>2, Zenon DEF JudgeAction
    <2>3. CASE ~Refused /\ observed
      <3>1. StreamErrors /\ pc' = "download" /\ UNCHANGED asked
        BY <1>11, <2>3, Zenon DEF JudgeAction, ToDownload
      <3>2. Kept(mem.status) /\ (observed' => mem'.id) BY <1>0, <3>1, Zenon
      <3>3. pc' \in {"download", "final"} BY <3>1
      <3> QED BY <1>3, <1>6, <2>1, <2>3, <3>1, <3>2, <3>3, Zenon
    <2> QED BY <2>2, <2>3, Zenon
  <1>12. CASE JudgeStop
    <2>1. cmd # "start" /\ cmd # "action" BY <1>12 DEF JudgeStop
    <2>2. cmd \notin {"start", "action"} BY <2>1
    <2>3. RemoteError \/ FinishSessionFailure(1) \/ (ToDownload /\ UNCHANGED evidence)
      BY <1>12, Zenon DEF JudgeStop
    <2>4. ToDownload => pc' \in {"download", "final"} /\ UNCHANGED asked BY DEF ToDownload
    <2> QED BY <1>5, <1>7, <2>1, <2>2, <2>3, <2>4, Zenon
  <1> QED BY <1>9, <1>10, <1>11, <1>12, Zenon

(* The artifacts of an action or a stop.                                   *)
LEMMA Downloading ==
    ASSUME SessionInv, Session, InterruptDownload \/ DownloadedAction \/ DownloadedStop
    PROVE  SessionInv'
  <1>1. pc = "download" /\ UNCHANGED <<cmd, seen, queued, observed, res>>
    BY DEF InterruptDownload, DownloadedAction, DownloadedStop, DownloadedSession, Fetched, judged, request
  <1>2. pc \in Middle BY <1>1 DEF Middle
  <1>3. pc \notin Over /\ mem.status \notin Success /\ EvidenceTypes
        /\ queued \in BOOLEAN /\ observed \in BOOLEAN /\ (observed => mem.id)
    BY <1>2, MiddleFacts, Zenon
  <1>4. "interrupted" # "provenance" /\ "interrupted" # "exit" OBVIOUS
  <1>5. CASE InterruptDownload
    BY <1>1, <1>3, <1>4, <1>5, StopQuietly, Zenon DEF InterruptDownload, Interrupt
  <1>6. CASE DownloadedAction \/ DownloadedStop
    <2>1. /\ IF dl = "failed" \/ TeardownFailed THEN Writes(<<WithError(mem)>>) ELSE UNCHANGED evidence
          /\ IF PollPending THEN BestEffortStop("interrupted") ELSE pc' = "final" /\ UNCHANGED <<after, asked>>
      BY <1>6, Zenon DEF DownloadedAction, DownloadedStop, DownloadedSession
    <2>2. cmd # "start" BY <1>6 DEF DownloadedAction, DownloadedStop
    <2>3. Kept(mem.status) BY <1>3, <2>1, SingleRecords, Zenon DEF Kept
    <2>4. EvidenceOK BY Zenon DEF SessionInv
    <2>5. observed' => mem'.id BY <1>1, <1>3, <2>3, <2>4, KeptFacts, Zenon
    <2>6. CASE PollPending
      BY <1>1, <1>3, <1>4, <2>1, <2>3, <2>5, <2>6, StopKeeps, Zenon
    <2>7. CASE ~PollPending
      <3>1. pc' = "final" /\ UNCHANGED asked BY <2>1, <2>7, Zenon
      <3>2. RequestOK' BY <1>1, <3>1 DEF SessionInv, RequestOK, Before, Answered, Closing
      <3>3. pc' \in Middle \cup {"final"} BY <3>1 DEF Middle
      <3> QED BY <1>1, <1>2, <1>3, <2>2, <2>3, <2>5, <3>1, <3>2, <3>3, MiddlePass, Zenon
    <2> QED BY <2>6, <2>7, Zenon
  <1> QED BY <1>5, <1>6, Zenon

(***************************************************************************)
(* The last write, the election, the output and the end.                   *)
(***************************************************************************)
(* The last write.                                                         *)
LEMMA Finishing ==
    ASSUME SessionInv, Session, cmd \in Commands, FinalWrite
    PROVE  SessionInv'
  <1>1. pc = "final" /\ UNCHANGED <<cmd, seen, queued, observed, res, after, asked, dl, code>>
        /\ Writes(<<WithStatus(mem, FinalStatus)>>)
        /\ pc' = (IF WriteFailed THEN "final failed" ELSE "final written")
    BY Zenon DEF FinalWrite, judged, request, local
  <1>2. EvidenceOK /\ EvidenceTypes BY Zenon DEF SessionInv, EvidenceOK
  <1>3. FinalStatus \in Statuses BY DEF FinalStatus, Statuses
  <1>4. Recorded(FinalStatus) BY <1>1, <1>2, <1>3, SingleRecords, Zenon
  <1>5. Kept(FinalStatus) BY <1>4, Zenon DEF Kept
  <1>6. EvidenceTypes' /\ mem'.status = FinalStatus /\ (mem.id => mem'.id) /\ (failed => failed')
        /\ (failed' <=> faults' > 0) /\ (~failed' => disk' = mem')
    BY <1>2, <1>5, KeptFacts, Zenon
  <1>7. EvidenceOK' BY <1>1, <1>2, <1>6, Zenon DEF EvidenceOK
  <1>8. WriteFailed => failed' BY <1>4, RecordedFacts, <1>2, Zenon DEF EvidenceOK
  <1>9. FinalStatus' = FinalStatus
    BY <1>1, Zenon DEF FinalStatus, Succeeded, ArtifactFailedSuccess, TeardownFailed
  <1>12. StatusOK'
    BY <1>1, <1>6, <1>8, <1>9, Zenon DEF StatusOK, Over
  <1>13. RequestOK' BY <1>1, Zenon DEF SessionInv, RequestOK, Before, Answered, Closing
  <1>14. StopOK' /\ ExitOK' BY <1>1, Zenon DEF SessionInv, StopOK, ExitOK, Over
  <1> QED BY <1>7, <1>12, <1>13, <1>14, Zenon DEF SessionInv

Late == {"final written", "final failed", "emit"}

(* What holds between the last write and the exit.                         *)
LEMMA LateFacts ==
    ASSUME SessionInv, pc \in Late
    PROVE  /\ pc \notin Over /\ ~queued /\ EvidenceTypes /\ queued \in BOOLEAN /\ observed \in BOOLEAN
           /\ observed => mem.id
           /\ pc = "final failed" => failed
           /\ ~asked
  BY Zenon DEF SessionInv, RequestOK, StatusOK, StopOK, EvidenceOK, Late, Over, Closing

(* An interrupt after the last write.                                      *)
LEMMA LateInterrupt ==
    ASSUME SessionInv, Session, pc \in Late, InterruptedLate, UNCHANGED <<judged, local>>
    PROVE  SessionInv'
  <1>1. UNCHANGED <<cmd, seen, queued, observed, res>> BY Zenon DEF judged, request
  <1>2. pc \notin Over BY LateFacts, Zenon
  <1>3. CASE cmd = "update"
    <2>1. cmd # "start" BY <1>3
    <2>2. FinishEarlyInterrupted BY <1>3, Zenon DEF InterruptedLate
    <2> QED BY <1>1, <1>2, <2>1, <2>2, FinishKeepsSession, Zenon
  <1>4. CASE cmd # "update"
    <2>1. BestEffortStop("interrupted") /\ UNCHANGED evidence BY <1>4, Zenon DEF InterruptedLate, Interrupt
    <2>2. "interrupted" # "provenance" /\ "interrupted" # "exit" OBVIOUS
    <2> QED BY <1>1, <1>2, <2>1, <2>2, StopQuietly, Zenon
  <1> QED BY <1>3, <1>4, Zenon

(* The line could not be written.                                          *)
LEMMA EmitFailsKeeps ==
    ASSUME SessionInv, Session, pc \in Late, EmitFails, UNCHANGED <<cmd, seen, queued, observed, res>>
    PROVE  SessionInv'
  <1>1. pc \notin Over BY LateFacts, Zenon
  <1>2. CASE cmd = "start"
    <2>1. BestEffortStop("failure") /\ UNCHANGED evidence BY <1>2, Zenon DEF EmitFails
    <2>2. "failure" # "provenance" /\ "failure" # "exit" OBVIOUS
    <2> QED BY <1>1, <2>1, <2>2, StopQuietly, Zenon
  <1>3. CASE cmd # "start"
    <2>1. \E c \in {1, 124, 222} : FinishSessionFailure(c) BY <1>3 DEF EmitFails
    <2> QED BY <1>1, <1>3, <2>1, FinishKeepsSession, Zenon
  <1> QED BY <1>2, <1>3, Zenon

(* The election after the last write, the output and the claim.            *)
LEMMA Electing ==
    ASSUME SessionInv, Session, cmd \in Commands,
           FinalElect \/ InterruptEmit \/ Emit \/ ClaimAction \/ ClaimStop
    PROVE  SessionInv'
  <1>1. CASE FinalElect
    <2>1. pc \in {"final written", "final failed"} /\ UNCHANGED <<judged, local>>
          /\ UNCHANGED <<cmd, seen, queued, observed, res, dl>>
      BY <1>1, Zenon DEF FinalElect, judged, request, local
    <2>2. pc \in Late BY <2>1, Zenon DEF Late
    <2>3. pc \notin Over /\ (pc = "final failed" => failed) /\ ~queued /\ EvidenceTypes
          /\ observed \in BOOLEAN /\ queued \in BOOLEAN /\ (observed => mem.id) /\ ~asked
      BY <2>2, LateFacts, Zenon
    <2>4. CASE PollPending
      <3>1. InterruptedLate BY <1>1, <2>4, Zenon DEF FinalElect
      <3> QED BY <2>1, <2>2, <3>1, LateInterrupt, Zenon
    <2>5. CASE ~PollPending /\ pc = "final written"
      <3>1. pc' = "emit" /\ UNCHANGED <<mem, disk, failed, faults, after, asked, code>>
        BY <1>1, <2>5, Zenon DEF FinalElect, evidence
      <3>2. EvidenceOK' BY <2>1, <3>1, Zenon DEF SessionInv, EvidenceOK, EvidenceTypes
      <3>3. RequestOK' BY <2>1, <3>1, Zenon DEF SessionInv, RequestOK, Before, Answered, Closing
      <3>4. FinalStatus' = FinalStatus
        BY <2>1, Zenon DEF FinalStatus, Succeeded, ArtifactFailedSuccess, TeardownFailed
      <3>5. StatusOK' BY <2>1, <2>5, <3>1, <3>4, Zenon DEF SessionInv, StatusOK, Over
      <3>6. StopOK' /\ ExitOK' BY <2>1, <3>1, Zenon DEF SessionInv, StopOK, ExitOK, Over
      <3> QED BY <3>2, <3>3, <3>5, <3>6, Zenon DEF SessionInv
    <2>6. CASE ~PollPending /\ pc # "final written"
      <3>1. failed BY <2>1, <2>3, <2>6, Zenon
      <3>2. IF cmd \in {"start", "action"} THEN BestEffortStop("provenance") /\ UNCHANGED evidence
            ELSE ProvenanceFailure /\ UNCHANGED <<mem, disk, faults, after, asked>>
        BY <1>1, <2>6, Zenon DEF FinalElect
      <3>3. CASE cmd \in {"start", "action"}
        <4>1. "provenance" # "exit" OBVIOUS
        <4> QED BY <2>1, <2>3, <3>1, <3>2, <3>3, <4>1, StopQuietly, Zenon
      <3>4. CASE cmd \notin {"start", "action"}
        <4>1. failed' = TRUE /\ pc' = "exiting" /\ code' = 1 /\ UNCHANGED <<mem, disk, faults, after, asked>>
          BY <3>2, <3>4, Zenon DEF ProvenanceFailure
        <4>2. failed' = failed BY <2>3, <3>1, <4>1 DEF EvidenceTypes
        <4>3. Kept(mem.status) BY <4>1, <4>2, Zenon DEF Kept, evidence
        <4>4. pc \notin Over /\ pc' = "exiting" /\ code' = 1 /\ failed' /\ cmd # "start"
          BY <2>3, <3>4, <4>1, Zenon
        <4>5. code' # 0 /\ code' # 130 BY <4>4
        <4>6. UNCHANGED <<cmd, seen, res, asked, after>> /\ observed' = observed /\ queued' \in BOOLEAN
          BY <2>1, <2>3, <4>1, Zenon
        <4>7. Quits(mem.status) BY <4>3, <4>4, <4>5, <4>6, Zenon DEF Quits
        <4> QED BY <4>7, QuitsKeeps, Zenon
      <3> QED BY <3>3, <3>4, Zenon
    <2> QED BY <2>4, <2>5, <2>6, Zenon
  <1>2. CASE InterruptEmit
    <2>1. pc \in Late BY <1>2 DEF InterruptEmit, Late
    <2> QED BY <1>2, <2>1, LateInterrupt, Zenon DEF InterruptEmit
  <1>3. CASE Emit
    <2>1. pc \in Late /\ cmd \in {"start", "update"} BY <1>3 DEF Emit, Late
    <2>2. pc = "emit" /\ UNCHANGED <<cmd, sig, seen, queued, observed, res, dl>> BY <1>3, Zenon DEF Emit,
         request
    <2>3. EmitFails \/ (~PollPending /\ out' = "line" /\ UNCHANGED <<evidence, after, asked>> /\ Exit(0))
      BY <1>3, Zenon DEF Emit, ClaimCompletion
    <2>4. CASE EmitFails BY <2>1, <2>2, <2>4, EmitFailsKeeps, Zenon
    <2>5. CASE ~PollPending /\ out' = "line" /\ UNCHANGED <<evidence, after, asked>> /\ Exit(0)
      <3>1. Succeeds BY <2>1, <2>2, <2>5 DEF Succeeds, PollPending, evidence, Exit, EvidenceExit
      <3> QED BY <2>1, <3>1, SucceedsKeeps
    <2> QED BY <2>3, <2>4, <2>5, Zenon
  <1>4. CASE ClaimAction \/ ClaimStop
    <2>1. cmd \in {"action", "stop"} BY <1>4 DEF ClaimAction, ClaimStop
    <2>2. Claim BY <1>4, Zenon DEF ClaimAction, ClaimStop
    <2>3. pc = "emit" /\ ~PollPending /\ UNCHANGED <<cmd, sig, mem, disk, failed, faults>>
          /\ UNCHANGED <<seen, queued, observed, res, after, asked, dl>> /\ Exit(RequestedExit)
      BY <2>2, Zenon DEF Claim, ClaimCompletion, evidence, request, local
    <2>4. Succeeds BY <2>1, <2>3, Zenon DEF Succeeds, PollPending, Exit, EvidenceExit
    <2> QED BY <2>1, <2>4, SucceedsKeeps
  <1> QED BY <1>1, <1>2, <1>3, <1>4, Zenon

(* The answer to the best-effort stop, and the end.                        *)
LEMMA Ending ==
    ASSUME SessionInv, Session, pc = "stopping" => after \in Afters,
           StopEnds \/ ProcessEnds
    PROVE  SessionInv'
  <1>1. CASE StopEnds
    <2>1. pc = "stopping" /\ UNCHANGED <<cmd, seen, queued, observed, res, after, asked>>
      BY <1>1, Zenon DEF StopEnds, judged, request
    <2>2. pc \notin Over /\ asked /\ queued \in BOOLEAN /\ observed \in BOOLEAN /\ EvidenceTypes
          /\ (after = "provenance" => failed) /\ (after = "exit" => StartExited)
      BY <2>1 DEF SessionInv, StopOK, RequestOK, EvidenceOK, Over
    <2>3. ASSUME NEW c, Ends("failed", c), Owned(c) PROVE SessionInv'
      <3>1. \E x : Ends("failed", x) /\ Owned(x) BY <2>3, Zenon
      <3> QED BY <2>1, <2>2, <3>1, EndsKeeps, Zenon
    <2>4. CASE Ends("interrupted", 130) BY <2>1, <2>2, <2>4, EndsKeeps, Zenon
    <2>5. CASE after = "provenance" /\ Recorded(mem.status) /\ pc' = "exiting" /\ code' = 1
      <3>1. Kept(mem.status) BY <2>5, Zenon DEF Kept
      <3>2. EvidenceOK BY Zenon DEF SessionInv
      <3>3. failed' BY <2>2, <2>5, <3>1, <3>2, KeptFacts, Zenon
      <3>4. Quits(mem.status) BY <2>1, <2>2, <2>5, <3>1, <3>3 DEF Quits
      <3> QED BY <3>4, QuitsKeeps, Zenon
    <2>6. CASE Ends("failed", 1)
      <3>1. Owned(1) BY DEF Owned
      <3> QED BY <2>3, <2>6, <3>1, Zenon
    <2>7. CASE after = "exit" /\ Ends("failed", Normalize(res))
      <3>1. Owned(Normalize(res))
        BY <2>2, <2>7 DEF SessionInv, RequestOK, Owned, Normalize, TimedOut124
      <3> QED BY <2>3, <2>7, <3>1, Zenon
    <2>8. CASE \E x \in ErrorCodes(res.kind) : Ends("failed", x)
      <3>1. PICK x \in ErrorCodes(res.kind) : Ends("failed", x) BY <2>8, Zenon
      <3>2. Owned(x) BY <3>1, ErrorCodesOwn DEF Owned
      <3> QED BY <2>3, <3>1, <3>2, Zenon
    <2> QED BY <1>1, <2>1, <2>2, <2>4, <2>5, <2>6, <2>7, <2>8, StopRecorded, Zenon
  <1>2. CASE ProcessEnds
    <2>1. pc = "exiting" /\ pc' = "ended" /\ UNCHANGED <<cmd, sig, seen, queued, observed, res, after, asked, out, code>>
          /\ UNCHANGED <<mem, disk, failed, faults>>
      BY <1>2, Zenon DEF ProcessEnds, judged, request, local, evidence
    <2>2. EvidenceOK' BY <2>1 DEF SessionInv, EvidenceOK, EvidenceTypes
    <2>3. RequestOK' /\ StatusOK' /\ StopOK'
      BY <2>1 DEF SessionInv, RequestOK, StatusOK, StopOK, Before, Answered, Closing, Over
    <2>4. ExitOK' BY <2>1 DEF SessionInv, ExitOK, StartExited, Over
    <2> QED BY <2>2, <2>3, <2>4, Zenon DEF SessionInv
  <1> QED BY <1>1, <1>2, Zenon

(***************************************************************************)
(* Every command.                                                          *)
(***************************************************************************)
(* Writes of `run` and of every other command keep the types.              *)
LEMMA EvidenceStep ==
    ASSUME EvidenceTypes, ~Session, pc = "stopping" => after \in Afters, Next
    PROVE  EvidenceTypes'
  <1>1. ASSUME UNCHANGED evidence PROVE EvidenceTypes'
    BY <1>1 DEF evidence, EvidenceTypes
  <1>2. ASSUME NEW s, Recorded(s) PROVE EvidenceTypes'
    BY <1>2, RecordedFacts, Zenon
  <1>3. ASSUME FinishEarlyInterrupted \/ \E c : FinishSessionFailure(c) PROVE EvidenceTypes'
    BY <1>2, <1>3, FinishFacts, Zenon DEF Ends
  <1>4. ASSUME NEW s \in Statuses, Writes(<<WithStatus(mem, s)>>) PROVE EvidenceTypes'
    BY <1>2, <1>4, SingleRecords, Zenon
  <1>5. ASSUME Writes(<<WithId(mem)>>) \/ Writes(<<WithError(mem)>>) PROVE EvidenceTypes'
    BY <1>2, <1>5, SingleRecords, Zenon
  <1>6. ASSUME NEW m \in Records, Wrote(m) PROVE EvidenceTypes'
    BY <1>6, Zenon DEF Wrote, EvidenceTypes
  <1>7. ASSUME Writes(<<Provenance>>) \/ Writes(<<Provenance>> \o FailureRecord(Provenance)) PROVE EvidenceTypes'
    <2> DEFINE m == WithError(Provenance)
               b == WithStatus(WithError(Provenance), "failed")
               r == <<Provenance>>
    <2>1. Provenance \in Records /\ "failed" \in Statuses BY DEF Provenance, Records, Statuses
    <2>2. m \in Records BY <2>1, RecordFacts, Zenon
    <2>3. b \in Records BY <2>1, <2>2, RecordFacts, Zenon
    <2>4. r \in Seq(Records) BY <2>1
    <2>5. CASE Writes(<<Provenance>>)
      BY <1>6, <2>1, <2>4, <2>5, LastWrite, Zenon DEF EvidenceTypes
    <2>6. CASE Writes(<<Provenance>> \o FailureRecord(Provenance))
      <3>1. Writes(r \o <<m, b>>) BY <2>6, Zenon DEF FailureRecord
      <3> HIDE DEF m, b, r
      <3> QED BY <1>6, <2>2, <2>3, <2>4, <3>1, LastWrite, Zenon DEF EvidenceTypes
    <2> QED BY <1>7, <2>5, <2>6, Zenon
  <1>8. "running" \in Statuses /\ FinalStatus \in Statuses BY DEF Statuses, FinalStatus
  <1>9. CASE Signal \/ Killed \/ Extraction \/ ((Worker \/ Edit) /\ UNCHANGED client) \/ Fetch \/ ProcessEnds
    BY <1>1, <1>9, Zenon DEF Signal, Killed, Extraction, RefuseArchive, CreateStaging, Stage, Fetch,
         extraction,
         client, ProcessEnds
  <1>10. CASE PrepareEvidence \/ Prepared \/ LoadConfig \/ ElectFailure
    BY <1>1, <1>3, <1>7, <1>10, Zenon DEF PrepareEvidence, Prepared, LoadConfig, ElectFailure
  <1>11. CASE ResolveRun \/ PackagedRun \/ InterruptPackaging
    BY <1>1, <1>3, <1>4, <1>7, <1>8, <1>11, Zenon DEF ResolveRun, PackagedRun, InterruptPackaging
  <1>12. CASE ReadActionInput \/ InterruptDropped \/ InterruptDownload
    BY <1>1, <1>3, <1>4, <1>8, <1>12, Zenon DEF ReadActionInput, InterruptDropped, Interrupt,
         InterruptDownload
  <1>13. CASE Cancelled
    <2> DEFINE m == IF step # "ended" \/ unclean \/ result = "failed" THEN WithError(mem) ELSE mem
               s == IF m # mem THEN <<m>> ELSE <<>>
    <2>1. m \in Records /\ m.id = mem.id /\ (mem.errors => m.errors)
      BY RecordFacts, Zenon DEF EvidenceTypes
    <2>2. Writes(s \o EarlyRecord(m)) BY <1>13, Zenon DEF Cancelled
    <2> HIDE DEF m
    <2>3. s \in Seq(Records) BY <2>1
    <2> HIDE DEF s
    <2>4. Recorded("interrupted") BY <2>1, <2>2, <2>3, EarlyRecorded, Zenon
    <2> QED BY <1>2, <2>4, Zenon
  <1>14. CASE ReadEnd \/ Unreachable \/ HttpError \/ StreamBreaks \/ ReadBuildExit
    BY <1>1, <1>14, Zenon DEF ReadEnd, Unreachable, HttpError, StreamBreaks, RequestFails, ReadBuildExit,
         ReadFinal,
         waiting
  <1>15. CASE Completed \/ JudgeRun
    BY <1>1, <1>3, <1>5, <1>15, Zenon DEF Completed, JudgeRun, RemoteError
  <1>16. CASE DownloadedRun
    <2>1. (dl = "failed") \in BOOLEAN OBVIOUS
    <2>2. LET m == IF dl = "failed" THEN WithError(mem) ELSE mem
          IN  Writes((IF dl = "failed" THEN <<m>> ELSE <<>>) \o <<WithStatus(m, FinalStatus)>>)
      BY <1>16, Zenon DEF DownloadedRun
    <2>3. Recorded(FinalStatus) BY <1>8, <2>1, <2>2, StatusRecorded, Zenon
    <2> QED BY <1>2, <2>3, Zenon
  <1>17. CASE FinalWrite
    BY <1>4, <1>8, <1>17, Zenon DEF FinalWrite
  <1>18. CASE FinalElect \/ InterruptEmit
    <2>1. ASSUME ProvenanceFailure, UNCHANGED <<mem, disk, faults, after, asked>> PROVE EvidenceTypes'
      BY <2>1 DEF ProvenanceFailure, EvidenceTypes
    <2> QED BY <1>1, <1>3, <1>18, <2>1, Zenon DEF FinalElect, InterruptEmit, InterruptedLate, Interrupt
  <1>19. CASE StopEnds
    <2>1. after \in Afters BY <1>19, Zenon DEF StopEnds
    <2>2. \E s : Recorded(s) BY <1>19, <2>1, StopRecorded, Zenon DEF Ends
    <2> QED BY <1>2, <2>2, Zenon
  <1>20. cmd = "run" BY DEF Session
  <1>21. cmd # "start" /\ cmd # "update" /\ cmd # "action" /\ cmd # "stop" /\ cmd \notin {"start", "update"}
         /\ cmd \notin {"action", "stop"}
    BY <1>20
  <1>22. ~(ResolveStart \/ ResolveUpdate \/ ResolveAction \/ ResolveStop \/ PackagedStart \/ PackagedUpdate)
    BY <1>21, Zenon DEF ResolveStart, ResolveUpdate, ResolveAction, ResolveStop, PackagedStart,
         PackagedUpdate
  <1>23. ~(ObserveSession \/ ObserveAction \/ InterruptStart \/ InterruptNamed \/ JudgeStart \/ JudgeUpdate
           \/ JudgeAction \/ JudgeStop \/ DownloadedAction \/ DownloadedStop \/ ClaimAction \/ ClaimStop)
    BY <1>21, Zenon DEF ObserveSession, ObserveAction, InterruptStart, InterruptNamed, JudgeStart,
         JudgeUpdate,
         JudgeAction, JudgeStop, DownloadedAction, DownloadedStop, ClaimAction, ClaimStop
  <1>24. ~(ReadSessionId \/ ReadActionId \/ ReadStartFinal \/ ReadActionFinal \/ ReadUpdateResponse
           \/ ReadStopResponse \/ Emit)
    BY <1>21, Zenon DEF ReadSessionId, ReadActionId, ReadStartFinal, ReadActionFinal, ReadUpdateResponse,
         ReadStopResponse, Emit
  <1> QED BY <1>9, <1>10, <1>11, <1>12, <1>13, <1>14, <1>15, <1>16, <1>17, <1>18, <1>19, <1>22, <1>23,
       <1>24, Zenon
         DEF Next, Process, Outside

(* What every step does to the labels, to the stop that is asked for and   *)
(* to the download.                                                        *)
Frames ==
    /\ cmd' = cmd
    /\ pc' = "stopping" => IF pc = "stopping" THEN after' = after ELSE after' \in Afters
    /\ \/ /\ UNCHANGED <<dl, staging>>
          /\ pc' \in Before \cup Answered \cup {"request"} => pc \in Before \cup Answered \cup {"request"}
          /\ pc' \in Closing => pc \in Closing \cup {"judge"} \/ dl \in {"none", "published", "failed"}
       \/ /\ pc = "judge" /\ pc' = "download" /\ UNCHANGED staging
       \/ /\ pc = "download" /\ pc' \in {"stopping", "exiting"} /\ UNCHANGED staging
          /\ dl \in {"stage", "failed"} => dl' = dl
       \/ /\ pc' = pc
          /\ dl \in {"fetch", "extract", "stage"}
          /\ pc \in Closing => dl' \notin {"fetch", "extract", "stage"}
          /\ staging' = "made" => dl' = "stage"
          /\ staging' = "left" => dl' = "failed"

(* Every step is one of them.                                              *)
LEMMA FrameStep == CommandInv /\ Next => Frames
  <1> SUFFICES ASSUME CommandInv, Next PROVE Frames
    OBVIOUS
  <1>0. (staging = "made" => dl = "stage") /\ (staging = "left" => dl = "failed")
    BY DEF CommandInv, DownloadOK
  <1> USE DEF Frames, Afters, Before, Answered, Closing
  <1>1. ASSUME Signal \/ Killed PROVE Frames
    BY <1>1, Zenon DEF Signal, Killed, local
  <1>2. ASSUME Fetch \/ Extraction PROVE Frames
    <2>1. pc' = pc /\ UNCHANGED <<cmd, after>> /\ dl \in {"fetch", "extract", "stage"} /\ pc \notin Closing
      BY <1>2, Zenon DEF CommandInv, DownloadOK, Fetch, Extraction, RefuseArchive, CreateStaging, Stage,
           extraction
    <2>2. CASE Fetch \/ RefuseArchive
      <3>1. staging # "made" /\ staging # "left" /\ UNCHANGED staging
        BY <1>0, <2>2 DEF Fetch, RefuseArchive
      <3> QED BY <2>1, <3>1, Zenon
    <2>3. CASE CreateStaging
      <3>1. dl' = "stage" /\ staging' # "left" BY <2>3 DEF CreateStaging
      <3> QED BY <2>1, <3>1, Zenon
    <2>4. CASE Stage
      <3>1. staging' # "made" /\ (staging' = "left" => dl' = "failed") BY <2>4 DEF Stage
      <3> QED BY <2>1, <3>1, Zenon
    <2> QED BY <1>2, <2>2, <2>3, <2>4, Zenon DEF Extraction
  <1>3. ASSUME (Worker \/ Edit) /\ UNCHANGED client PROVE Frames
    BY <1>3, Zenon DEF client, local
  <1>4. ASSUME PrepareEvidence \/ Prepared \/ LoadConfig \/ ElectFailure \/ ReadActionInput
        PROVE  Frames
    BY <1>4, Zenon DEF PrepareEvidence, Prepared, LoadConfig, ElectFailure, ReadActionInput,
         FinishEarlyInterrupted,
         FinishSessionFailure, Exit, Interrupt, BestEffortStop, local
  <1>5. ASSUME ResolveRun \/ ResolveStart \/ ResolveUpdate \/ ResolveAction \/ ResolveStop
        PROVE  Frames
    BY <1>5, Zenon DEF ResolveRun, ResolveStart, ResolveUpdate, ResolveAction, ResolveStop, ResolveSession,
         FinishEarlyInterrupted, FinishSessionFailure, Exit, StartPackaging, resolved, local
  <1>6. ASSUME InterruptPackaging \/ PackagedRun \/ PackagedStart \/ PackagedUpdate \/ Cancelled
        PROVE  Frames
    BY <1>6, Zenon DEF InterruptPackaging, PackagedRun, PackagedStart, PackagedUpdate, PackagedSession,
         Cancelled,
         FinishEarlyInterrupted, FinishSessionFailure, Exit, packaged, local
  <1>7. ASSUME ReadSessionId \/ ReadActionId \/ ReadStartFinal \/ ReadActionFinal \/ ReadBuildExit
                 \/ ReadUpdateResponse \/ ReadStopResponse \/ ReadEnd \/ Unreachable \/ HttpError \/ StreamBreaks
        PROVE  Frames
    BY <1>7, Zenon DEF ReadSessionId, ReadActionId, ReadId, ReadStartFinal, ReadActionFinal,
         ReadBuildExit, ReadFinal,
         ReadUpdateResponse, ReadStopResponse, ReadEnd, Unreachable, HttpError, StreamBreaks, RequestFails,
         waiting, local
  <1>8. ASSUME ObserveSession \/ ObserveAction \/ InterruptStart \/ InterruptNamed \/ InterruptDropped \/ Completed
        PROVE  Frames
    BY <1>8, Zenon DEF ObserveSession, ObserveAction, Observe, InterruptStart, InterruptNamed,
         InterruptDropped, Completed,
         FinishEarlyInterrupted, Exit, Interrupt, BestEffortStop, interrupting, local
  <1>9. ASSUME JudgeRun \/ JudgeStart \/ JudgeUpdate \/ JudgeAction \/ JudgeStop PROVE Frames
    BY <1>9, Zenon DEF JudgeRun, JudgeStart, JudgeUpdate, JudgeAction, JudgeStop, RemoteError,
         FinishSessionFailure, Exit,
         BestEffortStop, ToDownload, judged, local
  <1>10. ASSUME InterruptDownload \/ DownloadedRun \/ DownloadedAction \/ DownloadedStop PROVE Frames
    BY <1>10, Zenon DEF InterruptDownload, DownloadedRun, DownloadedAction, DownloadedStop,
         DownloadedSession, Fetched,
         FinishEarlyInterrupted, Exit, Interrupt, BestEffortStop, judged, local
  <1>11. ASSUME FinalWrite \/ FinalElect \/ InterruptEmit \/ ClaimAction \/ ClaimStop \/ Emit PROVE Frames
    BY <1>11, Zenon DEF FinalWrite, FinalElect, InterruptEmit, InterruptedLate, Interrupt, BestEffortStop,
         FinishEarlyInterrupted, FinishSessionFailure, ProvenanceFailure, Exit, ClaimAction, ClaimStop,
         Claim,
         Emit, EmitFails, judged, local
  <1>12. ASSUME StopEnds \/ ProcessEnds PROVE Frames
    <2>1. CASE StopEnds
      <3>1. pc = "stopping" /\ UNCHANGED <<cmd, dl, staging, after>> BY <2>1, Zenon DEF StopEnds, judged,
           local
      <3>2. after \in Afters /\ EvidenceTypes BY <3>1, Zenon DEF CommandInv
      <3>3. pc' = "exiting" BY <2>1, <3>2, StopRecorded, Zenon DEF Ends
      <3> QED BY <3>1, <3>3
    <2>2. CASE ProcessEnds BY <2>2 DEF ProcessEnds, judged, local
    <2> QED BY <1>12, <2>1, <2>2, Zenon
  <1> QED BY <1>1, <1>2, <1>3, <1>4, <1>5, <1>6, <1>7, <1>8, <1>9, <1>10, <1>11, <1>12, Zenon
         DEF Next, Process, Outside

(* What the frames keep.                                                   *)
LEMMA FrameKeeps ==
    ASSUME CommandInv, Frames
    PROVE  cmd' = cmd /\ DownloadOK' /\ (pc' = "stopping" => after' \in Afters)
  <1>1. DownloadOK /\ (pc = "stopping" => after \in Afters) BY Zenon DEF CommandInv
  <1>2. cmd' = cmd /\ (pc' = "stopping" => after' \in Afters) BY <1>1 DEF Frames
  <1>3. /\ pc' \in Before \cup Answered \cup {"request"} => dl' = "none"
        /\ pc' \in Closing => dl' \notin {"fetch", "extract", "stage"}
    BY <1>1, Zenon DEF Frames, DownloadOK, Before, Answered, Closing
  <1>4. pc = "judge" => dl # "stage" /\ dl # "failed" BY <1>1 DEF DownloadOK, Answered
  <1>5. (staging' = "made" => dl' = "stage") /\ (staging' = "left" => dl' = "failed")
    BY <1>1, <1>4 DEF Frames, DownloadOK
  <1> QED BY <1>2, <1>3, <1>5, Zenon DEF DownloadOK

(* Every step of a session command keeps its facts.                        *)
LEMMA SessionStep ==
    ASSUME CommandInv, Session, Next
    PROVE  SessionInv'
  <1>1. SessionInv /\ cmd \in Commands /\ DownloadOK /\ (pc = "stopping" => after \in Afters)
    BY Zenon DEF CommandInv
  <1>2. ASSUME Signal PROVE SessionInv'
    <2>1. Idles BY <1>2 DEF Signal, evidence, request, local, Idles, Over
    <2> QED BY <1>1, <2>1, IdlesKeeps, Zenon
  <1>3. ASSUME Fetch \/ Extraction PROVE SessionInv'
    <2>1. pc \in Closing => UNCHANGED dl
      BY <1>1, <1>3, Zenon DEF DownloadOK, Fetch, Extraction, RefuseArchive, CreateStaging, Stage, Closing
    <2>2. Idles
      BY <1>3, <2>1 DEF Fetch, Extraction, RefuseArchive, CreateStaging, Stage, extraction, evidence,
           request, Idles
    <2> QED BY <1>1, <2>2, IdlesKeeps, Zenon
  <1>4. ASSUME (Worker \/ Edit) /\ UNCHANGED client PROVE SessionInv'
    <2>1. Idles BY <1>4 DEF client, evidence, request, local, Idles
    <2> QED BY <1>1, <2>1, IdlesKeeps, Zenon
  <1>5. ~Killed /\ ~ResolveRun /\ ~PackagedRun /\ ~ReadBuildExit /\ ~JudgeRun /\ ~DownloadedRun
    BY Zenon DEF Killed, ResolveRun, PackagedRun, ReadBuildExit, JudgeRun, DownloadedRun, Session
  <1>6. CASE Process
    <2>1. CASE PrepareEvidence \/ Prepared \/ LoadConfig \/ ElectFailure \/ ResolveStart \/ ResolveUpdate
                 \/ ResolveAction \/ ResolveStop
      BY <1>1, <2>1, StartUp, Zenon
    <2>2. CASE InterruptPackaging \/ PackagedStart \/ PackagedUpdate \/ Cancelled
      BY <1>1, <2>2, Packaging, Zenon
    <2>3. CASE ObserveSession \/ ObserveAction \/ Completed
      BY <1>1, <2>3, Observing, Zenon
    <2>4. CASE InterruptStart \/ InterruptNamed \/ InterruptDropped
      BY <1>1, <2>4, Interrupting, Zenon
    <2>5. CASE JudgeStart \/ JudgeUpdate \/ JudgeAction \/ JudgeStop
      BY <1>1, <2>5, Judging, Zenon
    <2>6. CASE InterruptDownload \/ DownloadedAction \/ DownloadedStop
      BY <1>1, <2>6, Downloading, Zenon
    <2>7. CASE FinalWrite BY <1>1, <2>7, Finishing, Zenon
    <2>8. CASE FinalElect \/ InterruptEmit \/ ClaimAction \/ ClaimStop
      BY <1>1, <2>8, Electing, Zenon
    <2>9. CASE StopEnds \/ ProcessEnds BY <1>1, <2>9, Ending, Zenon
    <2> QED BY <1>5, <1>6, <2>1, <2>2, <2>3, <2>4, <2>5, <2>6, <2>7, <2>8, <2>9, Zenon DEF Process
  <1>7. CASE Outside
    <2>1. CASE ReadActionInput BY <1>1, <2>1, Packaging, Zenon
    <2>2. CASE Emit BY <1>1, <2>2, Electing, Zenon
    <2>3. CASE \/ ReadSessionId \/ ReadActionId \/ ReadStartFinal \/ ReadActionFinal \/ ReadUpdateResponse
               \/ ReadStopResponse \/ ReadEnd \/ Unreachable \/ HttpError \/ StreamBreaks
      BY <1>1, <2>3, Reading, Zenon
    <2> QED BY <1>3, <1>5, <1>7, <2>1, <2>2, <2>3, Zenon DEF Outside
  <1> QED BY <1>2, <1>3, <1>4, <1>5, <1>6, <1>7, Zenon DEF Next

(* The steps at a label before any download.                               *)
Undownloaded ==
    \/ PrepareEvidence \/ Prepared \/ LoadConfig \/ ElectFailure
    \/ ResolveRun \/ ResolveStart \/ ResolveUpdate \/ ResolveAction \/ ResolveStop
    \/ InterruptPackaging \/ PackagedRun \/ PackagedStart \/ PackagedUpdate \/ Cancelled
    \/ ObserveSession \/ ObserveAction \/ InterruptStart \/ InterruptNamed \/ InterruptDropped
    \/ Completed \/ ReadActionInput \/ ReadSessionId \/ ReadActionId
    \/ ReadStartFinal \/ ReadActionFinal \/ ReadBuildExit \/ ReadUpdateResponse \/ ReadStopResponse
    \/ ReadEnd \/ Unreachable \/ HttpError \/ StreamBreaks

Judges == JudgeRun \/ JudgeStart \/ JudgeUpdate \/ JudgeAction \/ JudgeStop

(* The last steps of a session command before it leaves.                   *)
Closes == FinalWrite \/ FinalElect \/ InterruptEmit \/ ClaimAction \/ ClaimStop \/ Emit

(* They leave the download and the output alone.                           *)
LEMMA UndownloadedStep ==
    Undownloaded => pc \in Before \cup Answered \cup {"request"} /\ UNCHANGED <<dl, out>>
  <1> USE DEF Before, Answered
  <1>1. ASSUME PrepareEvidence \/ Prepared \/ LoadConfig \/ ElectFailure \/ ReadActionInput
        PROVE  pc \in Before /\ UNCHANGED <<dl, out>>
    BY <1>1, Zenon DEF PrepareEvidence, Prepared, LoadConfig, ElectFailure, ReadActionInput, local
  <1>2. ASSUME ResolveRun \/ ResolveStart \/ ResolveUpdate \/ ResolveAction \/ ResolveStop
        PROVE  pc \in Before /\ UNCHANGED <<dl, out>>
    BY <1>2, Zenon DEF ResolveRun, ResolveStart, ResolveUpdate, ResolveAction, ResolveStop, resolved, local
  <1>3. ASSUME InterruptPackaging \/ PackagedRun \/ PackagedStart \/ PackagedUpdate \/ Cancelled
        PROVE  pc \in Before /\ UNCHANGED <<dl, out>>
    BY <1>3, Zenon DEF InterruptPackaging, PackagedRun, PackagedStart, PackagedUpdate, PackagedSession,
         Cancelled, packaged, local
  <1>4. ASSUME ObserveSession \/ ObserveAction \/ InterruptStart \/ InterruptNamed \/ InterruptDropped
               \/ Completed
        PROVE  pc \in Answered \cup {"request"} /\ UNCHANGED <<dl, out>>
    BY <1>4, Zenon DEF ObserveSession, ObserveAction, Observe, InterruptStart, InterruptNamed,
         InterruptDropped, Completed, interrupting, local
  <1>5. ASSUME ReadSessionId \/ ReadActionId \/ ReadStartFinal \/ ReadActionFinal \/ ReadBuildExit
               \/ ReadUpdateResponse \/ ReadStopResponse \/ ReadEnd \/ Unreachable \/ HttpError \/ StreamBreaks
        PROVE  pc = "request" /\ UNCHANGED <<dl, out>>
    BY <1>5, Zenon DEF ReadSessionId, ReadActionId, ReadId, ReadStartFinal, ReadActionFinal,
         ReadBuildExit, ReadFinal, ReadUpdateResponse, ReadStopResponse, ReadEnd, Unreachable, HttpError,
         StreamBreaks, RequestFails, waiting, local
  <1> QED BY <1>1, <1>2, <1>3, <1>4, <1>5, Zenon DEF Undownloaded

(* They write a record or leave it, and the download is over.              *)
LEMMA ClosingStep ==
    ASSUME EvidenceTypes, Closes
    PROVE  pc \in Closing /\ UNCHANGED dl /\ (mem.errors => mem'.errors)
  <1>1. pc \in Closing /\ UNCHANGED dl
    BY Zenon DEF Closes, FinalWrite, FinalElect, InterruptEmit, ClaimAction, ClaimStop, Claim, Emit, local,
         Closing
  <1>2. ASSUME \E s : Recorded(s) PROVE mem.errors => mem'.errors
    BY <1>2, RecordedFacts, Zenon
  <1>3. ASSUME FinishEarlyInterrupted \/ \E c : FinishSessionFailure(c) PROVE mem.errors => mem'.errors
    BY <1>2, <1>3, FinishFacts, Zenon DEF Ends
  <1>4. InterruptedLate \/ EmitFails => (mem.errors => mem'.errors)
    BY <1>3, Zenon DEF InterruptedLate, EmitFails, Interrupt, evidence
  <1>5. FinalWrite => \E s : Recorded(s)
    <2>1. FinalStatus \in Statuses BY DEF FinalStatus, Statuses
    <2> QED BY <2>1, SingleRecords, Zenon DEF FinalWrite
  <1>6. FinalElect \/ InterruptEmit \/ ClaimAction \/ ClaimStop \/ Emit => (mem.errors => mem'.errors)
    BY <1>4, Zenon DEF FinalElect, InterruptEmit, ClaimAction, ClaimStop, Claim, Emit, evidence
  <1> QED BY <1>1, <1>2, <1>5, <1>6, Zenon DEF Closes

(* A download is waited for and its failure recorded, unless the command   *)
(* is interrupted.                                                         *)
LEMMA LeftStep == CommandInv /\ Next => LeftOK'
  <1> SUFFICES ASSUME CommandInv, Next PROVE LeftOK'
    OBVIOUS
  <1>0. EvidenceTypes /\ DownloadOK /\ LeftOK /\ (pc = "stopping" => after \in Afters)
    BY Zenon DEF CommandInv
  <1>1. CASE Undownloaded \/ Judges
    <2>1. ASSUME pc \in Before \cup Answered \cup {"request"}, UNCHANGED dl PROVE LeftOK'
      <3>1. dl' = "none" BY <1>0, <2>1, Zenon DEF DownloadOK
      <3> QED BY <3>1 DEF LeftOK, Pending
    <2>2. Judges => pc = "judge" /\ (UNCHANGED dl \/ pc' = "download")
      BY Zenon DEF Judges, JudgeRun, JudgeStart, JudgeUpdate, JudgeAction, JudgeStop, ToDownload, local
    <2>3. pc' = "download" => LeftOK' BY DEF LeftOK
    <2>4. "judge" \in Answered BY DEF Answered
    <2> QED BY <1>1, <2>1, <2>2, <2>3, <2>4, UndownloadedStep, Zenon
  <1>2. CASE Signal \/ ((Worker \/ Edit) /\ UNCHANGED client) \/ ProcessEnds
    <2>1. UNCHANGED <<dl, mem, after>> /\ (UNCHANGED pc \/ (pc = "exiting" /\ pc' = "ended"))
      BY <1>2, Zenon DEF Signal, client, ProcessEnds, evidence, local
    <2> QED BY <1>0, <2>1 DEF LeftOK, Pending, Abandoned, Over
  <1>3. CASE Killed BY <1>3 DEF Killed, LeftOK
  <1>4. CASE Fetch \/ Extraction
    <2>1. UNCHANGED <<pc, mem, after>> /\ dl \in {"fetch", "extract", "stage"}
      BY <1>4, Zenon DEF Fetch, Extraction, RefuseArchive, CreateStaging, Stage, extraction, evidence
    <2> QED BY <1>0, <2>1, Zenon DEF LeftOK, Pending, Abandoned
  <1>5. CASE InterruptDownload
    <2>1. CASE Session
      <3>1. pc' = "stopping" /\ after' = "interrupted"
        BY <1>5, <2>1, Zenon DEF InterruptDownload, Interrupt, BestEffortStop
      <3> QED BY <3>1, Zenon DEF LeftOK, Abandoned
    <2>2. CASE ~Session
      <3>1. Ends("interrupted", 130) BY <1>0, <1>5, <2>2, FinishFacts, Zenon DEF InterruptDownload
      <3>2. mem'.status = "interrupted" /\ pc' = "exiting" BY <1>0, <3>1, RecordedFacts, Zenon DEF Ends
      <3>3. "exiting" \in Over BY DEF Over
      <3> QED BY <3>2, <3>3, Zenon DEF LeftOK, Abandoned
    <2> QED BY <2>1, <2>2, Zenon
  <1>6. CASE DownloadedRun \/ DownloadedAction \/ DownloadedStop
    <2>1. dl \in {"none", "published", "failed"} /\ UNCHANGED dl
      BY <1>6, Zenon DEF DownloadedRun, DownloadedAction, DownloadedStop, DownloadedSession, Fetched, local
    <2>2. ASSUME dl = "failed" PROVE mem'.errors
      <3>1. CASE DownloadedRun
        <4>1. (dl = "failed") \in BOOLEAN /\ FinalStatus \in Statuses BY DEF FinalStatus, Statuses
        <4>2. LET m == IF dl = "failed" THEN WithError(mem) ELSE mem
              IN  Writes((IF dl = "failed" THEN <<m>> ELSE <<>>) \o <<WithStatus(m, FinalStatus)>>)
          BY <3>1, Zenon DEF DownloadedRun
        <4> QED BY <1>0, <2>2, <4>1, <4>2, StatusRecorded, Zenon
      <3>2. CASE DownloadedAction \/ DownloadedStop
        <4>1. Writes(<<WithError(mem)>>)
          BY <2>2, <3>2, Zenon DEF DownloadedAction, DownloadedStop, DownloadedSession
        <4> QED BY <1>0, <4>1, SingleRecords, Zenon
      <3> QED BY <1>6, <3>1, <3>2, Zenon
    <2> QED BY <2>1, <2>2 DEF LeftOK, Pending
  <1>7. CASE Closes
    <2>1. pc \in Closing /\ UNCHANGED dl /\ (mem.errors => mem'.errors) BY <1>0, <1>7, ClosingStep, Zenon
    <2>2. pc \notin {"download", "killed", "stopping"} \cup Over BY <2>1 DEF Closing, Over
    <2> QED BY <1>0, <2>1, <2>2 DEF LeftOK, Pending, Abandoned
  <1>8. CASE StopEnds
    <2>1. pc = "stopping" /\ UNCHANGED dl BY <1>8, Zenon DEF StopEnds, local
    <2>2. (\E s : Recorded(s)) /\ (after = "interrupted" => Ends("interrupted", 130))
      <3>1. after \in Afters BY <1>0, <2>1, Zenon
      <3>2. /\ "interrupted" # "provenance" /\ "interrupted" # "failure"
            /\ "interrupted" # "exit" /\ "interrupted" # "remote"
        OBVIOUS
      <3> QED BY <1>0, <1>8, <3>1, <3>2, StopRecorded, Zenon DEF Ends
    <2>3. mem.errors => mem'.errors BY <1>0, <2>2, RecordedFacts, Zenon
    <2>4. after = "interrupted" => mem'.status = "interrupted" /\ pc' = "exiting"
      BY <1>0, <2>2, RecordedFacts, Zenon DEF Ends
    <2> QED BY <1>0, <2>1, <2>3, <2>4 DEF LeftOK, Pending, Abandoned, Over
  <1> QED BY <1>1, <1>2, <1>3, <1>4, <1>5, <1>6, <1>7, <1>8, Zenon
         DEF Next, Process, Outside, Undownloaded, Judges, Closes

(* The line is printed once, by a command that asked for no stop.          *)
LEMMA LineStep == CommandInv /\ Next => LineOK'
  <1> SUFFICES ASSUME CommandInv, Next PROVE LineOK'
    OBVIOUS
  <1>0. LineOK /\ EvidenceTypes /\ (Session => SessionInv) BY Zenon DEF CommandInv
  <1>1. ASSUME pc \notin Over, UNCHANGED out PROVE LineOK'
    BY <1>0, <1>1, Zenon DEF LineOK
  <1>2. CASE Undownloaded
    <2>1. pc \notin Over BY <1>2, UndownloadedStep DEF Before, Answered, Over
    <2> QED BY <1>1, <1>2, <2>1, UndownloadedStep, Zenon
  <1>3. CASE Judges \/ InterruptDownload \/ DownloadedRun \/ DownloadedAction \/ DownloadedStop
    <2>1. pc \in {"judge", "download"} /\ UNCHANGED out
      BY <1>3, Zenon DEF Judges, JudgeRun, JudgeStart, JudgeUpdate, JudgeAction, JudgeStop,
           InterruptDownload, DownloadedRun, DownloadedAction, DownloadedStop, DownloadedSession, Fetched,
           local
    <2>2. pc \notin Over BY <2>1 DEF Over
    <2> QED BY <1>1, <2>1, <2>2, Zenon
  <1>4. CASE FinalWrite \/ FinalElect \/ InterruptEmit \/ ClaimAction \/ ClaimStop \/ StopEnds
    <2>1. pc \in {"final", "final written", "final failed", "emit", "stopping"} /\ UNCHANGED out
      BY <1>4, Zenon DEF FinalWrite, FinalElect, InterruptEmit, ClaimAction, ClaimStop, Claim, StopEnds,
           local
    <2>2. pc \notin Over BY <2>1 DEF Over
    <2> QED BY <1>1, <2>1, <2>2, Zenon
  <1>5. CASE Signal \/ ((Worker \/ Edit) /\ UNCHANGED client) \/ Fetch \/ Extraction \/ ProcessEnds
    <2>1. UNCHANGED <<cmd, out, asked, failed, code>> /\ (UNCHANGED pc \/ pc' = "ended")
      BY <1>5, Zenon DEF Signal, client, Fetch, Extraction, RefuseArchive, CreateStaging, Stage, extraction,
           ProcessEnds, judged, evidence, local
    <2> QED BY <1>0, <2>1 DEF LineOK, Session, Over
  <1>6. CASE Killed
    <2>1. ~Session /\ UNCHANGED out BY <1>6, Zenon DEF Killed, local
    <2> QED BY <1>0, <2>1, Zenon DEF LineOK
  <1>7. CASE Emit
    <2>1. pc = "emit" /\ cmd \in {"start", "update"} /\ UNCHANGED cmd BY <1>7, Zenon DEF Emit
    <2>2. Session /\ Session' /\ pc \notin Over /\ pc # "stopping" BY <2>1 DEF Session, Over
    <2>3. ~asked BY <1>0, <2>2 DEF SessionInv, StopOK
    <2>4. CASE UNCHANGED out BY <1>1, <2>2, <2>4, Zenon
    <2>5. CASE out' = "line" /\ UNCHANGED asked /\ Exit(0)
      BY <2>2, <2>3, <2>5 DEF LineOK, Exit, EvidenceExit, Over
    <2>6. CASE out' \in {"empty", "partial"} BY <2>6 DEF LineOK
    <2> QED BY <1>7, <2>4, <2>5, <2>6, Zenon DEF Emit
  <1> QED BY <1>2, <1>3, <1>4, <1>5, <1>6, <1>7, Zenon DEF Next, Process, Outside, Undownloaded, Judges

(* Every step of the client keeps the invariant of its command.            *)
LEMMA CommandStep == CommandInv /\ Next => CommandInv'
  <1> SUFFICES ASSUME CommandInv, Next PROVE CommandInv'
    OBVIOUS
  <1>1. cmd' = cmd /\ DownloadOK' /\ (pc' = "stopping" => after' \in Afters)
    BY FrameStep, FrameKeeps, Zenon
  <1>2. cmd \in Commands /\ EvidenceTypes /\ (pc = "stopping" => after \in Afters)
    BY Zenon DEF CommandInv
  <1>0. LeftOK' /\ LineOK' BY LeftStep, LineStep, Zenon
  <1>3. CASE Session
    <2>1. SessionInv' BY <1>3, SessionStep, Zenon
    <2> QED BY <1>0, <1>1, <1>2, <2>1, Zenon DEF CommandInv, SessionInv, EvidenceOK
  <1>4. CASE ~Session
    <2>1. EvidenceTypes' BY <1>2, <1>4, EvidenceStep, Zenon
    <2>2. ~Session' BY <1>1, <1>4, Zenon DEF Session
    <2> QED BY <1>0, <1>1, <1>2, <2>1, <2>2, Zenon DEF CommandInv
  <1> QED BY <1>3, <1>4, Zenon

(***************************************************************************)
(* The client and its worker.                                              *)
(***************************************************************************)
(* The labels at which no worker of the package can be at work.            *)
Elsewhere(l) == l \notin {"package", "cancelling", "killed"} \cup Over

Early == Before \ {"package", "cancelling"}

(* What a step of the client does to the package and its worker.           *)
Stays ==
    /\ UNCHANGED <<source, pc>>
    /\ pc \in Over => UNCHANGED mem
    /\ Extracting' => Extracting \/ pc = "download"

Moves ==
    /\ UNCHANGED source
    /\ Elsewhere(pc)
    /\ Elsewhere(pc') \/ pc' = "exiting"
    /\ pc' \in Early => pc \in Early

Starts ==
    /\ pc = "resolve"
    /\ pc' = "package"
    /\ step' = "package"
    /\ UNCHANGED <<tree, edits, kind, cancelled, commit, plan, todo, file, archive, ws, unclean,
                   result, before>>

Uploads ==
    /\ pc = "package"
    /\ step = "ended"
    /\ ForgetSource
    /\ \/ pc' = "request" /\ result = "ok"
       \/ pc' = "exiting" /\ (result = "ok" \/ mem'.errors)

GivesUp ==
    /\ pc = "cancelling"
    /\ pc' = "exiting"
    /\ UNCHANGED source
    /\ mem'.errors \/ (step = "ended" /\ ~unclean /\ result # "failed")

SourceMoves ==
    Stays \/ Moves \/ Killed \/ Starts \/ InterruptPackaging \/ Uploads \/ GivesUp \/ ProcessEnds
      \/ ((Worker \/ Edit) /\ UNCHANGED client)

(* Every step is one of them.                                              *)
LEMMA SourceStep == CommandInv /\ Next => SourceMoves
  <1> SUFFICES ASSUME CommandInv, EvidenceTypes, Next PROVE SourceMoves
    BY Zenon DEF CommandInv
  <1> USE DEF Elsewhere, Early, Before, Over
  <1>1. ASSUME Signal \/ ReadSessionId \/ ReadActionId \/ ReadStartFinal \/ ReadActionFinal \/ Fetch \/ Extraction
        PROVE  Stays
    BY <1>1, Zenon DEF Signal, ReadSessionId, ReadActionId, ReadId, ReadStartFinal, ReadActionFinal,
         ReadFinal,
         waiting, local, Fetch, Extraction, RefuseArchive, CreateStaging, Stage, extraction, Stays,
         Extracting, evidence
  <1>2. ASSUME PrepareEvidence \/ Prepared \/ LoadConfig \/ ElectFailure \/ ReadActionInput
        PROVE  Moves
    BY <1>2 DEF PrepareEvidence, Prepared, LoadConfig, ElectFailure, ReadActionInput,
         FinishEarlyInterrupted,
         FinishSessionFailure, Exit, Interrupt, BestEffortStop, Moves
  <1>3. ASSUME ResolveRun \/ ResolveStart \/ ResolveUpdate \/ ResolveAction \/ ResolveStop
        PROVE  Moves \/ Starts
    BY <1>3, Zenon DEF ResolveRun, ResolveStart, ResolveUpdate, ResolveAction, ResolveStop, ResolveSession,
         FinishEarlyInterrupted, FinishSessionFailure, Exit, StartPackaging, resolved, Moves, Starts, source
  <1>4. ASSUME PackagedRun \/ PackagedStart \/ PackagedUpdate PROVE Uploads
    <2>1. FinishSessionFailure(1) => mem'.errors
      <3>1. <<>> \in Seq(Records) OBVIOUS
      <3> QED BY <3>1, FailureRecorded, Zenon DEF FinishSessionFailure, EvidenceTypes
    <2> QED
      BY <1>4, <2>1, Zenon DEF PackagedRun, PackagedStart, PackagedUpdate, PackagedSession, Uploads,
         FinishSessionFailure, FinishEarlyInterrupted, Exit
  <1>5. ASSUME Cancelled PROVE GivesUp
    <2> DEFINE m == IF step # "ended" \/ unclean \/ result = "failed" THEN WithError(mem) ELSE mem
               s == IF m # mem THEN <<m>> ELSE <<>>
    <2>1. m \in Records /\ m.id = mem.id /\ (mem.errors => m.errors)
          /\ (step # "ended" \/ unclean \/ result = "failed" => m.errors)
      BY RecordFacts, Zenon DEF EvidenceTypes
    <2>2. Writes(s \o EarlyRecord(m)) BY <1>5, Zenon DEF Cancelled
    <2> HIDE DEF m
    <2>3. s \in Seq(Records) BY <2>1
    <2> HIDE DEF s
    <2>4. m.errors => mem'.errors BY <2>1, <2>2, <2>3, EarlyRecorded, Zenon
    <2> QED BY <1>5, <2>1, <2>4, Zenon DEF Cancelled, GivesUp, Exit
  <1>6. ASSUME ObserveSession \/ ObserveAction \/ InterruptStart \/ InterruptNamed \/ InterruptDropped
               \/ Completed
        PROVE  Moves
    BY <1>6 DEF ObserveSession, ObserveAction, Observe, InterruptStart, InterruptNamed, InterruptDropped,
         Completed, BestEffortStop, Interrupt, FinishEarlyInterrupted, Exit, interrupting, Moves
  <1>7. ASSUME JudgeRun \/ JudgeStart \/ JudgeUpdate \/ JudgeAction \/ JudgeStop PROVE Moves
    <2>1. RemoteError => pc' = "exiting" BY DEF RemoteError, FinishSessionFailure, Exit
    <2> QED
      BY <1>7, <2>1 DEF JudgeRun, JudgeStart, JudgeUpdate, JudgeAction, JudgeStop, judged, ToDownload,
         BestEffortStop, FinishSessionFailure, Exit, Moves
  <1>8. ASSUME InterruptDownload \/ DownloadedRun \/ DownloadedAction \/ DownloadedStop PROVE Moves
    BY <1>8 DEF InterruptDownload, DownloadedRun, DownloadedAction, DownloadedStop, DownloadedSession,
         Fetched, judged, BestEffortStop, Interrupt, FinishEarlyInterrupted, Exit, Moves
  <1>9. ASSUME FinalWrite \/ FinalElect \/ InterruptEmit \/ ClaimAction \/ ClaimStop \/ Emit PROVE Moves
    BY <1>9, Zenon DEF FinalWrite, FinalElect, InterruptEmit, ClaimAction, ClaimStop, Claim, Emit,
         EmitFails,
         InterruptedLate, ProvenanceFailure, judged, BestEffortStop, Interrupt, FinishEarlyInterrupted,
         FinishSessionFailure, Exit, Moves
  <1>10. ASSUME StopEnds PROVE Moves
    <2>1. pc = "stopping" /\ pc' = "exiting" 
      <3>1. pc = "stopping" /\ after \in Afters
        BY <1>10, Zenon DEF StopEnds, CommandInv
      <3> QED BY <1>10, <3>1, Zenon DEF StopEnds, Exit, Afters
    <2> QED BY <1>10, <2>1 DEF StopEnds, judged, Moves
  <1>11. ASSUME ReadBuildExit \/ ReadUpdateResponse \/ ReadStopResponse \/ ReadEnd \/ Unreachable
                \/ HttpError \/ StreamBreaks
         PROVE  Moves
    BY <1>11 DEF ReadBuildExit, ReadUpdateResponse, ReadStopResponse, ReadEnd, Unreachable, HttpError,
         StreamBreaks, RequestFails, ReadFinal, waiting, Moves
  <1> QED
    BY <1>1, <1>2, <1>3, <1>4, <1>5, <1>6, <1>7, <1>8, <1>9, <1>10, <1>11, Zenon
       DEF Next, Process, Outside, SourceMoves

(* The worker touches the workspace only in the steps around its links.    *)
LEMMA WorkerFacts ==
    Worker => /\ Working
              /\ \/ UNCHANGED <<ws, unclean>> /\ step \notin {"links", "forget"}
                 \/ WorkspaceAdd \/ ReadLinks \/ Forget \/ (Check /\ step = "links")
  <1>1. ASSUME Check PROVE Working /\ (UNCHANGED <<ws, unclean>>)
    BY <1>1 DEF Check, Going, CheckPoint, Working
  <1>2. ASSUME FileStep PROVE Working /\ UNCHANGED <<ws, unclean>> /\ step \notin {"links", "forget"}
    BY <1>2, Zenon DEF FileStep, Package, Walk, RequireAbsent, Stat, PackLink, Open, Read, StartRewalk,
         Rewalk,
         Recheck, FinishPackage, FinishUpdatePackage, Fail, Working
  <1>3. ASSUME Pin \/ ListTree \/ ListUpdate \/ StreamFile \/ StreamLink
        PROVE  Working /\ UNCHANGED <<ws, unclean>> /\ step \notin {"links", "forget"}
    BY <1>3, Zenon DEF Pin, ListTree, ListUpdate, ListEntries, StreamFile, StreamLink, StreamEntry, Fail,
         Working
  <1>4. ASSUME WorkspaceAdd \/ ReadLinks \/ Forget PROVE Working
    BY <1>4 DEF WorkspaceAdd, ReadLinks, Forget, Working
  <1>5. Check => step # "forget" BY DEF Check, Going, CheckPoint
  <1> QED BY <1>1, <1>2, <1>3, <1>4, <1>5, Zenon DEF Worker, JjStep

(* The worker and the workspace it registered.                             *)
LEMMA WorkerStep == CommandInv /\ PackageInv /\ WorkerInv /\ SourceMoves => WorkerInv'
  <1> SUFFICES ASSUME CommandInv, PackageInv, WorkerInv, SourceMoves PROVE WorkerInv'
    OBVIOUS
  <1> USE DEF WorkerInv, Working, Before, Over
  <1>1. CASE Stays
    BY <1>1 DEF Stays, source, Extracting, CommandInv, EvidenceTypes
  <1>2. CASE Moves
    BY <1>2 DEF Moves, source, Elsewhere, Early
  <1>3. CASE Killed
    BY <1>3 DEF Killed, source, local, Extracting, CommandInv, DownloadOK, Answered
  <1>4. CASE Starts \/ InterruptPackaging
    BY <1>4 DEF Starts, InterruptPackaging
  <1>5. CASE Uploads
    BY <1>5 DEF Uploads, ForgetSource
  <1>6. CASE GivesUp
    BY <1>6 DEF GivesUp, source
  <1>7. CASE ProcessEnds
    BY <1>7 DEF ProcessEnds, judged, source, local, evidence, Extracting
  <1>8. CASE Worker /\ UNCHANGED client
    <2>1. UNCHANGED <<pc, mem, dl>> BY <1>8 DEF client, evidence, local
    <2>2. Working BY <1>8, WorkerFacts, Zenon
    <2>3. /\ ws' = "registered" => step' \in {"links", "forget"} \/ (step' = "ended" /\ unclean')
          /\ unclean' => step' = "ended" /\ result' # "ok"
      <3>1. CASE UNCHANGED <<ws, unclean>> /\ step \notin {"links", "forget"}
        BY <2>2, <3>1
      <3>2. CASE WorkspaceAdd BY <3>2 DEF WorkspaceAdd
      <3>3. CASE ReadLinks BY <3>3 DEF ReadLinks
      <3>4. CASE Forget
        <4>1. result # "ok" BY <3>4 DEF Forget, PackageInv, StepOK
        <4> QED BY <3>4, <4>1, Zenon DEF Forget
      <3>5. CASE Check /\ step = "links" BY <3>5 DEF Check
      <3> QED BY <1>8, <3>1, <3>2, <3>3, <3>4, <3>5, WorkerFacts, Zenon
    <2> QED BY <2>1, <2>2, <2>3 DEF Extracting
  <1>9. CASE Edit /\ UNCHANGED client
    <2>1. UNCHANGED <<pc, mem, dl>> BY <1>9 DEF client, evidence, local
    <2>2. UNCHANGED <<step, ws, unclean, result>> BY <1>9 DEF Edit, Write, Replace, Unlink, EditTo
    <2> QED BY <2>1, <2>2 DEF Extracting
  <1> QED BY <1>1, <1>2, <1>3, <1>4, <1>5, <1>6, <1>7, <1>8, <1>9, Zenon DEF SourceMoves

(* The package, whatever the command does meanwhile.                       *)
LEMMA PackageStep == WorkerInv /\ PackageInv /\ SourceMoves => PackageInv'
  <1> SUFFICES ASSUME WorkerInv, PackageInv, SourceMoves PROVE PackageInv'
    OBVIOUS
  <1> DEFINE Same == UNCHANGED <<tree, edits, kind, commit, plan, todo, file, archive, result, before>>
  <1>1. ASSUME Same, UNCHANGED step, pc' = "package" => pc = "package" PROVE PackageInv'
    BY <1>1, Zenon DEF PackageInv, SourceTypes, StepOK, PinnedOK, ReadOK, TreeOK, FilesOK,
         PackagedIsFaithful, Taken, Whole, ValidPlannedEntries
  <1>2. CASE Stays \/ Moves \/ Killed \/ InterruptPackaging \/ GivesUp \/ ProcessEnds
    BY <1>1, <1>2, Zenon DEF Stays, Moves, Killed, InterruptPackaging, GivesUp, ProcessEnds, source,
         judged, Elsewhere, Over
  <1>3. CASE Starts
    <2>1. Same /\ step = "idle" /\ step' = "package"
      BY <1>3 DEF Starts, WorkerInv, Before
    <2>2. SourceTypes' BY <2>1, TypesStay, Zenon DEF PackageInv
    <2> QED BY <2>1, <2>2, Zenon DEF PackageInv, StepOK, PinnedOK, ReadOK, TreeOK, FilesOK,
         PackagedIsFaithful
  <1>4. CASE Uploads
    <2>1. UNCHANGED kind /\ step' = "ended" /\ pc' # "package"
      BY <1>4 DEF Uploads, ForgetSource
    <2>2. SourceTypes'
      <3>1. /\ tree' = [p \in Paths |-> Nothing] /\ commit' = tree' /\ before' = tree'
            /\ edits' = 0 /\ file' = NoFile
        BY <1>4, Zenon DEF Uploads, ForgetSource
      <3>2. tree' \in Trees BY <3>1 DEF Trees, Nothing
      <3>3. \A p \in Paths : tree'[p] = Nothing BY <3>1
      <3>4. DOMAIN file' = {"path", "ino", "opened", "now", "half"}
            /\ file'.half = 0 /\ file'.opened = 0 /\ file'.now = 0
        BY <3>1 DEF NoFile
      <3> QED BY <2>1, <3>1, <3>2, <3>3, <3>4 DEF PackageInv, SourceTypes
    <2> QED BY <2>1, <2>2, Zenon DEF PackageInv, StepOK, PinnedOK, ReadOK, TreeOK, FilesOK,
         PackagedIsFaithful
  <1>5. CASE Worker
    BY <1>5, CheckKeeps, PackageKeeps, JjKeeps, StreamKeeps, FinishKeeps, WalkKeeps, StatKeeps, OpenKeeps,
       ReadKeeps, RecheckKeeps, Zenon DEF Worker, FileStep, JjStep
  <1>6. CASE Edit
    BY <1>6, EditKeeps, Zenon
  <1> QED BY <1>2, <1>3, <1>4, <1>5, <1>6, Zenon DEF SourceMoves

(***************************************************************************)
(* The theorems.                                                           *)
(***************************************************************************)
(* The invariant of the client.                                            *)
ClientInv == CommandInv /\ WorkerInv /\ PackageInv

(* main, before the command has done anything.                             *)
LEMMA ClientStarts == Init => ClientInv
  <1> SUFFICES ASSUME Init PROVE ClientInv
    OBVIOUS
  <1>1. EvidenceTypes /\ ~mem.id /\ ~mem.errors /\ mem.status = "none" /\ disk = mem /\ failed = FALSE /\ faults = 0
    BY Zenon DEF Init, EvidenceTypes, NoProvenance, Provenance, Records, Statuses
  <1>2. res.kind = "none" /\ res.code = 0 /\ res.bad = FALSE BY DEF Init, NoResult
  <1>3. CommandInv
    <2>1. DownloadOK /\ pc \in {"config", "prepare"} /\ cmd \in Commands
      BY DEF Init, DownloadOK, Closing
    <2>2. EvidenceOK BY <1>1 DEF Init, EvidenceOK
    <2>3. RequestOK
      <3>1. seen = "none" /\ queued = FALSE /\ observed = FALSE BY DEF Init
      <3>2. queued \in BOOLEAN /\ observed \in BOOLEAN /\ ~queued /\ ~observed BY <3>1, Zenon
      <3>3. pc \notin Answered /\ pc \notin {"download"} \cup Closing BY <2>1, Zenon DEF Answered, Closing
      <3>4. res.bad \in BOOLEAN BY <1>2, Zenon
      <3>5. res.code \in Int /\ res.kind # "exit" /\ seen # "final"
            /\ res.kind \in {"none", "ready", "exit", "connect", "timeout", "other"}
        BY <1>2, <3>1
      <3> QED BY <3>2, <3>3, <3>4, <3>5, Zenon DEF RequestOK
    <2>4. StatusOK /\ StopOK /\ ExitOK
      BY <1>1, <2>1, Zenon DEF Init, StatusOK, StopOK, ExitOK, Success, Over
    <2>5. pc # "stopping" BY <2>1
    <2>6. LeftOK /\ LineOK BY DEF Init, LeftOK, Pending, LineOK
    <2> QED BY <1>1, <2>1, <2>2, <2>3, <2>4, <2>5, <2>6, Zenon DEF CommandInv, SessionInv
  <1>4. SourceInit /\ pc \in {"config", "prepare"} BY DEF Init
  <1>5. WorkerInv
    BY <1>4 DEF Init, SourceInit, WorkerInv, Working, Extracting, Over
  <1>6. SourceTypes
    <2>1. /\ tree = [p \in Paths |-> IF p \in Present THEN [ino |-> 1, ver |-> 1] ELSE Nothing]
          /\ commit = tree /\ before = tree /\ edits = 0 /\ file = NoFile
          /\ kind \in [jj : BOOLEAN, update : BOOLEAN]
      BY <1>4, Zenon DEF SourceInit
    <2>2. tree \in Trees BY <2>1 DEF Trees, Nothing
    <2>3. \A p \in Paths : tree[p] = Nothing \/ tree[p].ver = 1 BY <2>1
    <2>4. DOMAIN file = {"path", "ino", "opened", "now", "half"}
          /\ file.half = 0 /\ file.opened = 0 /\ file.now = 0
      <3>1. file = NoFile BY <2>1, Zenon
      <3> QED BY <3>1 DEF NoFile
    <2> QED BY <2>1, <2>2, <2>3, <2>4 DEF SourceTypes
  <1>7. PackageInv
    <2>1. step = "idle" /\ result = "none" /\ archive = <<>> BY <1>4, Zenon DEF SourceInit
    <2>2. DOMAIN archive = {} BY <2>1
    <2> QED BY <1>6, <2>1, <2>2, Zenon DEF PackageInv, StepOK, PinnedOK, ReadOK, TreeOK, FilesOK,
         PackagedIsFaithful
  <1> QED BY <1>3, <1>5, <1>7, Zenon DEF ClientInv

(* Every step of the client, of its worker and of an editor.               *)
LEMMA ClientStep == ClientInv /\ [Next]_vars => ClientInv'
  <1> SUFFICES ASSUME ClientInv, [Next]_vars PROVE ClientInv'
    OBVIOUS
  <1>1. CASE Next
    <2>1. SourceMoves BY <1>1, SourceStep, Zenon DEF ClientInv
    <2> QED BY <1>1, <2>1, CommandStep, WorkerStep, PackageStep, Zenon DEF ClientInv
  <1>2. CASE UNCHANGED vars
    <2>1. UNCHANGED source /\ UNCHANGED <<cmd, pc, sig, mem, disk, failed, faults, seen, queued, observed, res>>
          /\ UNCHANGED <<after, asked, dl, staging, out, code>>
      BY <1>2, Zenon DEF vars, evidence, request, local
    <2>2. CommandInv'
      <3>1. EvidenceTypes' /\ cmd' \in Commands BY <2>1 DEF ClientInv, CommandInv, EvidenceTypes
      <3>2. DownloadOK' BY <2>1 DEF ClientInv, CommandInv, DownloadOK
      <3>3. Session => SessionInv'
        <4>1. Idles BY <2>1 DEF Idles
        <4> QED BY <4>1, IdlesKeeps, Zenon DEF ClientInv, CommandInv
      <3>4. pc' = "stopping" => after' \in Afters BY <2>1, Zenon DEF ClientInv, CommandInv
      <3>5. LeftOK' BY <2>1 DEF ClientInv, CommandInv, LeftOK, Pending, Abandoned
      <3>6. LineOK' BY <2>1 DEF ClientInv, CommandInv, LineOK, Session
      <3> QED BY <2>1, <3>1, <3>2, <3>3, <3>4, <3>5, <3>6, Zenon DEF CommandInv, Session
    <2>3. Stays BY <2>1 DEF Stays, Extracting
    <2>4. SourceMoves BY <2>3, Zenon DEF SourceMoves
    <2> QED BY <2>2, <2>4, WorkerStep, PackageStep, Zenon DEF ClientInv
  <1> QED BY <1>1, <1>2, Zenon

(* Every reachable state of the client satisfies its invariant, whatever   *)
(* the user, the server and the editors do and whichever writes fail.      *)
THEOREM ClientCorrect == Spec => []ClientInv
  BY ClientStarts, ClientStep, PTL DEF Spec

(* The exit code and provenance.json tell the same story: a session        *)
(* command exits 0 or 130 only with the matching status on disk (a start   *)
(* that the server answered with exit 0 says "failed"), and a success on   *)
(* disk under another code needs a failed write (evidence_exit,            *)
(* SessionEvidence::write_provenance).                                     *)
THEOREM ProvenanceTold == Spec => []ProvenanceAgrees
  <1>1. ClientInv => ProvenanceAgrees
    <2> SUFFICES ASSUME CommandInv, pc = "ended", Session PROVE ProvenanceAgrees
      BY Zenon DEF ClientInv, ProvenanceAgrees, Ended
    <2>1. EvidenceOK /\ ExitOK BY Zenon DEF CommandInv, SessionInv
    <2>2. pc \in Over BY DEF Over
    <2>3. code = 0 => ~failed BY <2>1, <2>2 DEF ExitOK
    <2>4. code = 130 => ~failed BY <2>1, <2>2 DEF ExitOK
    <2>5. ~failed => disk = mem BY <2>1, Zenon DEF EvidenceOK, EvidenceTypes
    <2>6. failed => faults > 0 BY <2>1, Zenon DEF EvidenceOK
    <2> QED
      BY <2>1, <2>2, <2>3, <2>4, <2>5, <2>6 DEF ExitOK, ProvenanceAgrees, Success, Interrupted130
  <1> QED BY <1>1, ClientCorrect, PTL

(* A session whose id reached session_start_command is printed, with exit  *)
(* 0 or 1 after a failed write, or was asked to stop; and an interrupt     *)
(* that came before claim_completion never ends in exit 0.                 *)
THEOREM SessionsStopped == Spec => []NoSessionLeftBehind
  <1>1. ClientInv => NoSessionLeftBehind
    BY DEF ClientInv, CommandInv, SessionInv, ExitOK, LineOK, Over, NoSessionLeftBehind, Ended
  <1> QED BY <1>1, ClientCorrect, PTL

(* When the process ends, no extraction of extract_zip_atomic is half      *)
(* done; a staging directory it could not remove and a jj workspace that   *)
(* WorkspaceCleanupGuard could not forget are recorded as errors, the      *)
(* first unless the command was interrupted.                               *)
THEOREM NothingLeft == Spec => []NothingLeftBehind
  <1>1. ClientInv => NothingLeftBehind
    <2> SUFFICES ASSUME CommandInv, WorkerInv, pc = "ended" PROVE NothingLeftBehind
      BY Zenon DEF ClientInv, NothingLeftBehind, Ended
    <2>1. dl # "stage" BY DEF WorkerInv, Extracting
    <2>2. staging # "made" /\ (staging = "left" => dl = "failed") BY <2>1, Zenon DEF CommandInv, DownloadOK
    <2>3. ws = "registered" => unclean /\ mem.errors BY DEF WorkerInv, Working, Over
    <2>4. dl = "failed" => mem.errors \/ mem.status = "interrupted"
      BY DEF CommandInv, LeftOK, Pending, Abandoned
    <2>5. mem.errors => ErrorRecorded
      <3>1. ~failed => disk = mem BY Zenon DEF CommandInv, EvidenceTypes
      <3> QED BY <3>1, Zenon DEF ErrorRecorded
    <2> QED BY <2>2, <2>3, <2>4, <2>5, Zenon DEF NothingLeftBehind
  <1> QED BY <1>1, ClientCorrect, PTL

(* What package_source_cancellable and package_update_source_cancellable   *)
(* hand to the upload was there: the pinned commit, or file versions that  *)
(* editors did not change under the reads and the recheck.                 *)
THEOREM PackageFaithful == Spec => []PackagedIsFaithful
  <1>1. ClientInv => PackagedIsFaithful BY Zenon DEF ClientInv, PackageInv
  <1> QED BY <1>1, ClientCorrect, PTL
=============================================================================
