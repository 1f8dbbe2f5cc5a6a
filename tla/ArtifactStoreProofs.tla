------------------------ MODULE ArtifactStoreProofs ------------------------
(***************************************************************************)
(* Proofs about the artifact store: what a stored archive holds, and which *)
(* archives the garbage collector's TTL pass may remove, for any number of *)
(* snapshots, any workspace and patterns, any TTL and any number of        *)
(* writes, restarts and failed removals.                                   *)
(*                                                                         *)
(* StoreInv is the inductive invariant.  An archive is written two steps   *)
(* before it is published and it is read through descriptors opened        *)
(* earlier still, so SelectedOK, OpenedOK and ArchiveOK carry what the     *)
(* traversal recorded through those steps while the services write.        *)
(* PhaseOK says which directory contents a phase of the collection may     *)
(* find, removals and failed removals included.  ScannedOK relates what the*)
(* collector has on its list to the directories as they are now.           *)
(***************************************************************************)
EXTENDS ArtifactStore, TLAPS

Phases == Collecting \cup {"idle", "failed", "left", "none", "reported", "lost"}

StoreTypes ==
    /\ files \in [Paths -> [kind : {"none", "file", "link"}, ver : Nat, size : Nat]]
    /\ pc \in [Ids -> Phases]
    /\ cancel \in [Ids -> BOOLEAN]
    /\ dir \in [Ids -> {"absent", "empty", "temp", "zip"}]
    /\ age \in [Ids -> Nat]
    /\ DOMAIN matched = Ids
    /\ DOMAIN opened = Ids
    /\ DOMAIN archive = Ids
    /\ DOMAIN bytes = Ids

\* The traversal records selected paths only.
SelectedOK ==
    \A i \in Ids : \A p \in DOMAIN matched[i] :
        p \in Paths /\ IsIncluded(p) /\ ~IsExcluded(p) /\ ~Matches(Restricted, p)

OpenedTypes ==
    \A i \in Ids : \A p \in DOMAIN opened[i] : opened[i][p] \in [ver : Nat, size : Nat]

\* Descriptors are open from Open to the end of the collection, on the versions
\* the traversal saw.
OpenedOK ==
    \A i \in Ids : pc[i] \in {"mkdir", "create", "write"} =>
        /\ DOMAIN opened[i] = DOMAIN matched[i]
        /\ \A p \in DOMAIN matched[i] : opened[i][p].ver = matched[i][p]

\* What the archive holds once it is written, and as long as it is there.
ArchiveOK ==
    \A i \in Ids : pc[i] \in {"rename", "check", "reported"} \/ dir[i] = "zip" =>
        /\ archive[i] = {<<p, matched[i][p]>> : p \in DOMAIN matched[i]}
        /\ bytes[i] <= MaxUncompressed

\* What each phase may find in its directory.
PhaseOK ==
    \A i \in Ids :
        /\ pc[i] \in {"idle", "walk", "open", "mkdir", "none", "failed"} => dir[i] = "absent"
        /\ pc[i] = "create" => dir[i] \in {"absent", "empty"}
        /\ pc[i] \in {"write", "rename"} => dir[i] \in {"absent", "empty", "temp"}
        /\ pc[i] \in {"check", "reported"} => dir[i] \in {"absent", "empty", "zip"}

\* Entries the collector keeps of the present pass.
Listed == gc.entries \cup (IF gc.pc = "scan" THEN {} ELSE gc.todo)

GcTypes ==
    /\ gc = [pc |-> gc.pc, todo |-> gc.todo, entries |-> gc.entries]
    /\ gc.pc \in {"idle", "scan", "ttl", "size"}
    /\ gc.pc = "idle" => gc.todo = {} /\ gc.entries = {}
    /\ gc.pc = "scan" => gc.todo \subseteq Ids
    /\ \A e \in Listed : e \in [id : Ids, published : BOOLEAN, size : Nat, age : Nat]

\* An entry scanned as published has the age of the archive it was scanned from,
\* as long as that archive is there; the archive never comes back.
ScannedOK ==
    \A e \in Listed : e.published =>
        /\ pc[e.id] \in {"check", "reported", "lost", "failed", "left"}
        /\ dir[e.id] \in {"absent", "empty", "zip"}
        /\ dir[e.id] = "zip" => age[e.id] = e.age

\* The TTL pass works on expired entries.
ExpiredOK == gc.pc = "ttl" => \A e \in gc.todo : e.age = Expired

StoreInv ==
    /\ StoreTypes
    /\ SelectedOK
    /\ OpenedTypes
    /\ OpenedOK
    /\ ArchiveOK
    /\ PhaseOK
    /\ GcTypes
    /\ ScannedOK
    /\ ExpiredOK
-----------------------------------------------------------------------------

\* What a removal, failed or not, may do to the directories.
Shrinks(i) ==
    /\ dir' \in [Ids -> {"absent", "empty", "temp", "zip"}]
    /\ age' \in [Ids -> Nat]
    /\ \A j \in Ids \ {i} : dir'[j] = dir[j] /\ age'[j] = age[j]
    /\ dir'[i] \in {"absent", "empty", dir[i]}
    /\ dir[i] = "absent" => dir'[i] = "absent"
    /\ dir'[i] # "absent" => age'[i] = age[i]

LEMMA RemovalShrinks ==
    ASSUME StoreTypes, NEW i \in Ids, RemoveDir(i) \/ KeepDir(i)
    PROVE  Shrinks(i) /\ (RemoveDir(i) => dir'[i] = "absent")
  <1> USE DEF StoreTypes, Shrinks
  <1>1. CASE RemoveDir(i)
    BY <1>1, Zenon DEF RemoveDir
  <1>2. CASE KeepDir(i) /\ dir' = dir /\ ~RemoveDir(i)
    BY <1>2, Zenon DEF KeepDir
  <1>3. CASE KeepDir(i) /\ dir' = [dir EXCEPT ![i] = "empty"] /\ ~RemoveDir(i)
    BY <1>3, Zenon DEF KeepDir
  <1> QED BY <1>1, <1>2, <1>3, Zenon DEF KeepDir

\* How a collection ends that removes its directory.
LEMMA CleanUpFacts ==
    ASSUME StoreTypes, NEW i \in Ids, CleanUp(i)
    PROVE  /\ Shrinks(i)
           /\ \/ pc' = [pc EXCEPT ![i] = "failed"] /\ dir'[i] = "absent"
              \/ pc' = [pc EXCEPT ![i] = "left"]
  BY RemovalShrinks, Zenon DEF CleanUp

\* What has ended, with its directory removed or left, keeps the invariants on
\* phases and archives.
LEMMA EndedOK ==
    ASSUME StoreInv, NEW i \in Ids, NEW s \in {"failed", "left"}, pc' = [pc EXCEPT ![i] = s],
           s = "failed" => dir'[i] = "absent", Shrinks(i),
           matched' = matched, archive' = archive, bytes' = bytes
    PROVE  PhaseOK' /\ ArchiveOK'
  <1> USE DEF StoreInv, StoreTypes, Shrinks
  <1>0. pc \in [Ids -> Phases] BY Zenon
  <1>1. pc'[i] = s /\ \A j \in Ids \ {i} : pc'[j] = pc[j] /\ dir'[j] = dir[j] BY <1>0, SMT
  <1>2. PhaseOK' BY <1>1 DEF PhaseOK
  <1>3. dir'[i] = "zip" => dir[i] = "zip" BY Zenon
  <1>4. \A j \in Ids : pc'[j] \in {"rename", "check", "reported"} \/ dir'[j] = "zip" =>
                        pc[j] \in {"rename", "check", "reported"} \/ dir[j] = "zip"
    BY <1>1, <1>3, SMT
  <1>5. ArchiveOK' BY <1>4, Zenon DEF ArchiveOK
  <1> QED BY <1>2, <1>5, Zenon

\* What Fail does to the collection that ends with it.
LEMMA FailFacts ==
    ASSUME StoreTypes, NEW i \in Ids, Fail(i)
    PROVE  /\ \/ /\ pc' = [pc EXCEPT ![i] = "failed"]
                 /\ pc[i] \in Publishing => dir'[i] = "absent"
              \/ pc' = [pc EXCEPT ![i] = "left"]
           /\ pc[i] \notin Publishing => dir' = dir /\ pc' = [pc EXCEPT ![i] = "failed"]
           /\ Shrinks(i)
           /\ opened' = [opened EXCEPT ![i] = <<>>]
           /\ matched' = matched /\ archive' = archive /\ bytes' = bytes
  <1>1. CASE pc[i] \in Publishing
    BY <1>1, CleanUpFacts, Zenon DEF Fail
  <1>2. CASE pc[i] \notin Publishing
    BY <1>2, Zenon DEF Fail, store, StoreTypes, Shrinks
  <1> QED BY <1>1, <1>2, Zenon

\* Nothing has an empty domain but the empty function.
LEMMA EmptyDomain == DOMAIN <<>> = {}
  OBVIOUS

(* An age is a natural number, and what has expired stays expired.         *)
LEMMA OlderFacts ==
    ASSUME NEW a \in Nat
    PROVE  Older(a) \in Nat /\ Older(Expired) = Expired
  BY StoreAssumption DEF Older, Expired

\* A removal by the collector changes one directory at most, and keeps the
\* lists of the pass in order.
LEMMA RemovedFacts ==
    ASSUME StoreInv, NEW e \in gc.todo, gc.pc \in {"ttl", "size"}, GcExpire(e) \/ GcShrink(e)
    PROVE  /\ e.id \in Ids
           /\ Shrinks(e.id)
           /\ pc' = pc /\ matched' = matched /\ archive' = archive /\ bytes' = bytes
           /\ gc'.pc = gc.pc
           /\ gc'.todo = gc.todo \ {e}
           /\ gc'.entries \subseteq gc.entries
           /\ gc' = [pc |-> gc'.pc, todo |-> gc'.todo, entries |-> gc'.entries]
  <1>1. e.id \in Ids BY DEF StoreInv, GcTypes, Listed
  <1>2. GcRemove(e) BY Zenon DEF GcExpire, GcShrink
  <1>3. Shrinks(e.id) BY <1>1, <1>2, RemovalShrinks, Zenon DEF GcRemove, StoreInv
  <1>4. pc' = pc /\ matched' = matched /\ archive' = archive /\ bytes' = bytes
    BY <1>2, Zenon DEF GcRemove, snapshot
  <1>5. gc = [pc |-> gc.pc, todo |-> gc.todo, entries |-> gc.entries]
    BY Zenon DEF StoreInv, GcTypes
  <1>6. \/ gc' = [gc EXCEPT !.todo = @ \ {e},
                            !.entries = IF dir[e.id] = "absent" THEN @ ELSE @ \ {e}]
        \/ gc' = [gc EXCEPT !.todo = @ \ {e}]
    BY <1>2, Zenon DEF GcRemove
  <1>7. PICK n \in SUBSET gc.entries : gc' = [pc |-> gc.pc, todo |-> gc.todo \ {e}, entries |-> n]
    <2>1. CASE gc' = [gc EXCEPT !.todo = @ \ {e}]
      BY <1>5, <2>1, Zenon
    <2>2. CASE gc' = [gc EXCEPT !.todo = @ \ {e},
                                !.entries = IF dir[e.id] = "absent" THEN @ ELSE @ \ {e}]
      BY <1>5, <2>2, Zenon
    <2> QED BY <1>6, <2>1, <2>2, Zenon
  <1>8. gc'.pc = gc.pc /\ gc'.todo = gc.todo \ {e} /\ gc'.entries = n
    BY <1>7, Zenon
  <1> QED BY <1>1, <1>3, <1>4, <1>7, <1>8, Zenon

\* Every variable keeps its type through every step of the daemon and of the
\* services.
LEMMA TypesStep ==
    ASSUME StoreInv, [Next]_vars
    PROVE  StoreTypes'
  <1> USE DEF StoreInv, Phases, Collecting
  <1>0. ASSUME NEW i \in Ids, Fail(i), UNCHANGED <<workspace, cancel>> PROVE StoreTypes'
    <2>1. pc' \in [Ids -> Phases] BY <1>0, FailFacts, Zenon DEF StoreTypes
    <2>2. DOMAIN opened' = Ids BY <1>0, FailFacts, Zenon DEF StoreTypes
    <2> QED BY <1>0, <2>1, <2>2, FailFacts, Zenon DEF StoreTypes, Shrinks, workspace
  <1>1. ASSUME NEW i \in Ids, Start(i) PROVE StoreTypes'
    BY <1>1, Zenon DEF StoreTypes, Start, workspace, snapshot, store
  <1>2. ASSUME NEW i \in Ids, Cancel(i) PROVE StoreTypes'
    BY <1>2, Zenon DEF StoreTypes, Cancel, workspace, snapshot, store
  <1>3. ASSUME NEW i \in Ids, Walk(i) PROVE StoreTypes'
    <2>1. CASE Fail(i) BY <1>3, <2>1, <1>0, Zenon DEF StoreTypes, Walk, workspace
    <2>2. CASE ~Fail(i) BY <1>3, <2>2, Zenon DEF StoreTypes, Walk, workspace, store
    <2> QED BY <2>1, <2>2, Zenon
  <1>4. ASSUME NEW i \in Ids, Open(i) PROVE StoreTypes'
    <2>1. CASE Fail(i) BY <1>4, <2>1, <1>0, Zenon DEF StoreTypes, Open, workspace
    <2>2. CASE ~Fail(i) BY <1>4, <2>2, Zenon DEF StoreTypes, Open, workspace, store
    <2> QED BY <2>1, <2>2, Zenon
  <1>5. ASSUME NEW i \in Ids, MakeDir(i) PROVE StoreTypes'
    <2>1. CASE Fail(i) BY <1>5, <2>1, <1>0, Zenon DEF MakeDir
    <2>2. CASE ~Fail(i) BY <1>5, <2>2 DEF StoreTypes, MakeDir, workspace
    <2> QED BY <2>1, <2>2, Zenon
  <1>6. ASSUME NEW i \in Ids, CreateTemp(i) PROVE StoreTypes'
    <2>1. CASE Fail(i) BY <1>6, <2>1, <1>0, Zenon DEF StoreTypes, CreateTemp, workspace
    <2>2. CASE ~Fail(i) BY <1>6, <2>2 DEF StoreTypes, CreateTemp, workspace, snapshot
    <2> QED BY <2>1, <2>2, Zenon
  <1>7. ASSUME NEW i \in Ids, WriteZip(i) PROVE StoreTypes'
    <2>1. CASE Fail(i) BY <1>7, <2>1, <1>0, Zenon DEF StoreTypes, WriteZip, workspace
    <2>2. CASE ~Fail(i) BY <1>7, <2>2 DEF StoreTypes, WriteZip, workspace
    <2> QED BY <2>1, <2>2, Zenon
  <1>8. ASSUME NEW i \in Ids, Publish(i) PROVE StoreTypes'
    <2>1. CASE Fail(i) BY <1>8, <2>1, <1>0, Zenon DEF StoreTypes, Publish, workspace
    <2>2. CASE ~Fail(i) BY <1>8, <2>2, Zenon DEF StoreTypes, Publish, workspace, snapshot
    <2> QED BY <2>1, <2>2, Zenon
  <1>9. ASSUME NEW i \in Ids, CheckPublished(i) PROVE StoreTypes'
    <2>1. CASE Fail(i) BY <1>9, <2>1, <1>0, Zenon DEF StoreTypes, CheckPublished, workspace
    <2>2. CASE ~Fail(i) BY <1>9, <2>2, Zenon DEF StoreTypes, CheckPublished, workspace, store
    <2> QED BY <2>1, <2>2, Zenon
  <1>10. ASSUME NEW i \in Ids, Discard(i) PROVE StoreTypes'
    BY <1>10, CleanUpFacts, Zenon DEF StoreTypes, Discard, Shrinks, workspace, snapshot
  <1>11. CASE GcStart \/ GcCutoff \/ GcSize \/ GcDone \/ \E i \in Ids : GcScan(i)
    BY <1>11, Zenon DEF StoreTypes, GcStart, GcCutoff, GcSize, GcDone, GcScan, workspace, snapshot, store
  <1>12. ASSUME NEW e \in gc.todo, gc.pc \in {"ttl", "size"}, GcExpire(e) \/ GcShrink(e)
         PROVE  StoreTypes'
    BY <1>12, RemovedFacts, Zenon DEF StoreTypes, GcExpire, GcShrink, GcRemove, Shrinks, workspace, snapshot
  <1>13. ASSUME NEW p \in Written, Replace(p) PROVE StoreTypes'
    <2>1. p \in Paths BY StoreAssumption, Zenon
    <2>2. files[p].ver + 1 \in Nat BY <2>1 DEF StoreTypes
    <2>3. PICK k \in {"file", "link"} :
             files' = [files EXCEPT ![p] = [kind |-> k, ver |-> files[p].ver + 1, size |-> 1]]
      BY <1>13, Zenon DEF Replace
    <2>4. files' \in [Paths -> [kind : {"none", "file", "link"}, ver : Nat, size : Nat]]
      BY <2>1, <2>2, <2>3, Zenon DEF StoreTypes
    <2> QED BY <1>13, <2>4, Zenon DEF StoreTypes, Replace, snapshot, store
  <1>14. ASSUME NEW p \in Written, Extend(p) PROVE StoreTypes'
    <2>1. p \in Paths BY StoreAssumption, Zenon
    <2>2. files' = [files EXCEPT ![p] = [files[p] EXCEPT !.size = files[p].size + 1]]
      BY <1>14, Zenon DEF Extend
    <2>3. files' \in [Paths -> [kind : {"none", "file", "link"}, ver : Nat, size : Nat]]
      BY <2>1, <2>2 DEF StoreTypes
    <2> QED BY <1>14, <2>3, Zenon DEF StoreTypes, Extend, store
  <1>15. CASE Tick
    <2>1. age' \in [Ids -> Nat] BY <1>15, OlderFacts, Zenon DEF StoreTypes, Tick
    <2> QED BY <1>15, <2>1, Zenon DEF StoreTypes, Tick, workspace, snapshot
  <1>16. CASE Crash BY <1>16, Zenon DEF StoreTypes, Crash, workspace, store
  <1>17. CASE UNCHANGED vars
    BY <1>17, Zenon DEF StoreTypes, vars
  <1> QED
    BY <1>1, <1>2, <1>3, <1>4, <1>5, <1>6, <1>7, <1>8, <1>9, <1>10, <1>11, <1>12, <1>13,
       <1>14, <1>15, <1>16, <1>17, Zenon DEF Next, Gc, Collect

\* Only the traversal records paths, and it records selected ones.
LEMMA SelectedStep ==
    ASSUME StoreInv, [Next]_vars
    PROVE  SelectedOK'
  <1> DEFINE Good(p) == p \in Paths /\ IsIncluded(p) /\ ~IsExcluded(p) /\ ~Matches(Restricted, p)
  <1>1. \/ matched' = matched
        \/ \E i \in Ids : matched' = [matched EXCEPT ![i] = [p \in Unrestricted |-> files[p].ver]]
    <2>1. ASSUME NEW i \in Ids, Collect(i) PROVE <1>1
      BY <2>1, Zenon DEF Collect, Walk, Open, MakeDir, CreateTemp, WriteZip, Publish,
         CheckPublished, Fail, snapshot
    <2>2. CASE ~\E i \in Ids : Collect(i)
      BY <2>2, Zenon DEF Next, vars, Start, Cancel, Discard, Gc, GcStart, GcCutoff, GcSize, GcDone,
         GcScan, GcExpire, GcShrink, GcRemove, Replace, Extend, Tick, Crash, snapshot
    <2> QED BY <2>1, <2>2, Zenon
  <1>2. \A i \in Ids : \A p \in DOMAIN matched[i] : Good(p)
    BY Zenon DEF StoreInv, SelectedOK
  <1>3. \A p \in Unrestricted : Good(p)
    BY Zenon DEF Unrestricted, Selected
  <1>4. \A i \in Ids : \A p \in DOMAIN matched'[i] : Good(p)
    <2> HIDE DEF Good
    <2>1. CASE matched' = matched BY <1>2, <2>1, Zenon
    <2>2. ASSUME NEW i \in Ids,
                 matched' = [matched EXCEPT ![i] = [p \in Unrestricted |-> files[p].ver]]
          PROVE  <1>4
      BY <1>2, <1>3, <2>2, Zenon DEF StoreInv, StoreTypes
    <2> QED BY <1>1, <2>1, <2>2, Zenon
  <1> QED BY <1>4, Zenon DEF SelectedOK

\* A descriptor keeps its version: what the services append only grows it.
LEMMA OpenedTypesStep ==
    ASSUME StoreInv, [Next]_vars
    PROVE  OpenedTypes'
  <1> USE DEF StoreInv
  <1>1. ASSUME NEW i \in Ids, Open(i) PROVE OpenedTypes'
    <2>1. CASE Fail(i)
      BY <2>1, FailFacts, EmptyDomain, Zenon DEF OpenedTypes, StoreTypes
    <2>2. CASE ~Fail(i)
      <3>1. opened' = [opened EXCEPT ![i] = [p \in DOMAIN matched[i] |->
                                               [ver |-> files[p].ver, size |-> files[p].size]]]
        BY <1>1, <2>2, Zenon DEF Open
      <3>2. \A p \in DOMAIN matched[i] : files[p].ver \in Nat /\ files[p].size \in Nat
        BY Zenon DEF StoreTypes, SelectedOK
      <3> QED BY <3>1, <3>2, Zenon DEF OpenedTypes, StoreTypes
    <2> QED BY <2>1, <2>2, Zenon
  <1>2. ASSUME NEW p \in Written, Extend(p) PROVE OpenedTypes'
    <2> SUFFICES ASSUME NEW i \in Ids, NEW q \in DOMAIN opened'[i]
                 PROVE  opened'[i][q] \in [ver : Nat, size : Nat]
      BY Zenon DEF OpenedTypes
    <2>1. opened'[i] = [r \in DOMAIN opened[i] |->
             IF r = p /\ opened[i][r].ver = files[p].ver
             THEN [opened[i][r] EXCEPT !.size = @ + 1] ELSE opened[i][r]]
      BY <1>2, Zenon DEF Extend
    <2>2. q \in DOMAIN opened[i] /\ opened[i][q] \in [ver : Nat, size : Nat]
      BY <2>1, Zenon DEF OpenedTypes
    <2> QED BY <2>1, <2>2
  <1>3. ASSUME NEW i \in Ids, Fail(i) PROVE OpenedTypes'
    BY <1>3, FailFacts, EmptyDomain, Zenon DEF OpenedTypes, StoreTypes
  <1>4. ASSUME NEW i \in Ids, opened' = [opened EXCEPT ![i] = <<>>] PROVE OpenedTypes'
    BY <1>4, EmptyDomain, Zenon DEF OpenedTypes, StoreTypes
  <1>5. ASSUME opened' = [i \in Ids |-> <<>>] PROVE OpenedTypes'
    BY <1>5, EmptyDomain, Zenon DEF OpenedTypes
  <1>6. ASSUME opened' = opened PROVE OpenedTypes'
    BY <1>6, Zenon DEF OpenedTypes
  <1>7. ASSUME NEW i \in Ids, Collect(i)
        PROVE  Open(i) \/ Fail(i) \/ opened' = [opened EXCEPT ![i] = <<>>] \/ opened' = opened
    BY <1>7, Zenon DEF Collect, Walk, MakeDir, CreateTemp, WriteZip, Publish,
       CheckPublished, snapshot
  <1>8. ASSUME ~\E i \in Ids : Collect(i), ~\E p \in Written : Extend(p)
        PROVE  opened' = opened \/ opened' = [i \in Ids |-> <<>>]
    BY <1>8, Zenon DEF Next, vars, Start, Cancel, Discard, Gc, GcStart, GcCutoff, GcSize, GcDone,
       GcScan, GcExpire, GcShrink, GcRemove, Replace, Tick, Crash, snapshot
  <1> QED BY <1>1, <1>2, <1>3, <1>4, <1>5, <1>6, <1>7, <1>8, Zenon

\* The descriptors Open leaves behind are those of the versions the traversal
\* recorded, whatever the services do to the names.
LEMMA OpenedStep ==
    ASSUME StoreInv, [Next]_vars
    PROVE  OpenedOK'
  <1> USE DEF StoreInv
  <1> DEFINE On(i) == /\ DOMAIN opened[i] = DOMAIN matched[i]
                      /\ \A p \in DOMAIN matched[i] : opened[i][p].ver = matched[i][p]
             Reads == {"mkdir", "create", "write"}
  <1>1. ASSUME NEW i \in Ids, Open(i), ~Fail(i) PROVE OpenedOK'
    <2>1. opened' = [opened EXCEPT ![i] = [p \in DOMAIN matched[i] |->
                                             [ver |-> files[p].ver, size |-> files[p].size]]]
      BY <1>1, Zenon DEF Open
    <2>2. \A p \in DOMAIN matched[i] : files[p].ver = matched[i][p]
      BY <1>1, Zenon DEF Open, SameFile
    <2>3. matched' = matched /\ pc' = [pc EXCEPT ![i] = "mkdir"]
      BY <1>1, Zenon DEF Open
    <2> QED BY <2>1, <2>2, <2>3, Zenon DEF OpenedOK, StoreTypes
  <1>2. ASSUME NEW p \in Written, Extend(p) PROVE OpenedOK'
    <2> SUFFICES ASSUME NEW i \in Ids, pc'[i] \in Reads
                 PROVE  On(i)'
      BY Zenon DEF OpenedOK
    <2>1. opened'[i] = [r \in DOMAIN opened[i] |->
             IF r = p /\ opened[i][r].ver = files[p].ver
             THEN [opened[i][r] EXCEPT !.size = @ + 1] ELSE opened[i][r]]
      BY <1>2, Zenon DEF Extend
    <2>2. pc' = pc /\ matched' = matched BY <1>2, Zenon DEF Extend
    <2>3. On(i) BY <2>2, Zenon DEF OpenedOK
    <2>4. ASSUME NEW q \in DOMAIN opened[i] PROVE opened'[i][q].ver = opened[i][q].ver
      <3>1. opened[i][q] \in [ver : Nat, size : Nat] BY Zenon DEF OpenedTypes
      <3> QED BY <2>1, <3>1, Zenon
    <2> QED BY <2>1, <2>2, <2>3, <2>4, Zenon
  <1>3. ASSUME NEW i \in Ids, Fail(i) PROVE OpenedOK'
    <2>1. PICK s \in {"failed", "left"} : pc' = [pc EXCEPT ![i] = s] BY <1>3, FailFacts, Zenon
    <2>2. pc'[i] \notin Reads /\ \A j \in Ids \ {i} : pc'[j] = pc[j] BY <2>1, Zenon DEF StoreTypes
    <2>3. matched' = matched /\ \A j \in Ids \ {i} : opened'[j] = opened[j]
      BY <1>3, FailFacts, Zenon DEF StoreTypes
    <2> QED BY <2>2, <2>3, Zenon DEF OpenedOK
  <1>4. ASSUME NEW i \in Ids, pc' = [pc EXCEPT ![i] = "open"],
               matched' = [matched EXCEPT ![i] = [p \in Unrestricted |-> files[p].ver]],
               opened' = opened
        PROVE  OpenedOK'
    BY <1>4, Zenon DEF OpenedOK, StoreTypes
  <1>5. ASSUME NEW i \in Ids, CheckPublished(i), ~Fail(i) PROVE OpenedOK'
    BY <1>5 DEF OpenedOK, StoreTypes, CheckPublished
  <1>6. ASSUME matched' = matched, opened' = opened, pc' = pc PROVE OpenedOK'
    BY <1>6, Zenon DEF OpenedOK
  <1>7. ASSUME matched' = matched, opened' = opened, NEW i \in Ids,
               NEW s, pc' = [pc EXCEPT ![i] = s], s \in Reads => pc[i] \in Reads
        PROVE  OpenedOK'
    BY <1>7, Zenon DEF OpenedOK, StoreTypes
  <1>8. CASE Crash
    BY <1>8, Zenon DEF OpenedOK, StoreTypes, Crash, Collecting
  <1>9. ASSUME NEW i \in Ids, Start(i) \/ Discard(i) \/ Collect(i) PROVE OpenedOK'
    <2>1. CASE Start(i) BY <2>1, <1>7, Zenon DEF Start, snapshot
    <2>2. CASE Discard(i) BY <2>2, <1>7, CleanUpFacts, Zenon DEF Discard, snapshot
    <2>3. CASE Walk(i)
      <3>1. \/ Fail(i)
            \/ matched' = matched /\ opened' = opened /\ pc' = [pc EXCEPT ![i] = "none"]
            \/ /\ matched' = [matched EXCEPT ![i] = [p \in Unrestricted |-> files[p].ver]]
               /\ opened' = opened /\ pc' = [pc EXCEPT ![i] = "open"]
        BY <2>3, Zenon DEF Walk
      <3> QED BY <3>1, <1>3, <1>4, <1>7, Zenon
    <2>4. CASE Open(i) BY <2>4, <1>1, <1>3, Zenon
    <2>5. CASE MakeDir(i)
      <3>1. CASE Fail(i) BY <3>1, <1>3, Zenon
      <3>2. CASE pc' = [pc EXCEPT ![i] = "create"] /\ opened' = opened
        BY <2>5, <3>2, <1>7, Zenon DEF MakeDir
      <3>3. CASE pc' = [pc EXCEPT ![i] = "left"] /\ opened' = [opened EXCEPT ![i] = <<>>]
        <4>1. pc'[i] \notin Reads /\ \A j \in Ids \ {i} : pc'[j] = pc[j] /\ opened'[j] = opened[j]
          BY <3>3, Zenon DEF StoreTypes
        <4> QED BY <2>5, <4>1, Zenon DEF MakeDir, OpenedOK
      <3> QED BY <2>5, <3>1, <3>2, <3>3, Zenon DEF MakeDir
    <2>6. CASE CreateTemp(i) BY <2>6, <1>3, <1>7, Zenon DEF CreateTemp, snapshot
    <2>7. CASE WriteZip(i) BY <2>7, <1>3, <1>7, Zenon DEF WriteZip
    <2>8. CASE Publish(i) BY <2>8, <1>3, <1>7, Zenon DEF Publish, snapshot
    <2>9. CASE CheckPublished(i) BY <2>9, <1>3, <1>5, Zenon
    <2> QED BY <1>9, <2>1, <2>2, <2>3, <2>4, <2>5, <2>6, <2>7, <2>8, <2>9, Zenon DEF Collect
  <1>10. ASSUME ~\E i \in Ids : Start(i) \/ Discard(i) \/ Collect(i),
                ~\E p \in Written : Extend(p), ~Crash
         PROVE  matched' = matched /\ opened' = opened /\ pc' = pc
    BY <1>10, Zenon DEF Next, vars, Cancel, Gc, GcStart, GcCutoff, GcSize, GcDone,
       GcScan, GcExpire, GcShrink, GcRemove, Replace, Tick, snapshot
  <1> QED BY <1>2, <1>6, <1>8, <1>9, <1>10, Zenon

\* Each phase finds its directory as it left it, or finds it removed.
LEMMA PhaseStep ==
    ASSUME StoreInv, [Next]_vars
    PROVE  PhaseOK'
  <1> USE DEF StoreInv, PhaseOK, StoreTypes
  <1>1. ASSUME NEW i \in Ids, Fail(i), pc[i] \in Collecting PROVE PhaseOK'
    <2>1. CASE pc[i] \in Publishing BY <1>1, <2>1, FailFacts, EndedOK, Zenon
    <2>2. CASE pc[i] \notin Publishing
      <3>1. dir[i] = "absent" BY <1>1, <2>2 DEF Publishing, Collecting
      <3> QED BY <1>1, <2>2, <3>1, FailFacts, EndedOK, Zenon
    <2> QED BY <2>1, <2>2, Zenon
  <1>2. ASSUME NEW i \in Ids, Start(i) PROVE PhaseOK'
    BY <1>2, Zenon DEF Start, store
  <1>3. ASSUME NEW i \in Ids, Walk(i), ~Fail(i) PROVE PhaseOK'
    BY <1>3 DEF Walk, store
  <1>4. ASSUME NEW i \in Ids, Open(i), ~Fail(i) PROVE PhaseOK'
    BY <1>4, Zenon DEF Open, store
  <1>5. ASSUME NEW i \in Ids, MakeDir(i), ~Fail(i) PROVE PhaseOK'
    BY <1>5 DEF MakeDir
  <1>6. ASSUME NEW i \in Ids, CreateTemp(i), ~Fail(i) PROVE PhaseOK'
    BY <1>6 DEF CreateTemp
  <1>7. ASSUME NEW i \in Ids, WriteZip(i), ~Fail(i) PROVE PhaseOK'
    BY <1>7 DEF WriteZip
  <1>8. ASSUME NEW i \in Ids, Publish(i), ~Fail(i) PROVE PhaseOK'
    BY <1>8 DEF Publish
  <1>9. ASSUME NEW i \in Ids, CheckPublished(i), ~Fail(i) PROVE PhaseOK'
    BY <1>9 DEF CheckPublished, store
  <1>10. ASSUME NEW i \in Ids, Collect(i) PROVE PhaseOK'
    <2>1. pc[i] \in Collecting
      BY <1>10, Zenon DEF Collect, Walk, Open, MakeDir, CreateTemp, WriteZip, Publish,
         CheckPublished, Collecting
    <2> QED BY <1>1, <1>3, <1>4, <1>5, <1>6, <1>7, <1>8, <1>9, <1>10, <2>1, Zenon DEF Collect
  <1>11. ASSUME NEW i \in Ids, Discard(i) PROVE PhaseOK'
    BY <1>11, CleanUpFacts, EndedOK, Zenon DEF Discard, snapshot
  <1>12. ASSUME NEW e \in gc.todo, gc.pc \in {"ttl", "size"}, GcExpire(e) \/ GcShrink(e)
         PROVE  PhaseOK'
    BY <1>12, RemovedFacts, Zenon DEF Shrinks
  <1>13. CASE Crash
    BY <1>13, Zenon DEF Crash, store, Collecting
  <1>14. ASSUME pc' = pc, dir' = dir PROVE PhaseOK'
    BY <1>14, Zenon
  <1>15. ASSUME ~\E i \in Ids : Start(i) \/ Discard(i) \/ Collect(i), ~Crash,
                ~\E e \in gc.todo : gc.pc \in {"ttl", "size"} /\ (GcExpire(e) \/ GcShrink(e))
         PROVE  pc' = pc /\ dir' = dir
    BY <1>15, Zenon DEF Next, vars, Cancel, Gc, GcStart, GcCutoff, GcSize, GcDone,
       GcScan, Replace, Extend, Tick, snapshot, store
  <1> QED BY <1>2, <1>10, <1>11, <1>12, <1>13, <1>14, <1>15, Zenon

\* The archive is written from the descriptors and published unchanged.
LEMMA ArchiveStep ==
    ASSUME StoreInv, [Next]_vars
    PROVE  ArchiveOK'
  <1> USE DEF StoreInv, ArchiveOK, StoreTypes
  <1>1. ASSUME NEW i \in Ids, Fail(i), pc[i] \in Collecting PROVE ArchiveOK'
    <2>1. CASE pc[i] \in Publishing BY <1>1, <2>1, FailFacts, EndedOK, Zenon
    <2>2. CASE pc[i] \notin Publishing
      <3>1. dir[i] = "absent" BY <1>1, <2>2 DEF Publishing, Collecting, PhaseOK
      <3> QED BY <1>1, <2>2, <3>1, FailFacts, EndedOK, Zenon
    <2> QED BY <2>1, <2>2, Zenon
  <1>2. ASSUME NEW i \in Ids, Start(i) PROVE ArchiveOK'
    BY <1>2, Zenon DEF Start, store, snapshot
  <1>3. ASSUME NEW i \in Ids, Walk(i), ~Fail(i) PROVE ArchiveOK'
    <2>1. dir[i] = "absent" BY <1>3, Zenon DEF PhaseOK, Walk
    <2>2. archive' = archive /\ bytes' = bytes /\ dir' = dir
      BY <1>3, Zenon DEF Walk, store
    <2>3. \/ pc' = [pc EXCEPT ![i] = "none"] /\ matched' = matched
          \/ /\ pc' = [pc EXCEPT ![i] = "open"]
             /\ matched' = [matched EXCEPT ![i] = [p \in Unrestricted |-> files[p].ver]]
      BY <1>3, Zenon DEF Walk
    <2> QED BY <2>1, <2>2, <2>3
  <1>4. ASSUME NEW i \in Ids, Open(i), ~Fail(i) PROVE ArchiveOK'
    BY <1>4 DEF Open, store
  <1>5. ASSUME NEW i \in Ids, MakeDir(i), ~Fail(i) PROVE ArchiveOK'
    BY <1>5 DEF MakeDir
  <1>6. ASSUME NEW i \in Ids, CreateTemp(i), ~Fail(i) PROVE ArchiveOK'
    BY <1>6 DEF CreateTemp, snapshot
  <1>7. ASSUME NEW i \in Ids, WriteZip(i), ~Fail(i) PROVE ArchiveOK'
    <2> DEFINE written == {<<p, opened[i][p].ver>> : p \in DOMAIN opened[i]}
               total == SumOf(opened[i], DOMAIN opened[i])
    <2>1. /\ archive' = [archive EXCEPT ![i] = written]
          /\ bytes' = [bytes EXCEPT ![i] = total]
          /\ total <= MaxUncompressed
          /\ matched' = matched /\ dir' = dir /\ pc' = [pc EXCEPT ![i] = "rename"]
      BY <1>7, Zenon DEF WriteZip
    <2>2. /\ DOMAIN opened[i] = DOMAIN matched[i]
          /\ \A p \in DOMAIN matched[i] : opened[i][p].ver = matched[i][p]
      BY <1>7, Zenon DEF OpenedOK, WriteZip
    <2>3. written = {<<p, matched[i][p]>> : p \in DOMAIN matched[i]}
      BY <2>2
    <2> HIDE DEF written, total
    <2> QED BY <2>1, <2>3
  <1>8. ASSUME NEW i \in Ids, Publish(i), ~Fail(i) PROVE ArchiveOK'
    BY <1>8 DEF Publish, snapshot
  <1>9. ASSUME NEW i \in Ids, CheckPublished(i), ~Fail(i) PROVE ArchiveOK'
    BY <1>9 DEF CheckPublished, store
  <1>10. ASSUME NEW i \in Ids, Collect(i) PROVE ArchiveOK'
    <2>1. pc[i] \in Collecting
      BY <1>10, Zenon DEF Collect, Walk, Open, MakeDir, CreateTemp, WriteZip, Publish,
         CheckPublished, Collecting
    <2> QED BY <1>1, <1>3, <1>4, <1>5, <1>6, <1>7, <1>8, <1>9, <1>10, <2>1, Zenon DEF Collect
  <1>11. ASSUME NEW i \in Ids, Discard(i) PROVE ArchiveOK'
    BY <1>11, CleanUpFacts, EndedOK, Zenon DEF Discard, snapshot
  <1>12. ASSUME NEW e \in gc.todo, gc.pc \in {"ttl", "size"}, GcExpire(e) \/ GcShrink(e)
         PROVE  ArchiveOK'
    <2>1. \A j \in Ids : dir'[j] = "zip" => dir[j] = "zip" BY <1>12, RemovedFacts, Zenon DEF Shrinks
    <2>2. pc' = pc /\ matched' = matched /\ archive' = archive /\ bytes' = bytes
      BY <1>12, RemovedFacts, Zenon
    <2> QED BY <2>1, <2>2, Zenon
  <1>13. CASE Crash
    BY <1>13 DEF Crash, store, Collecting
  <1>14. ASSUME pc' = pc, dir' = dir, matched' = matched, archive' = archive, bytes' = bytes
         PROVE ArchiveOK'
    BY <1>14
  <1>15. ASSUME ~\E i \in Ids : Start(i) \/ Discard(i) \/ Collect(i), ~Crash,
                ~\E e \in gc.todo : gc.pc \in {"ttl", "size"} /\ (GcExpire(e) \/ GcShrink(e))
         PROVE  pc' = pc /\ dir' = dir /\ matched' = matched /\ archive' = archive /\ bytes' = bytes
    BY <1>15, Zenon DEF Next, vars, Cancel, Gc, GcStart, GcCutoff, GcSize, GcDone,
       GcScan, Replace, Extend, Tick, snapshot, store
  <1> QED BY <1>2, <1>10, <1>11, <1>12, <1>13, <1>14, <1>15, Zenon

\* Every entry the collector keeps was scanned from one of the directories.
LEMMA GcTypesStep ==
    ASSUME StoreInv, [Next]_vars
    PROVE  GcTypes'
  <1> USE DEF StoreInv
  <1> DEFINE Entry == [id : Ids, published : BOOLEAN, size : Nat, age : Nat]
             Rec(p, t, n) == [pc |-> p, todo |-> t, entries |-> n]
  <1>0. gc = Rec(gc.pc, gc.todo, gc.entries) BY Zenon DEF GcTypes
  <1>1. ASSUME NEW p \in {"scan", "ttl", "size"}, NEW t, NEW n, gc' = Rec(p, t, n),
               IF p = "scan" THEN t \subseteq Ids ELSE t \subseteq Entry, n \subseteq Entry
        PROVE  GcTypes'
    BY <1>1, Zenon DEF GcTypes, Listed
  <1>2. ASSUME gc' = Idle PROVE GcTypes'
    BY <1>2, Zenon DEF GcTypes, Listed, Idle
  <1>3. ASSUME gc' = gc PROVE GcTypes'
    BY <1>3, Zenon DEF GcTypes, Listed
  <1>4. gc.entries \subseteq Entry /\ (gc.pc # "scan" => gc.todo \subseteq Entry)
    BY Zenon DEF GcTypes, Listed
  <1>5. CASE GcStart
    <2>1. gc' = gc \/ gc' = Rec("scan", Present, gc.entries) BY <1>0, <1>5, Zenon DEF GcStart
    <2> QED BY <1>1, <1>3, <1>4, <2>1, Zenon DEF Present
  <1>6. ASSUME NEW i \in Ids, GcScan(i) PROVE GcTypes'
    <2>1. Scan(i) \in Entry
      BY StoreAssumption DEF Scan, StoreTypes, Expired
    <2>2. gc' = Idle \/ gc' = Rec("scan", gc.todo \ {i}, gc.entries \cup {Scan(i)})
      BY <1>0, <1>6, Zenon DEF GcScan
    <2>3. gc.todo \subseteq Ids BY <1>6, Zenon DEF GcScan, GcTypes
    <2> QED BY <1>1, <1>2, <1>4, <2>1, <2>2, <2>3
  <1>7. CASE GcCutoff
    <2>1. gc' = Rec("ttl", {e \in gc.entries : e.age = Expired}, gc.entries)
      BY <1>0, <1>7, Zenon DEF GcCutoff
    <2> QED BY <1>1, <1>4, <2>1, Zenon
  <1>8. CASE GcSize
    <2>1. gc' = Rec("size", gc.entries, gc.entries) BY <1>0, <1>8, Zenon DEF GcSize
    <2> QED BY <1>1, <1>4, <2>1, Zenon
  <1>9. CASE GcDone BY <1>2, <1>9, Zenon DEF GcDone
  <1>10. ASSUME NEW e \in gc.todo, gc.pc \in {"ttl", "size"}, GcExpire(e) \/ GcShrink(e)
         PROVE  GcTypes'
    <2>1. gc' = Rec(gc.pc, gc.todo \ {e}, gc'.entries) /\ gc'.entries \subseteq gc.entries
      BY <1>10, RemovedFacts, Zenon
    <2> QED BY <1>1, <1>4, <1>10, <2>1, Zenon
  <1>11. CASE Tick
    <2>1. ASSUME NEW s, s \subseteq Entry PROVE Aged(s) \subseteq Entry
      <3>1. \A e \in s : [e EXCEPT !.age = Older(@)] \in Entry
        BY <2>1, OlderFacts, Zenon
      <3> QED BY <3>1, Zenon DEF Aged
    <2>2. gc' = Rec(gc.pc, IF gc.pc = "scan" THEN gc.todo ELSE Aged(gc.todo), Aged(gc.entries))
      BY <1>0, <1>11, Zenon DEF Tick
    <2>3. CASE gc.pc = "idle"
      <3>1. gc.todo = {} /\ gc.entries = {} BY <2>3, Zenon DEF GcTypes
      <3>2. gc' = Idle BY <2>2, <2>3, <3>1, Zenon DEF Aged, Idle
      <3> QED BY <1>2, <3>2, Zenon
    <2>4. CASE gc.pc # "idle"
      <3>1. gc.pc = "scan" => gc.todo \subseteq Ids BY Zenon DEF GcTypes
      <3>2. gc.pc \in {"scan", "ttl", "size"} BY <2>4, Zenon DEF GcTypes
      <3> QED BY <1>1, <1>4, <2>1, <2>2, <3>1, <3>2, Zenon
    <2> QED BY <2>3, <2>4, Zenon
  <1>12. CASE Crash BY <1>2, <1>12, Zenon DEF Crash
  <1>13. ASSUME ~Gc, ~Tick, ~Crash PROVE gc' = gc
    BY <1>13, Zenon DEF Next, vars, Start, Cancel, Discard, Collect, Walk, Open, MakeDir, CreateTemp,
       WriteZip, Publish, CheckPublished, Replace, Extend
  <1> QED BY <1>3, <1>5, <1>6, <1>7, <1>8, <1>9, <1>10, <1>11, <1>12, <1>13, Zenon DEF Gc

\* The collector's own steps list what the directories hold at that moment.
LEMMA ScannedGcStep ==
    ASSUME StoreInv, Gc
    PROVE  ScannedOK'
  <1> USE DEF StoreInv
  <1> DEFINE Fresh(e) ==
        e.published =>
          /\ pc[e.id] \in {"check", "reported", "lost", "failed", "left"}
          /\ dir[e.id] \in {"absent", "empty", "zip"}
          /\ dir[e.id] = "zip" => age[e.id] = e.age
  <1>0. \A e \in Listed : Fresh(e) BY Zenon DEF ScannedOK
  <1>1. ASSUME \A e \in Listed' : Fresh(e), pc' = pc, dir' = dir, age' = age PROVE ScannedOK'
    BY <1>1, Zenon DEF ScannedOK
  <1>2. ASSUME Listed' \subseteq Listed, pc' = pc, dir' = dir, age' = age PROVE ScannedOK'
    <2> HIDE DEF Fresh
    <2> QED BY <1>0, <1>1, <1>2, Zenon
  <1>4. gc = [pc |-> gc.pc, todo |-> gc.todo, entries |-> gc.entries] BY Zenon DEF GcTypes
  <1>5. CASE GcStart
    <2>1. gc' = gc \/ gc' = [pc |-> "scan", todo |-> Present, entries |-> gc.entries]
      BY <1>4, <1>5, Zenon DEF GcStart
    <2>2. Listed' \subseteq Listed BY <2>1 DEF Listed
    <2> QED BY <1>2, <1>5, <2>2, Zenon DEF GcStart, store
  <1>6. ASSUME NEW i \in Ids, GcScan(i) PROVE ScannedOK'
    <2>1. CASE gc' = Idle
      <3>1. Listed' = {} BY <2>1, Zenon DEF Listed, Idle
      <3> QED BY <3>1, Zenon DEF ScannedOK
    <2>2. CASE gc' # Idle
      <3>1. gc' = [pc |-> gc.pc, todo |-> gc.todo \ {i}, entries |-> gc.entries \cup {Scan(i)}]
            /\ gc.pc = "scan"
        BY <1>4, <1>6, <2>2, Zenon DEF GcScan
      <3>2. Listed' = Listed \cup {Scan(i)} BY <3>1, Zenon DEF Listed
      <3>3. Fresh(Scan(i))
        BY Zenon DEF Scan, PhaseOK, StoreTypes, Phases, Collecting
      <3>4. \A e \in Listed' : Fresh(e)
        <4> HIDE DEF Fresh
        <4> QED BY <1>0, <3>2, <3>3, Zenon
      <3> QED BY <1>1, <1>6, <3>4, Zenon DEF GcScan, store
    <2> QED BY <2>1, <2>2, Zenon
  <1>7. CASE GcCutoff
    <2>1. gc' = [pc |-> "ttl", todo |-> {e \in gc.entries : e.age = Expired}, entries |-> gc.entries]
      BY <1>4, <1>7, Zenon DEF GcCutoff
    <2>2. Listed' \subseteq Listed BY <2>1, Zenon DEF Listed
    <2> QED BY <1>2, <1>7, <2>2, Zenon DEF GcCutoff, store
  <1>8. CASE GcSize
    <2>1. gc' = [pc |-> "size", todo |-> gc.entries, entries |-> gc.entries]
      BY <1>4, <1>8, Zenon DEF GcSize
    <2>2. Listed' \subseteq Listed BY <2>1, Zenon DEF Listed
    <2> QED BY <1>2, <1>8, <2>2, Zenon DEF GcSize, store
  <1>9. CASE GcDone
    <2>1. Listed' = {} BY <1>9, Zenon DEF GcDone, Listed, Idle
    <2> QED BY <2>1, Zenon DEF ScannedOK
  <1>10. ASSUME NEW e \in gc.todo, gc.pc \in {"ttl", "size"}, GcExpire(e) \/ GcShrink(e)
         PROVE  ScannedOK'
    <2>1. Listed' \subseteq Listed BY <1>10, RemovedFacts, Zenon DEF Listed
    <2> SUFFICES ASSUME NEW f \in Listed', f.published
                 PROVE  /\ pc'[f.id] \in {"check", "reported", "lost", "failed", "left"}
                        /\ dir'[f.id] \in {"absent", "empty", "zip"}
                        /\ dir'[f.id] = "zip" => age'[f.id] = f.age
      BY Zenon DEF ScannedOK
    <2>2. Fresh(f) /\ f.id \in Ids
      <3> HIDE DEF Fresh
      <3> QED BY <1>0, <2>1, Zenon DEF GcTypes
    <2> QED BY <1>10, <2>2, RemovedFacts, Zenon DEF StoreTypes, Shrinks
  <1> QED BY <1>5, <1>6, <1>7, <1>8, <1>9, <1>10, Zenon DEF Gc

\* Between scans an archive on the list only ages with its entry or disappears:
\* no collection writes into a directory it has published.
LEMMA ScannedStep ==
    ASSUME StoreInv, [Next]_vars
    PROVE  ScannedOK'
  <1> USE DEF StoreInv
  <1> DEFINE Past == {"check", "reported", "lost", "failed", "left"}
  <1>0. ASSUME NEW f \in Listed, f.published
        PROVE  /\ f.id \in Ids
               /\ pc[f.id] \in Past
               /\ dir[f.id] \in {"absent", "empty", "zip"}
               /\ dir[f.id] = "zip" => age[f.id] = f.age
    BY <1>0, Zenon DEF ScannedOK, GcTypes
  <1>1. ASSUME gc' = gc,
               \A i \in Ids : pc[i] \in Past =>
                  /\ pc'[i] \in Past
                  /\ dir'[i] \in {"absent", "empty", dir[i]}
                  /\ dir'[i] # "absent" => age'[i] = age[i]
        PROVE  ScannedOK'
    <2>1. Listed' = Listed BY <1>1, Zenon DEF Listed
    <2> QED BY <1>0, <1>1, <2>1, Zenon DEF ScannedOK
  <1>2. CASE Gc BY <1>2, ScannedGcStep, Zenon
  <1>3. CASE Tick
    <2>1. gc = [pc |-> gc.pc, todo |-> gc.todo, entries |-> gc.entries] BY Zenon DEF GcTypes
    <2>2. gc' = [pc |-> gc.pc, todo |-> IF gc.pc = "scan" THEN gc.todo ELSE Aged(gc.todo),
                 entries |-> Aged(gc.entries)]
      BY <1>3, <2>1, Zenon DEF Tick
    <2>3. Listed' = Aged(Listed)
      BY <2>2, Zenon DEF Listed, Aged
    <2> SUFFICES ASSUME NEW g \in Listed', g.published
                 PROVE  /\ pc'[g.id] \in Past
                        /\ dir'[g.id] \in {"absent", "empty", "zip"}
                        /\ dir'[g.id] = "zip" => age'[g.id] = g.age
      BY Zenon DEF ScannedOK
    <2>4. PICK f \in Listed : g = [f EXCEPT !.age = Older(@)] BY <2>3, Zenon DEF Aged
    <2>5. f \in [id : Ids, published : BOOLEAN, size : Nat, age : Nat] BY Zenon DEF GcTypes
    <2>6. g.id = f.id /\ g.published = f.published /\ g.age = Older(f.age)
      BY <2>4, <2>5, Zenon
    <2>7. pc' = pc /\ dir' = dir
          /\ age' = [i \in Ids |-> IF dir[i] \in {"temp", "zip"} THEN Older(age[i]) ELSE age[i]]
      BY <1>3, Zenon DEF Tick
    <2>8. f.published BY <2>6, Zenon
    <2> HIDE DEF Past
    <2> QED BY <1>0, <2>6, <2>7, <2>8, Zenon
  <1>4. CASE Crash
    <2>1. Listed' = {} BY <1>4, Zenon DEF Crash, Listed, Idle
    <2> QED BY <2>1, Zenon DEF ScannedOK
  <1>5. ASSUME NEW i \in Ids, Fail(i), pc[i] \in Collecting, gc' = gc PROVE ScannedOK'
    <2>1. \A j \in Ids : pc[j] \in Past =>
             /\ pc'[j] \in Past
             /\ dir'[j] \in {"absent", "empty", dir[j]}
             /\ dir'[j] # "absent" => age'[j] = age[j]
      BY <1>5, FailFacts, Zenon DEF StoreTypes, Shrinks
    <2> QED BY <1>1, <1>5, <2>1, Zenon
  <1>6. ASSUME NEW i \in Ids, CheckPublished(i), ~Fail(i) PROVE ScannedOK'
    BY <1>1, <1>6, Zenon DEF CheckPublished, StoreTypes, store
  <1>7. ASSUME NEW i \in Ids, Discard(i) PROVE ScannedOK'
    BY <1>1, <1>7, CleanUpFacts, Zenon DEF Discard, StoreTypes, Shrinks
  <1>8. ASSUME NEW i \in Ids, pc[i] \notin Past, gc' = gc,
               \A j \in Ids \ {i} : pc'[j] = pc[j] /\ dir'[j] = dir[j] /\ age'[j] = age[j]
        PROVE  ScannedOK'
    BY <1>1, <1>8, Zenon
  <1>9. ASSUME NEW i \in Ids, Start(i) PROVE ScannedOK'
    BY <1>8, <1>9, Zenon DEF Start, store, StoreTypes
  <1>10. ASSUME NEW i \in Ids, Walk(i) \/ Open(i) \/ MakeDir(i), ~Fail(i) PROVE ScannedOK'
    <2>1. CASE Walk(i) BY <1>8, <1>10, <2>1, Zenon DEF Walk, store, StoreTypes
    <2>2. CASE Open(i) BY <1>8, <1>10, <2>2, Zenon DEF Open, store, StoreTypes
    <2>3. CASE MakeDir(i) BY <1>8, <1>10, <2>3, Zenon DEF MakeDir, StoreTypes
    <2> QED BY <1>10, <2>1, <2>2, <2>3, Zenon
  <1>11. ASSUME NEW i \in Ids, CreateTemp(i) \/ WriteZip(i) \/ Publish(i), ~Fail(i)
         PROVE  ScannedOK'
    <2>1. CASE CreateTemp(i) BY <1>8, <1>11, <2>1, Zenon DEF CreateTemp, StoreTypes
    <2>2. CASE WriteZip(i) BY <1>8, <1>11, <2>2, Zenon DEF WriteZip, StoreTypes
    <2>3. CASE Publish(i) BY <1>8, <1>11, <2>3, Zenon DEF Publish, StoreTypes
    <2> QED BY <1>11, <2>1, <2>2, <2>3, Zenon
  <1>12. ASSUME NEW i \in Ids, Collect(i) PROVE ScannedOK'
    <2>1. pc[i] \in Collecting /\ gc' = gc
      BY <1>12, Zenon DEF Collect, Walk, Open, MakeDir, CreateTemp, WriteZip, Publish,
         CheckPublished, Collecting
    <2> QED BY <1>5, <1>6, <1>10, <1>11, <1>12, <2>1, Zenon DEF Collect
  <1>13. ASSUME gc' = gc, pc' = pc, dir' = dir, age' = age PROVE ScannedOK'
    BY <1>1, <1>13, Zenon DEF StoreTypes
  <1>14. ASSUME ~\E i \in Ids : Start(i) \/ Discard(i) \/ Collect(i), ~Crash, ~Gc, ~Tick
         PROVE  gc' = gc /\ pc' = pc /\ dir' = dir /\ age' = age
    BY <1>14, Zenon DEF Next, vars, Cancel, Replace, Extend, snapshot, store
  <1> QED BY <1>2, <1>3, <1>4, <1>7, <1>9, <1>12, <1>13, <1>14, Zenon

\* What the TTL pass has left to remove stays expired.
LEMMA ExpiredStep ==
    ASSUME StoreInv, [Next]_vars
    PROVE  ExpiredOK'
  <1> USE DEF StoreInv
  <1>0. gc = [pc |-> gc.pc, todo |-> gc.todo, entries |-> gc.entries] BY Zenon DEF GcTypes
  <1>1. CASE Tick
    <2>1. gc'.pc = gc.pc /\ (gc.pc = "ttl" => gc'.todo = Aged(gc.todo)) BY <1>0, <1>1, Zenon DEF Tick
    <2>2. ASSUME gc.pc = "ttl", NEW g \in gc'.todo PROVE g.age = Expired
      <3>1. PICK f \in gc.todo : g = [f EXCEPT !.age = Older(@)] BY <2>1, <2>2, Zenon DEF Aged
      <3>2. f.age = Expired /\ f \in [id : Ids, published : BOOLEAN, size : Nat, age : Nat]
        BY <2>2, Zenon DEF ExpiredOK, GcTypes, Listed
      <3> QED BY <3>1, <3>2, Zenon DEF Older
    <2> QED BY <2>1, <2>2, Zenon DEF ExpiredOK
  <1>2. CASE GcCutoff BY <1>0, <1>2, Zenon DEF GcCutoff, ExpiredOK
  <1>3. ASSUME NEW e \in gc.todo, gc.pc \in {"ttl", "size"}, GcExpire(e) \/ GcShrink(e)
        PROVE  ExpiredOK'
    BY <1>3, RemovedFacts, Zenon DEF ExpiredOK
  <1>4. ASSUME gc' = gc PROVE ExpiredOK' BY <1>4, Zenon DEF ExpiredOK
  <1>5. ASSUME gc'.pc # "ttl" PROVE ExpiredOK' BY <1>5, Zenon DEF ExpiredOK
  <1>6. CASE GcStart BY <1>0, <1>4, <1>5, <1>6, Zenon DEF GcStart
  <1>7. CASE GcSize BY <1>0, <1>5, <1>7, Zenon DEF GcSize
  <1>8. CASE GcDone \/ Crash BY <1>5, <1>8 DEF GcDone, Crash, Idle
  <1>9. ASSUME NEW i \in Ids, GcScan(i) PROVE ExpiredOK'
    <2>1. gc' = Idle \/ gc' = [gc EXCEPT !.todo = @ \ {i}, !.entries = @ \cup {Scan(i)}]
      BY <1>9, Zenon DEF GcScan
    <2>2. gc'.pc # "ttl"
      <3>1. CASE gc' = Idle BY <3>1, Zenon DEF Idle
      <3>2. CASE gc' # Idle
        <4>1. gc'.pc = gc.pc BY <1>0, <2>1, <3>2, Zenon
        <4> QED BY <1>9, <4>1, Zenon DEF GcScan
      <3> QED BY <3>1, <3>2, Zenon
    <2> QED BY <1>5, <2>2, Zenon
  <1>10. ASSUME ~Gc, ~Tick, ~Crash PROVE gc' = gc
    BY <1>10, Zenon DEF Next, vars, Start, Cancel, Discard, Collect, Walk, Open, MakeDir, CreateTemp,
       WriteZip, Publish, CheckPublished, Replace, Extend
  <1> QED BY <1>1, <1>2, <1>3, <1>4, <1>6, <1>7, <1>8, <1>9, <1>10, Zenon DEF Gc

-----------------------------------------------------------------------------
(* The theorems.                                                           *)

\* The store starts empty, with nothing recorded and the collector idle.
LEMMA StoreInit == Init => StoreInv
  <1> SUFFICES ASSUME Init PROVE StoreInv
    OBVIOUS
  <1> USE DEF Init
  <1>1. StoreTypes BY StoreAssumption, Zenon DEF StoreTypes, Phases
  <1>2. SelectedOK /\ OpenedTypes BY EmptyDomain, Zenon DEF SelectedOK, OpenedTypes
  <1>3. OpenedOK /\ ArchiveOK /\ PhaseOK BY Zenon DEF OpenedOK, ArchiveOK, PhaseOK
  <1>4. GcTypes /\ ScannedOK /\ ExpiredOK
    BY Zenon DEF GcTypes, ScannedOK, ExpiredOK, Listed, Idle
  <1> QED BY <1>1, <1>2, <1>3, <1>4, Zenon DEF StoreInv

(***************************************************************************)
(* StoreInv is an inductive invariant of the store, for any workspace,     *)
(* patterns, limits, number of snapshots, writes, restarts and failed      *)
(* removals.                                                               *)
(***************************************************************************)
THEOREM StoreCorrect == Spec => []StoreInv
  <1>1. StoreInv /\ [Next]_vars => StoreInv'
    BY TypesStep, SelectedStep, OpenedTypesStep, OpenedStep, ArchiveStep, PhaseStep, GcTypesStep,
       ScannedStep, ExpiredStep, Zenon DEF StoreInv
  <1> QED BY <1>1, StoreInit, PTL DEF Spec

(***************************************************************************)
(* A published archive (collect_artifacts_zip_controlled) holds exactly    *)
(* what the traversal selected, and a failed collection has left nothing,  *)
(* unless the directory could not be protected or its removal failed.      *)
(***************************************************************************)
THEOREM StoreArchives == Spec => []ArchiveIsWhatWasSelected
  <1>1. StoreInv => ArchiveIsWhatWasSelected
    <2> SUFFICES ASSUME StoreInv, NEW i \in Ids
                 PROVE  /\ dir[i] = "zip" =>
                             /\ archive[i] = {<<p, matched[i][p]>> : p \in DOMAIN matched[i]}
                             /\ \A e \in archive[i] :
                                   IsIncluded(e[1]) /\ ~IsExcluded(e[1]) /\ ~Matches(Restricted, e[1])
                             /\ bytes[i] <= MaxUncompressed
                        /\ pc[i] = "failed" => dir[i] = "absent"
      BY Zenon DEF ArchiveIsWhatWasSelected
    <2>1. pc[i] = "failed" => dir[i] = "absent" BY Zenon DEF StoreInv, PhaseOK
    <2>2. CASE dir[i] = "zip"
      <3>1. archive[i] = {<<p, matched[i][p]>> : p \in DOMAIN matched[i]}
            /\ bytes[i] <= MaxUncompressed
        BY <2>2, Zenon DEF StoreInv, ArchiveOK
      <3>2. ASSUME NEW e \in archive[i]
            PROVE  IsIncluded(e[1]) /\ ~IsExcluded(e[1]) /\ ~Matches(Restricted, e[1])
        <4>1. PICK p \in DOMAIN matched[i] : e = <<p, matched[i][p]>> BY <3>1, Zenon
        <4>2. e[1] = p BY <4>1, Zenon
        <4> QED BY <4>2, Zenon DEF StoreInv, SelectedOK
      <3> QED BY <2>1, <3>1, <3>2, Zenon
    <2> QED BY <2>1, <2>2, Zenon
  <1> QED BY <1>1, StoreCorrect, PTL

(***************************************************************************)
(* The TTL pass of gc_artifacts takes away a published archive only when it*)
(* is expired or was not yet published when it was scanned.                *)
(***************************************************************************)
THEOREM StoreTtl == Spec => TtlSparesFresh
  <1> DEFINE Spared(i) ==
        (dir[i] = "zip" /\ dir'[i] # "zip" /\ gc.pc = "ttl" /\ gc' # gc) =>
          \/ age[i] = Expired
          \/ \E e \in gc.todo : e.id = i /\ ~e.published
  <1>1. ASSUME StoreInv, [Next]_vars PROVE [\A i \in Ids : Spared(i)]_vars
    <2> SUFFICES ASSUME Next, NEW i \in Ids, dir[i] = "zip", dir'[i] # "zip", gc.pc = "ttl",
                        gc' # gc
                 PROVE  \/ age[i] = Expired
                        \/ \E e \in gc.todo : e.id = i /\ ~e.published
      BY <1>1, Zenon
    <2> USE <1>1 DEF StoreInv
    <2>1. ASSUME NEW e \in gc.todo, GcExpire(e) PROVE e.id = i
      BY <2>1, RemovedFacts, Zenon DEF StoreTypes, Shrinks
    <2>2. ASSUME NEW e \in gc.todo, e.id = i, e.published PROVE age[i] = Expired
      <3>1. e \in Listed BY Zenon DEF Listed
      <3>2. age[i] = e.age BY <2>2, <3>1, Zenon DEF ScannedOK
      <3>3. e.age = Expired BY Zenon DEF ExpiredOK
      <3> QED BY <3>2, <3>3, Zenon
    <2>3. ASSUME ~\E e \in gc.todo : GcExpire(e) PROVE FALSE
      <3>1. Next => gc' = gc \/ dir' = dir \/ \E e \in gc.todo : GcExpire(e)
        BY Zenon DEF Next, Gc, Start, Cancel, Discard, Collect, Walk, Open, MakeDir, CreateTemp,
           WriteZip, Publish, CheckPublished, Replace, Extend, Tick, Crash, GcStart, GcCutoff,
           GcSize, GcDone, GcScan, GcShrink, store
      <3> QED BY <2>3, <3>1, Zenon
    <2> QED BY <2>1, <2>2, <2>3, Zenon
  <1> QED BY <1>1, StoreCorrect, PTL DEF Spec, TtlSparesFresh
=============================================================================
