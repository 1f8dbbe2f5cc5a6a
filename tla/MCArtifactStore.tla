-------------------------- MODULE MCArtifactStore --------------------------
(***************************************************************************)
(* An instance of the artifact store: a workspace with an output tree, a   *)
(* log the task excludes, a key the server restricts and a file outside    *)
(* every include pattern.                                                  *)
(***************************************************************************)
EXTENDS ArtifactStore

Out == <<"out", "app">>
OutUpper == <<"out", "APP">>
Log == <<"out", "log">>
Key == <<"out", "key">>
Dep == <<"deps", "lib">>

MCPaths == {Out, OutUpper, Log, Key, Dep}

MCWritten == {Out}

MCFold(p) == IF p = OutUpper THEN Out ELSE p

MCInclude == {[literal |-> <<"out">>, matches |-> {<<"out">>}]}
MCExclude == {[literal |-> Log, matches |-> {Log}]}
MCRestricted == {[literal |-> <<>>, matches |-> {Key}]}

File == [kind |-> "file", ver |-> 0, size |-> 1]
None == [kind |-> "none", ver |-> 0, size |-> 0]

With(present) == [p \in MCPaths |-> IF p \in present THEN File ELSE None]

\* A full tree, one whose names collide when folded, one with a restricted file only.
MCWorkspaces == {With({Out, Log, Key, Dep}), With({Out, OutUpper}), With({Key})}
=============================================================================
