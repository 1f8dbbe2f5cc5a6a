--------------------------- MODULE MCSourceUpdate ---------------------------
(***************************************************************************)
(* Three paths in two directories.  Requests replace, create and delete;   *)
(* archives match them or have a duplicate, undeclared, oversized or       *)
(* corrupt entry.                                                          *)
(***************************************************************************)
EXTENDS SourceUpdate

MCPaths == {"a/x", "a/y", "b/z"}
MCDir == [p \in MCPaths |-> IF p = "b/z" THEN "b" ELSE "a"]
File(p) == [path |-> p, kind |-> "file"]
Delete(p) == [path |-> p, kind |-> "delete"]
MCRequests == { <<File("a/x"), File("b/z")>>, <<File("a/x"), Delete("a/y")>>,
                <<Delete("b/z"), File("a/x")>> }

Entry(p) == [name |-> p, regular |-> TRUE, size |-> 1, actual |-> 1, hashed |-> TRUE]
MCArchives == { <<Entry("a/x")>>, <<Entry("b/z"), Entry("a/x")>>,
                <<Entry("a/x"), Entry("a/x")>>, <<Entry("a/y")>>,
                <<[Entry("a/x") EXCEPT !.hashed = FALSE]>>,
                <<[Entry("a/x") EXCEPT !.regular = FALSE]>>,
                <<Entry("b/z"), [Entry("a/x") EXCEPT !.size = 3]>>,
                <<Entry("b/z"), [Entry("a/x") EXCEPT !.actual = 2]>> }
MCInitials == {OldFile, Absent, OldExec}

=============================================================================
