------------------------------ MODULE MCClient ------------------------------
(***************************************************************************)
(* One invocation over a tree of two files and a symlink.  A file that an  *)
(* editor may create has, but for its case, the name of a directory.       *)
(***************************************************************************)
EXTENDS Client

MCUpper == <<"A">>
MCNested == <<"a", "x">>
MCFile == <<"b">>
MCLink == <<"l">>

MCOrder == <<MCUpper, MCNested, MCFile, MCLink>>
MCLinks == {MCLink}
MCPresent == {MCNested, MCFile, MCLink}
MCDeclared == {MCNested, MCFile}
MCDeleted == {MCUpper}
MCFold(p) == IF p = MCUpper THEN <<"a">> ELSE p
=============================================================================
