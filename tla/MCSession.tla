----------------------------- MODULE MCSession -----------------------------
(***************************************************************************)
(* Small instances of Session for TLC.                                     *)
(***************************************************************************)
EXTENDS SessionInv, TLC

CONSTANTS MaxBase, Bodies, RequestIds

(* Update requests: the id and the base revision a client names and the    *)
(* bytes it sends.  Equal records are byte-identical requests.             *)
MCRequests == [id : RequestIds, base : 0 .. MaxBase, body : Bodies]

(* Operations, and the ids clients give to updates, are interchangeable.   *)
ActionSymmetry == Permutations(Actions)
UpdateSymmetry == Permutations(Updates) \cup Permutations(RequestIds)

=============================================================================
