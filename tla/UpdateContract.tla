--------------------------- MODULE UpdateContract ---------------------------
(***************************************************************************)
(* What the session relies on of one execution of apply_update             *)
(* (src/source_updates.rs), and all it relies on: until the first change   *)
(* is validated nothing is touched; an update that commits leaves no part  *)
(* of another state behind; one that reports a proven rollback has         *)
(* restored everything; after anything else the workspace is not trusted.  *)
(***************************************************************************)
VARIABLES
    phase,  \* apply, mutated, undo, undoUnproven, then how it ended
    dirty   \* the workspace is neither the old nor the new revision

Ended == {"committed", "rolledBack", "unprovable", "over"}

Init == phase \in {"idle", "apply"} /\ dirty = FALSE

Start == phase = "idle" /\ phase' \in {"apply", "over"} /\ dirty' = dirty

(* Refused, failed or cancelled before the first change.                   *)
Refuse == phase = "apply" /\ phase' \in {"rolledBack", "unprovable"} /\ dirty' = dirty

Mutate ==
    /\ phase \in {"apply", "mutated"}
    /\ phase' = "mutated"
    /\ dirty' \in BOOLEAN

Commit == phase = "mutated" /\ phase' = "committed" /\ ~dirty'

(* A failed commit may have become durable, so its rollback proves nothing. *)
Fail == phase = "mutated" /\ phase' \in {"undo", "undoUnproven"} /\ dirty' \in BOOLEAN

Undo == phase \in {"undo", "undoUnproven"} /\ phase' = phase /\ dirty' \in BOOLEAN

RollBack ==
    /\ phase \in {"undo", "undoUnproven"}
    /\ \/ phase = "undo" /\ phase' = "rolledBack" /\ ~dirty'
       \/ phase' = "unprovable" /\ dirty' \in BOOLEAN

(* The worker returned (or panicked); the workspace is the session's again. *)
Leave == phase # "over" /\ phase' = "over" /\ dirty' \in BOOLEAN

Next == Start \/ Refuse \/ Mutate \/ Commit \/ Fail \/ Undo \/ RollBack \/ Leave

(* Before and after the update the contract says nothing of the workspace. *)
Step == Next \/ (phase \in {"idle", "over"} /\ phase' = phase)

Spec == Init /\ [][Step]_<<phase, dirty>>

=============================================================================
