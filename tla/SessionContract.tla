-------------------------- MODULE SessionContract --------------------------
(***************************************************************************)
(* What a managed session promises to its clients and to the daemon's      *)
(* admission control (repository README, managed sessions), without the    *)
(* threads that keep the promise:                                          *)
(*                                                                         *)
(*  - it holds one build permit from its reservation until it is over, and *)
(*    is only over once the permit is back;                                *)
(*  - it runs one action or one source update at a time, and only a source *)
(*    update that ends well moves the workspace revision, by one;          *)
(*  - it is closed once, by the daemon or by one stop request, and only    *)
(*    that stop is ever told of success, after the session is over.        *)
(***************************************************************************)
EXTENDS Naturals

CONSTANTS Stops

VARIABLES
    phase,     \* absent, starting, ready, acting, updating, closing, closed
    permit,    \* does it hold a build permit?
    revision,  \* the workspace revision clients see
    closer,    \* who closed it: none, the daemon or a stop request
    answered   \* the stop requests answered with success

vars == <<phase, permit, revision, closer, answered>>

Open == {"starting", "ready", "acting", "updating"}

Init ==
    /\ phase = "absent" /\ permit = FALSE /\ revision = 0
    /\ closer = "none" /\ answered = {}

Reserve ==
    /\ phase = "absent"
    /\ phase' = "starting" /\ permit' = TRUE
    /\ UNCHANGED <<revision, closer, answered>>

Commit ==
    /\ phase = "starting"
    /\ phase' = "ready"
    /\ UNCHANGED <<permit, revision, closer, answered>>

Begin ==
    /\ phase = "ready"
    /\ phase' \in {"acting", "updating"}
    /\ UNCHANGED <<permit, revision, closer, answered>>

End ==
    /\ phase \in {"acting", "updating"}
    /\ phase' = "ready"
    /\ revision' \in {revision} \cup (IF phase = "updating" THEN {revision + 1} ELSE {})
    /\ UNCHANGED <<permit, closer, answered>>

Close ==
    /\ phase \in Open
    /\ phase' = "closing"
    /\ closer' \in Stops \cup {"daemon"}
    /\ UNCHANGED <<permit, revision, answered>>

Release ==
    /\ phase = "closing" /\ permit
    /\ permit' = FALSE
    /\ UNCHANGED <<phase, revision, closer, answered>>

Finish ==
    /\ phase = "closing" /\ ~permit
    /\ phase' = "closed"
    /\ answered' \in {{}, {closer} \cap Stops}
    /\ UNCHANGED <<permit, revision, closer>>

Answer ==
    /\ phase = "closed"
    /\ answered' = {closer} \cap Stops
    /\ UNCHANGED <<phase, permit, revision, closer>>

Next == Reserve \/ Commit \/ Begin \/ End \/ Close \/ Release \/ Finish \/ Answer

Spec == Init /\ [][Next]_vars

=============================================================================
