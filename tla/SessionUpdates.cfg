SPECIFICATION Spec
CONSTANTS
    Actions = {}
    Updates = {u1, u2, u3}
    Stops = {k1, k2}
    Requests <- MCRequests
    RequestIds = {r1, r2}
    MaxBase = 2
    Bodies = {b1}
    HasServices = FALSE
    MaxRevision = 2
SYMMETRY UpdateSymmetry
INVARIANTS
    ReadyIsDurable
    UpdateAppliedOnce
    ExplicitStopWins
PROPERTIES
    UpdatesConform
\* A session ends: a terminated session takes no more steps.
CHECK_DEADLOCK FALSE
