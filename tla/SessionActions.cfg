SPECIFICATION Spec
CONSTANTS
    Actions = {a1, a2}
    Updates = {}
    Stops = {k1}
    Requests <- MCRequests
    RequestIds = {r1}
    MaxBase = 0
    Bodies = {b1}
    HasServices = FALSE
    MaxRevision = 1
SYMMETRY ActionSymmetry
INVARIANTS
    CleanupOnce
    UndeliveredArchivesDiscarded
\* A session ends: a terminated session takes no more steps.
CHECK_DEADLOCK FALSE
