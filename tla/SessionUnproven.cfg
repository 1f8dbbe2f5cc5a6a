SPECIFICATION Spec
CONSTANTS
    Actions = {}
    Updates = {}
    Stops = {k1}
    Requests <- MCRequests
    RequestIds = {r1}
    MaxBase = 0
    Bodies = {b1}
    HasServices = TRUE
    MaxRevision = 1
INVARIANTS
    UnprovenKeepsMetadata
\* A session ends: a terminated session takes no more steps.
CHECK_DEADLOCK FALSE
