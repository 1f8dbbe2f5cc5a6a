SPECIFICATION Spec
CONSTANTS
    Actions = {a1}
    Updates = {u1}
    Stops = {k1}
    Requests <- MCRequests
    RequestIds = {r1}
    MaxBase = 0
    Bodies = {b1}
    HasServices = TRUE
    MaxRevision = 1
INVARIANTS
    CleanupJoinsWork
    PermitCoversWork
    UnprovenReadyKeepsMetadata
    Inductive
PROPERTIES
    ElectionIsFinal
    ImplementsContract
\* A session ends: a terminated session takes no more steps.
CHECK_DEADLOCK FALSE
