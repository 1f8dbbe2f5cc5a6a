SPECIFICATION FairSpec
CONSTANTS
    Actions = {a1}
    Updates = {}
    Stops = {k1}
    Requests <- MCRequests
    RequestIds = {r1}
    MaxBase = 0
    Bodies = {b1}
    HasServices = TRUE
    MaxRevision = 1
PROPERTIES
    DeadlineReleasesPermit
    StopAnswered
    ReadyEventuallyExpires
\* A session ends: a terminated session takes no more steps.
CHECK_DEADLOCK FALSE
