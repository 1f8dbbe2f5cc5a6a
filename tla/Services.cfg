SPECIFICATION FairSpec
CONSTANTS
    N = 2
    MaxCrashes = 1
    MaxFaults = 1
INVARIANTS
    ReadyIsServed
    TeardownFindsServicesGone
    SupervisorLeavesNothing
PROPERTIES
    OrphanedSupervisorEnds
    FailureEndsSession
    EndingEnds
\* A session ends: with the session over and its services gone nothing is left to do.
CHECK_DEADLOCK FALSE
