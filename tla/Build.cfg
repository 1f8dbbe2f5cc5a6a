SPECIFICATION FairSpec
CONSTANTS
    Builds = {b1}
    WithSetup = {b1}
    Kinds = {stdout}
    MaxConcurrent = 1
    MaxOutputBytes = 1
    Capacity = 1
INVARIANTS
    PermitCoversWork
    DisconnectIsReal
    ExitZeroIsSuccess
    SetupEndsBeforeRun
PROPERTY PermitComesBack
