\* Two changes, two steps of interference by the task's services.
CONSTANTS
    Paths <- MCPaths
    Dir <- MCDir
    Requests <- MCRequests
    Archives <- MCArchives
    Initials <- MCInitials
    MaxFiles = 2
    MaxBytes = 3
    MaxInterference = 2
SPECIFICATION Spec
INVARIANTS AllOrNothing CommittedIsBeneath OnlyVerifiedBytes
PROPERTIES ImplementsUpdateContract
