SPECIFICATION FairSpec
CONSTANTS
    MaxSnapshots = 2
    Paths <- MCPaths
    Workspaces <- MCWorkspaces
    Written <- MCWritten
    Include <- MCInclude
    Exclude <- MCExclude
    Restricted <- MCRestricted
    Fold <- MCFold
    MaxFiles = 4
    MaxDepth = 2
    MaxUncompressed = 1
    TtlSec = 1
    MaxBytes = 1
    MaxChanges = 1
    MaxFaults = 1
INVARIANT ArchiveIsWhatWasSelected
PROPERTIES
    TtlSparesFresh
    StoreIsEmptied
