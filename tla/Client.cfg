SPECIFICATION FairSpec
CONSTANTS
    Order <- MCOrder
    Links <- MCLinks
    Present <- MCPresent
    Declared <- MCDeclared
    Deleted <- MCDeleted
    Fold <- MCFold
    MaxEdits = 2
    Commands = {"run", "start", "update", "action", "stop"}
    Codes = {0, 7, 256}
    MaxFaults = 2
INVARIANTS
    ProvenanceAgrees
    NoSessionLeftBehind
    NothingLeftBehind
    PackagedIsFaithful
PROPERTIES
    InterruptEnds
CHECK_DEADLOCK FALSE
