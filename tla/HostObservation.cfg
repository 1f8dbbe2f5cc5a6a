SPECIFICATION FairSpec
CONSTANTS
    c1 = c1
    c2 = c2
    Clients = {c1, c2}
    Asks <- MCAsks
    DisplayIds = {"d1", "d2"}
    WindowIds = {"w1", "w2"}
    Displays <- MCDisplays
    Layouts = 2
    WindowLists <- MCWindowLists
    Opened <- MCOpened
    Named = "w1"
    HostSlots = 1
    MaxChanges = 2
INVARIANT CapturedAsNamed
PROPERTY SlotComesBack
\* Each command ends, and the broker may have stopped.
CHECK_DEADLOCK FALSE
