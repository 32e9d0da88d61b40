SPECIFICATION FairSpec
CONSTANTS
    Client = {c1}
    Dialog = {}
    HistoryLimit = 2
    LiveCap = 2
    Hosts = 1
    MaxEvents = 4
    Bridged = FALSE
INVARIANTS NoGap NoOverlap BoundaryQuiet ClosedLast
PROPERTIES CatchesUp
