SPECIFICATION FairSpec
CONSTANTS
    Client = {}
    Dialog = {d1, d2}
    HistoryLimit = 2
    LiveCap = 2
    Hosts = 2
    MaxEvents = 3
    Bridged = TRUE
INVARIANTS TypeOK DialogsAgree
PROPERTIES TerminateCloses
CHECK_DEADLOCK FALSE
