SPECIFICATION FairSpec
CONSTANTS
    None = None
    Threads = {t1}
    MaxRequests = 2
    MaxWatchdogs = 1
    MaxDisconnects = 1
PROPERTIES
    DeadlineKept
    DisconnectCompletes
    IoThreadJoined
CHECK_DEADLOCK FALSE
