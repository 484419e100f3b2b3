SPECIFICATION FairSpec
CONSTANTS
    None = None
    Threads = {t1}
    MaxRequests = 1
    MaxWatchdogs = 1
    MaxDisconnects = 1
PROPERTIES
    DisconnectReturns
CHECK_DEADLOCK FALSE
