SPECIFICATION Spec
CONSTANTS
    None = None
    Threads = {t1,t2}
    MaxRequests = 2
    MaxWatchdogs = 2
    MaxDisconnects = 1
SYMMETRY Symmetry
INVARIANTS
    NoTerminate
    CompletedOnce
    NoLostInsert
CHECK_DEADLOCK FALSE
