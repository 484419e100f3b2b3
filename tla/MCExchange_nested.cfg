SPECIFICATION FairSpec
CONSTANTS
    None = None
    ClientThreads = {c1}
    ServerThreads = {s1}
    MaxClientRequests = 1
    MaxServerRequests = 2
INVARIANTS
    ClientNeverRejects
    NoSilentLoss
PROPERTIES
    PromisesCompleted
CHECK_DEADLOCK FALSE
