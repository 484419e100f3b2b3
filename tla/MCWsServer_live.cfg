SPECIFICATION FairSpec
CONSTANTS
    None = None
    Hdls = {h1}
    Identities = {}
    Threads = {t1}
    MaxRequests = 2
    MaxTotal = 0
    MaxStops = 2
PROPERTIES
    DeadlineKept
    FailedOnClose
    StopJoins
CHECK_DEADLOCK FALSE
