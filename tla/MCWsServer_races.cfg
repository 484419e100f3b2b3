SPECIFICATION Spec
CONSTANTS
    None = None
    Hdls = {h1,h2}
    Identities = {i1,i2}
    Threads = {t1}
    MaxRequests = 1
    MaxTotal = 1
    MaxStops = 1
SYMMETRY Symmetry
INVARIANTS
    TypeOK
    CompletedOnce
    NoOrphanedRequest
    AnsweredByAddressee
    RoutedToItsIdentity
    NothingOutlivesClose
    RoutableUnlessErased
CHECK_DEADLOCK FALSE
