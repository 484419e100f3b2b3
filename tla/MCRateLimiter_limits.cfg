SPECIFICATION Spec
CONSTANTS
    Ips = {a1}
    Enabled = TRUE
    MessagesPerSecond = 1
    HandshakesPerMinute = 1
    ConnectionsPerMinute = 2
    BurstSize = 2
    MaxTotal = 1
    Second = 2
    Window = 2
    MaxTime = 4
    MaxOpens = 3
    MaxMessages = 3
INVARIANTS
    WindowRespected
    VerdictsExact
    RateRespected
    VerdictFitsBucket
    CountersAgree
CHECK_DEADLOCK FALSE
