SPECIFICATION Spec
CONSTANTS
    goodKey = goodKey
    otherKey = otherKey
    c1 = c1
    c2 = c2
    s1 = s1
    s2 = s2
    None = None
    Versions = {1, 2, 3}
    Clients = {c1, c2}
    Servers = {s1, s2}
    Supported <- MCSupported
    SigningKey <- MCSigningKey
    Identities = {i1, i2}
    Payloads = {m1}
    MaxKeyPairs = 1
    MaxAttempts = 2
    MaxCounter = 0
INVARIANTS
    TypeOK
    ServerAuthenticated
    Agreement
    IdentityIsThePeers
CHECK_DEADLOCK FALSE
