SPECIFICATION Spec
CONSTANTS
    goodKey = goodKey
    otherKey = otherKey
    c1 = c1
    c2 = c2
    s1 = s1
    s2 = s2
    None = None
    Versions = {1, 2, 3}
    Clients = {c1}
    Servers = {s1}
    Supported <- MCSupportedPair
    SigningKey <- MCSigningKeyPair
    Identities = {i1}
    Payloads = {m1, m2}
    MaxKeyPairs = 2
    MaxAttempts = 2
    MaxCounter = 2
INVARIANTS
    CountersUnique
PROPERTIES
    ChannelSpec
CHECK_DEADLOCK FALSE
