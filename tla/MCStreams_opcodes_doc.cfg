SPECIFICATION Spec
CONSTANTS
    None = None
    Hdls = {h1}
    op1 = op1
    OpCodes = {None}
    V1_1Hdls = {h1}
    Authenticated = {}
    StreamHandlers <- MCNoneRegistered
    HasIncoming = {"client", "server"}
    opcodes <- MCCustomOpCodes
    MaxStreams = 1
    MaxCalls = 2
    MaxLosses = 0
INVARIANTS
    StreamsUseConfiguredOpCodes
CHECK_DEADLOCK FALSE
