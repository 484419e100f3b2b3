SPECIFICATION Spec
CONSTANTS
    None = None
    Hdls = {h1, h2}
    op1 = op1
    OpCodes = {op1}
    V1_1Hdls = {h1}
    Authenticated = {h2}
    StreamHandlers <- MCSomeRegistered
    HasIncoming = {"server"}
    opcodes <- MCDefaultOpCodes
    MaxStreams = 1
    MaxCalls = 4
    MaxLosses = 1
INVARIANTS
    NeverReplaced
    ChunkFindsStream
    ClosedHoldsNoHandle
    RoutedByItsOpCode
    EndAfterItsData
PROPERTIES
    PipesSpec
CHECK_DEADLOCK FALSE
