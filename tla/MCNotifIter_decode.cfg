\* An empty medium (0 bytes), one that ends inside an event at packet_size
\* (6 bytes), one that ends inside a second packet (7 to 10 bytes), and two
\* whole packets whose headers name different stream instances (12 bytes).
CONSTANTS
    HeaderBits = 8
    HasStreamIdField = TRUE
    HasInstanceIdField = TRUE
    CtxBits = 16
    HasPacketSizeField = TRUE
    HasContentSizeField = TRUE
    HasTsBeginField = TRUE
    HasTsEndField = TRUE
    EvHeaderBits = 8
    HasEventIdField = TRUE
    HasEvTsField = TRUE
    SecBits = 8
    StreamClassIds = {0, 1}
    EventClassIds = {0, 1}
    EcBits <- MCEcBits
    PayloadBits <- MCPayloadBits
    StreamIdValues = {0, 1}
    InstanceIdValues = {0, 1}
    PacketSizeValues = {48}
    ContentSizeValues = {24, 48}
    EventIdValues = {0, 1}
    TsWidth = 1
    ClockBits = 16
    FileSizes = {0, 6, 7, 8, 9, 10, 12}
    MaxChunk = 3
    MaxAgain = 1
SPECIFICATION Spec
INVARIANT DecodesAsSpecified

