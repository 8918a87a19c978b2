\* Two packets of a stream with header, context and events; sizes in bits.
CONSTANTS
    HeaderBits = 8
    HasStreamIdField = TRUE
    HasInstanceIdField = FALSE
    CtxBits = 16
    HasPacketSizeField = TRUE
    HasContentSizeField = TRUE
    HasTsBeginField = TRUE
    HasTsEndField = TRUE
    EvHeaderBits = 8
    HasEventIdField = TRUE
    HasEvTsField = TRUE
    SecBits = 8
    StreamClassIds = {0, 1}
    EventClassIds = {0, 1}
    EcBits <- MCEcBits
    PayloadBits <- MCPayloadBits
    StreamIdValues = {0, 1}
    InstanceIdValues = {0}
    PacketSizeValues = {48}
    ContentSizeValues = {24, 40, 48}
    EventIdValues = {0, 1}
    TsWidth = 1
    ClockBits = 16
    FileSizes = {0, 6, 12}
    MaxChunk = 3
    MaxAgain = 1
SPECIFICATION Spec
INVARIANTS TypeOK PreviousPacketChain SingleStreamClass ClockMonotonic
    OverrunNeverEndsPacket
PROPERTIES
    ImplementsNotificationStream CallReturns EventuallyStops

