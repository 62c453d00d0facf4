\* Every kind of packet, in any order, with stops and restarts.
CONSTANTS
    X = X
    Y = Y
    ZeroMux = ZeroMux
    BadLine = BadLine
    BadAddress = BadAddress
    None = None
    Platforms <- MCPlatforms
    Mappings <- MCMappings
    I2C_ENGINE_COUNT = 2
    I2C_SEGMENT_COUNT = 3
    MAX_I2C_TABLE_REMAP = 2
    MAX_I2C_RETRIES = 1
    Muxes <- MCMuxes
    Addresses = {80}
    LINE_BYTES = 2
    ReadLens = {0, 1, 3}
    Bytes <- MCBytes
    Packets <- MCPackets
    I2cPackets <- MCI2cPackets
    FD_LIMIT = 3
SPECIFICATION ChifSpec
INVARIANTS
    RoutedAsDefined
    AnswerIsOneRuns
    OutcomeTold
    ChifTypeOK
    EvsKeptWhileDescriptorsLast
PROPERTIES
    KeepsReading
