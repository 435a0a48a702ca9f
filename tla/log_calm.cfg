SPECIFICATION CalmSpec
CONSTANTS
    Senders = {s1, s2, s3}
    Logger = logger
    Nobody = nobody
    Mode = "t"
    PipeCap <- RoomForAll
    LoggerFirst = TRUE
PROPERTIES
    ChannelFairSpec
    SendersFinish
CHECK_DEADLOCK FALSE
