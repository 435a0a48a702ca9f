SPECIFICATION FairSpec
CONSTANTS
    Senders = {s1, s2, s3}
    Logger = logger
    Nobody = nobody
    Mode = "t"
    PipeCap <- RoomForAll
    LoggerFirst = FALSE
INVARIANTS
    TypeOK
    ReaderNeverStarves
PROPERTIES
    NeverDestroyedUnderSender
    ChannelSpec
    
CHECK_DEADLOCK FALSE
