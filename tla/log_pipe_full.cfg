SPECIFICATION CalmSpec
CONSTANTS
    Senders = {s1, s2, s3}
    Logger = logger
    Nobody = nobody
    Mode = "t"
    PipeCap <- TwoRecords
    LoggerFirst = TRUE
PROPERTY WokenLoggerCatchesUp
CHECK_DEADLOCK FALSE
