SPECIFICATION Spec
CONSTANTS
    Senders = {s1, s2, s3}
    Logger = logger
    Nobody = nobody
    Mode = "p"
    PipeCap <- TwoRecords
    LoggerFirst = TRUE
INVARIANTS
    LinesWhole
    NoLostWakeup
    LogInv
PROPERTY ChannelSpec
CHECK_DEADLOCK FALSE
