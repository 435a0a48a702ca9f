SPECIFICATION FairSpec
CONSTANTS
    s1 = s1
    s2 = s2
    s3 = s3
    Senders <- Three
    Free = free
    NPipes = 3
    Size <- Sizes
    Modes <- BothModes
    Failures = TRUE
INVARIANTS
    TypeOK
    WrittenIsKept
    LinesAreRecords
PROPERTIES
    WrittenIsLogged
CHECK_DEADLOCK FALSE
