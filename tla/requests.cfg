SPECIFICATION SmallSpec
CONSTANTS
    Workers <- Clients
    Writer = writer
    Nobody = nobody
    Modes <- BothModes
    Home <- Root
    Requests <- Texts
    MaxRequest = 8
    PathMax = 8
    Mimes <- Known
    Lengths = {0, 2}
    Window = 1
    MaxEntries = 1
    Failures = TRUE
INVARIANTS
    TypeOK
    PathFits
    ShellSeesPath
    
    SenderOwnsItsData
    MappedLengthIsFiles
    
PROPERTIES
    OnlyWholeRecorded
    ReadsTheLine
    WorkerEnds
