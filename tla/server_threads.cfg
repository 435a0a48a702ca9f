SPECIFICATION PatientSpec
CONSTANTS
    Clients = {c1, c2}
    Ports <- TwoPorts
    Taken <- Nowhere
    NoPort = noport
    Files <- OnePortFiles
    FileMissing = FALSE
    Mode = "t"
    MaxFds = 1
    MaxHups = 3
    Failures = TRUE
INVARIANTS
    ListensWhereItSays
    BindFindsPortFree
PROPERTIES
    
    ClientsAnswered
CHECK_DEADLOCK FALSE
