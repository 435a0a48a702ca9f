SPECIFICATION PatientSpec
CONSTANTS
    Clients = {c1, c2, c3}
    Ports <- ThreePorts
    Taken <- Busy
    NoPort = noport
    Files <- BusyFiles
    FileMissing = TRUE
    Mode = "p"
    MaxFds = 1
    MaxHups = 2
    Failures = TRUE
INVARIANTS
    TypeOK
    StaleMenusBounded
PROPERTIES
    ClientsAnswered
    RequestHonoured
CHECK_DEADLOCK FALSE
