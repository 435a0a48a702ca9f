SPECIFICATION FairSpec
CONSTANTS
    Clients = {c1, c2}
    Ports <- TwoPorts
    Taken <- Nowhere
    NoPort = noport
    Files <- OnePortFiles
    FileMissing = FALSE
    Mode = "t"
    MaxFds = 2
    MaxHups = 1
    Failures = FALSE
PROPERTIES
    RequestHonoured
CHECK_DEADLOCK FALSE
