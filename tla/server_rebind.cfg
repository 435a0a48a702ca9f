SPECIFICATION Spec
CONSTANTS
    Clients = {c1, c2}
    Ports <- TwoPorts
    Taken <- Nowhere
    NoPort = noport
    Files <- OnePortFiles
    FileMissing = FALSE
    Mode = "p"
    MaxFds = 2
    MaxHups = 2
    Failures = FALSE
INVARIANTS
    BindFindsPortFree
CHECK_DEADLOCK FALSE
