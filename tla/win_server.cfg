SPECIFICATION FairSpec
CONSTANTS
    Clients = {c1, c2}
    Server = server
    Ports <- TwoPorts
    NoPort = noport
    Files <- SomeFiles
    MaxBreaks = 3
    Failures = TRUE
INVARIANTS
    TypeOK
    ServesItsPort
PROPERTIES
    ClientsAnswered
CHECK_DEADLOCK FALSE
