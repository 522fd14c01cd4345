SPECIFICATION FairSpec
CONSTANTS
    f1 = f1
    f2 = f2
    Fds = {f1}
    Timer = Timer
    Clients = Clients
    NoFd = NoFd
    Lost = Lost
    MaxConns = 2
    MaxQueue = 1
PROPERTIES
    NeighbourCloses
CHECK_DEADLOCK FALSE
