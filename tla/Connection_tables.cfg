SPECIFICATION Spec
CONSTANTS
    f1 = f1
    f2 = f2
    Fds = {f1, f2}
    Timer = Timer
    Clients = Clients
    NoFd = NoFd
    Lost = Lost
    MaxConns = 2
    MaxQueue = 1
SYMMETRY Sym
INVARIANTS
    TablesFollowThreads
    NoMessageForgotten
CHECK_DEADLOCK FALSE
