SPECIFICATION Spec
CONSTANTS
    Conns = {k1, k2}
    Clients = {c1}
    MinNeighbors = 1
    Beacons = 1
    FullRuns = 1
SYMMETRY Sym
INVARIANTS
    ListReadable
    IsolationNoticed
    ControlEnded
    EndsOrWaits
CHECK_DEADLOCK FALSE
