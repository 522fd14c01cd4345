SPECIFICATION FairSpec
CONSTANTS
    me = me
    p = p
    q = q
    Me = me
    Ports = {p, q}
    Links <- Triangle
    RecvThreads = {r1, r2}
    NoAnswer = NoAnswer
    MaxCommands = 2
INVARIANTS
    ShownBelongs
    ShownOnce
    TempFilesAccounted
    FileFollowsPorts
PROPERTIES
    SearchEnds
CHECK_DEADLOCK FALSE
