SPECIFICATION FairSpec
CONSTANTS
    a = a
    b = b
    c = c
    Beacons = {a, b, c}
    Lists <- Line
    Rank <- ByPort
INVARIANTS
    TieBroken
    TablesAgree
PROPERTIES
    Settles
CHECK_DEADLOCK FALSE
