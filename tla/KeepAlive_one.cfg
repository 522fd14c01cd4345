SPECIFICATION FairSpec
CONSTANTS
    keepAliveTimeout = 8
    Jitter = 1
    Delay = 2
INVARIANTS
    LivelyStays
PROPERTIES
    SilentLeaves
CHECK_DEADLOCK FALSE
