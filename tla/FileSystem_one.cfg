SPECIFICATION Spec
CONSTANTS
    r1 = r1
    r2 = r2
    kb = kb
    fa = fa
    fb = fb
    RecvThreads = {r1}
    Keyboard = kb
    Files = {fa, fb}
    SizeOf <- TwoSizes
    CacheBytes = 2
    NoFile = NoFile
    Partial = Partial
    NoThread = NoThread
    Ops = {"store", "relay", "own", "keep", "delete", "search", "get"}
    MaxIndex = 2
INVARIANTS
    TypeOK
    CounterWithinCacheSize
    OwnedNotCached
    IndexedOnDisk
    RelayedOnDisk
    SavedWhenQuiet
    NoDiskLeak
CHECK_DEADLOCK FALSE
