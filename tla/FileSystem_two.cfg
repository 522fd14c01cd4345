SPECIFICATION Spec
SYMMETRY Sym
CONSTANTS
    r1 = r1
    r2 = r2
    kb = kb
    fa = fa
    fb = fb
    RecvThreads = {r1, r2}
    Keyboard = kb
    Files = {fa}
    SizeOf <- OneSize
    CacheBytes = 1
    NoFile = NoFile
    Partial = Partial
    NoThread = NoThread
    Ops = {"store", "delete"}
    MaxIndex = 3
INVARIANTS
    CachedOnDisk
    IndexNotShared
    EvictionsApart
CHECK_DEADLOCK FALSE
