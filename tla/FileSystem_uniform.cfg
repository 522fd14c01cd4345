SPECIFICATION Spec
CONSTANTS
    r1 = r1
    r2 = r2
    kb = kb
    fa = fa
    fb = fb
    RecvThreads = {r1}
    Keyboard = kb
    Files = {fa}
    SizeOf <- OneSize
    CacheBytes = 2
    NoFile = NoFile
    Partial = Partial
    NoThread = NoThread
    Ops = {"store", "delete", "search"}
    MaxIndex = 3
INVARIANTS
    ExactForOneSize
PROPERTIES
    ImplementsCache
CHECK_DEADLOCK FALSE
