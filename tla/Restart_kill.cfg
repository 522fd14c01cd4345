SPECIFICATION RSpec
SYMMETRY Sym
CONSTANTS
    r1 = r1
    kb = kb
    fa = fa
    fb = fb
    RecvThreads = {r1}
    Keyboard = kb
    Files = {fa, fb}
    SizeOf <- OneSize
    CacheBytes = 1
    NoFile = NoFile
    Partial = Partial
    NoThread = NoThread
    Ops = {"store", "keep"}
    MaxIndex = 2
    MaxRestarts = 2
    MaxKills = 1
INVARIANTS
    Durable
    FreshAfterRestart
    ListedAsDescribed
PROPERTIES
    IdleRestart
CHECK_DEADLOCK FALSE
