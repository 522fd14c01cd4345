SPECIFICATION FairSpec
CONSTANTS
    a = a
    b = b
    c = c
    j = j
    e = e
    f = f
    g = g
    k = k
    qs = qs
    qf = qf
    qh = qh
    qg = qg
    qk = qk
    qj = qj
    qd = qd
    qt = qt
    us = us
    uf = uf
    uh = uh
    ug = ug
    uk = uk
    uj = uj
    ud = ud
    ut = ut
    Nodes = {a, b, c, j, e, f, g, k}
    Links <- CycleAndChain
    Beacons = {c, g}
    Requests = {uk}
    Kind <- Kinded
    From <- Origin
    StartTTL <- Ask2
    TTL <- Reply2
    Has <- Holders
    NoNode = NoNode
    NoMessage = NoMessage
    MaxAsked = 1
    MaxExpired <- Never
    Breakable = {}
PROPERTIES
    CheckResCounts
CHECK_DEADLOCK FALSE
