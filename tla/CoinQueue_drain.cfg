SPECIFICATION Spec
CONSTANTS
    p1 = p1
    p2 = p2
    a1 = a1
    a2 = a2
    e1 = e1
    t1 = t1
    t2 = t2
    f1 = f1
    c1 = c1
    c2 = c2
    v1 = v1
    v2 = v2
    Nil = Nil
    Absent = Absent
    Free = Free
    Pods = {p1, p2}
    PodOf <- TwoPods
    Adders = {a1, a2}
    Editors = {}
    Tickers = {t1}
    Refreshers = {}
    CoinIDs = {c1, c2}
    Adds <- MixedCoins
    Edit <- EditFirst
    Values = {v1}
    InitCoins <- AllKnown
    Listed = {}
    Gecko = v1
    RunSize = 1
    BatchSize = 1
    LockAttempts = 2
    MaxFaults = 1
    MaxOverruns = 0
INVARIANTS
    TypeOK
    DrainsAreExclusive
PROPERTIES
    OnlyUnreadAreLost
