SPECIFICATION Spec
CONSTANTS
    p1 = p1
    p2 = p2
    a1 = a1
    a2 = a2
    e1 = e1
    t1 = t1
    t2 = t2
    f1 = f1
    c1 = c1
    c2 = c2
    v1 = v1
    v2 = v2
    Nil = Nil
    Absent = Absent
    Free = Free
    Pods = {p1}
    PodOf <- OnePod
    Adders = {a1}
    Editors = {e1}
    Tickers = {t1}
    Refreshers = {}
    CoinIDs = {c1, c2}
    Adds <- BothCoins
    Edit <- EditSecond
    Values = {v1, v2}
    InitCoins <- OneKnown
    Listed = {}
    Gecko = v1
    RunSize = 2
    BatchSize = 2
    LockAttempts = 2
    MaxFaults = 0
    MaxOverruns = 0
PROPERTIES
    NeverEmptied
