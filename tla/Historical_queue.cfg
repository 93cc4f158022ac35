SPECIFICATION Spec
CONSTANTS
    s1 = s1
    s2 = s2
    t1 = t1
    l1 = l1
    d1 = d1
    d2 = d2
    x = x
    y = y
    None = None
    Free = Free
    Savers = {s1, s2}
    Tickers = {t1}
    Lookups = {l1}
    Days = {d1, d2}
    Today = {d2}
    Prices = {x, y}
    Saves <- TwoSaves
    InitTable <- OldRows
    RunSize = 3
    BatchSize = 1
    LockAttempts = 2
    MaxRetries = 2
    MaxFaults = 1
    MaxOverruns = 0
INVARIANTS
    LastPushedWins
    MarkedAreQueued
    LookupsAreCurrent
PROPERTIES
    DrainedAsPromised
