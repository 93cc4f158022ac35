SPECIFICATION FairSpec
CONSTANTS
    e1 = e1
    e2 = e2
    e3 = e3
    w1 = w1
    w2 = w2
    t1 = t1
    t2 = t2
    c1 = c1
    c2 = c2
    Nobody = Nobody
    Free = Free
    Callers = {e1, e2, e3}
    Coins = {c1, c2}
    About <- TwoAboutFirst
    TaskWorkers = {w1, w2}
    Tickers = {t1, t2}
    ChannelSize = 2
    BatchSize = 1
    LockAttempts = 2
    MaxRetries = 2
    TopSize = 1
    MaxFaults = 1
    MaxDays = 1
    MaxOverruns = 0
INVARIANTS
    TakenAreWritten
    WrittenOnce
    CountersAreExact
PROPERTIES
    TodaysAreReleased
