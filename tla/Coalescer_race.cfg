SPECIFICATION FairSpec
CONSTANTS
    p1 = p1
    p2 = p2
    r1 = r1
    r2 = r2
    k1 = k1
    k2 = k2
    c1 = c1
    c2 = c2
    v1 = v1
    h1 = h1
    h2 = h2
    Junk = Junk
    None = None
    NoPrice = NoPrice
    Absent = Absent
    Prices = {v1}
    Pods = {p1}
    Requests = {r2}
    PodOf <- OnePod
    Handlers = {h1, h2}
    SlotPod <- OneSlot
    Batched = {r2}
    ExcludeRoute = {r2}
    Want <- BatchAlone
    Keys = {k1, k2}
    Coins = {c1, c2}
    CoinOf <- TwoCoins
    FetchSize = 2
    BatchSize = 1
    MaxFaults = 1
INVARIANTS
    TypeOK
    OneFetchPerKey
PROPERTIES
    RequestEnds
    HandlersEnd
    QueueDrains
\* The calls are one-shot: once all have ended the system rests.
CHECK_DEADLOCK FALSE
