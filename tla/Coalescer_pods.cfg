SPECIFICATION Spec
CONSTANTS
    p1 = p1
    p2 = p2
    r1 = r1
    r2 = r2
    k1 = k1
    k2 = k2
    c1 = c1
    c2 = c2
    v1 = v1
    h1 = h1
    h2 = h2
    Junk = Junk
    None = None
    NoPrice = NoPrice
    Absent = Absent
    Prices = {v1}
    Pods = {p1, p2}
    Requests = {r1, r2}
    PodOf <- TwoPods
    Handlers = {h1, h2}
    SlotPod <- TwoSlots
    Batched = {}
    ExcludeRoute = {}
    Want <- Singles
    Keys = {k1}
    Coins = {c1}
    CoinOf <- OneCoin
    FetchSize = 1
    BatchSize = 1
    MaxFaults = 1
SYMMETRY Alike
INVARIANTS
    QueueMatchesSet
PROPERTIES
    AnswersSpec
\* The calls are one-shot: once all have ended the system rests.
CHECK_DEADLOCK FALSE
