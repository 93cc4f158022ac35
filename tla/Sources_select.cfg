SPECIFICATION Spec
CHECK_DEADLOCK FALSE
CONSTANTS
    r1 = r1
    r2 = r2
    k = k
    a = a
    u = u
    Off = Off
    None = None
    Requests = {r1, r2}
    Coins = {k, a, u}
    Refused = {}
    MaxCount = 2
    MaxFaults = 1
    Asks <- TwoRequests
    Known = {k, a}
    ReturnOf <- AssociatedCoin
    Rows <- SomeRows
    Prohibited = {"geckoterminal"}
INVARIANTS
    CountsExpire
    PricesAreOwn
    GivenUpAfterAll
PROPERTIES
    FirstPriceStays
