SPECIFICATION Spec
CHECK_DEADLOCK FALSE
CONSTANTS
    j1 = j1
    j2 = j2
    c1 = c1
    c2 = c2
    c3 = c3
    Calls = {j1, j2}
    Plans <- SomePlans
    Coins = {c1, c2, c3}
    Days = {1, 2}
    Today = 2
    Now = Now
    None = None
    Stranger = Stranger
    Listed = {c1, c2}
    Allowed = {c1, c2}
    OnLlama = {c1, c3}
    Routed = {c1, c2}
    Limit = 1
    MaxFaults = 1
INVARIANTS
    PricesBelong
    CachedAreSaved
    PricedHaveRows
    NetworkReopens
    QuotesAreAnswered
    FreshAreAsked
