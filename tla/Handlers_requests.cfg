SPECIFICATION FairSpec
CHECK_DEADLOCK FALSE
CONSTANTS
    b1 = b1
    s1 = s1
    l1 = l1
    l2 = l2
    n1 = n1
    n2 = n2
    n3 = n3
    n4 = n4
    u1 = u1
    p1 = p1
    update = update
    delete = delete
    add = add
    insert = insert
    get = get
    t1 = t1
    k1 = k1
    k2 = k2
    k3 = k3
    k4 = k4
    k5 = k5
    k6 = k6
    Anonymous = Anonymous
    None = None
    Requests = {b1, s1, p1, u1, l1, l2, n1, n2, n3, n4}
    Admins = {update, delete, add, insert, get}
    Tokens = {t1}
    DefaultRate = 4
    Scale = 2
    TokenOf <- SomeTokens
    Task <- SomeTasks
    Casts <- SomeCasts
    Rates = {0, 2, 3, 4}
    InitRates <- FirstRates
    Second = 2
    MaxErrors = 1
    Kind <- SomeKinds
    ConnOf <- SomeConns
    KeyFree = TRUE
INVARIANTS
    WithinRate
    CachedIsCurrent
    OwnAnswers
    AnswersAreLogged
PROPERTIES
    BatchesEnd
