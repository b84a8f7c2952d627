CONSTANTS
    w1 = w1
    w2 = w2
    ana = ana
    rui = rui
    eva = eva
    p = p
    q = q
    Users <- MCUsers
    Passwords = {p}
    NoPass = NoPass
    Workers = {w1, w2}
    Requests <- ListedRequests
    Logins <- LoginsP
    Leavers = {}
    Padded = {}
    MaxId = 2
    Values <- MCValues
    MaxTime = 1
    MaxBoots = 2
    MaxFailed = 0
    MaxKeyless = 0
    Garbage <- MCGarbage
    Asks <- MCAsks
    NoAsk = NoAsk
    NoUser = NoUser
    NoId = NoId
    NoStart = NoStart
    NoRequest = NoRequest

SPECIFICATION LSpec
CHECK_DEADLOCK FALSE

SYMMETRY WorkerSymmetry

INVARIANTS
    ShownIsTrue

PROPERTIES
    KnownIsListed
