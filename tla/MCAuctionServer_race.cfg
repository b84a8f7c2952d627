CONSTANTS
    w1 = w1
    w2 = w2
    ana = ana
    rui = rui
    eva = eva
    p = p
    q = q
    Users <- MCUsers
    Passwords = {p}
    NoPass = NoPass
    Workers = {w1, w2}
    Requests <- TwoOpens
    Logins <- LoginsP
    Leavers = {}
    Padded = {}
    MaxId = 1
    Values <- MCValues
    MaxTime = 1
    MaxBoots = 1
    MaxFailed = 0
    MaxKeyless = 0
    Garbage <- MCGarbage
    NoUser = NoUser
    NoId = NoId
    NoStart = NoStart
    NoRequest = NoRequest

SPECIFICATION Spec
CHECK_DEADLOCK FALSE

INVARIANTS
    IdsGivenOnce
