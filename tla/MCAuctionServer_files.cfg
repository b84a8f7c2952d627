CONSTANTS
    w1 = w1
    w2 = w2
    ana = ana
    rui = rui
    eva = eva
    p = p
    q = q
    Users <- ThreeUsers
    Passwords = {p, q}
    NoPass = NoPass
    Workers = {w1, w2}
    Requests <- FilesRequests
    Logins <- LoginsPQ
    Leavers = {eva}
    Padded = {rui}
    MaxId = 1
    Values <- MCValues
    MaxTime = 1
    MaxBoots = 2
    MaxFailed = 1
    MaxKeyless = 1
    Garbage <- MCGarbage
    NoUser = NoUser
    NoId = NoId
    NoStart = NoStart
    NoRequest = NoRequest

SPECIFICATION Spec
CHECK_DEADLOCK FALSE

SYMMETRY WorkerSymmetry

CONSTRAINT
    FilesScenarios

INVARIANTS
    ServerTypeOK
    SessionsHaveAccounts
    HostedBeforeStart
    AnnouncedIsComplete
    ClosedIsOver
    EndIsJustified

PROPERTIES
    EndWrittenOnce
    SettledIsFinal
