CONSTANTS
    c1 = c1
    c2 = c2
    p = p
    q = q
    Clients <- MCClients
    Users = {ana}
    Passwords <- MCPasswords
    NoUser = NoUser
    NoPass = NoPass
    NoRequest = NoRequest
    Tries = 2
    MaxCommands = 3
    Allowed = {"lost", "late", "dup", "restart", "cut", "file"}
    Once = {"late", "dup"}
    MaxKinds = 1

SPECIFICATION FairSpec
CHECK_DEADLOCK FALSE

INVARIANTS
    TypeOK
    BeliefIsTrue
    OneClientPerUser
    NoOrphanSession
    NeverDenied
    QuietPrompt
    BeliefWasGranted

PROPERTIES
    CommandsEnd
