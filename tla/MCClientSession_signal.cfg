CONSTANTS
    c1 = c1
    c2 = c2
    p = p
    q = q
    Clients <- MCClients
    Users = {ana}
    Passwords <- MCPasswords
    NoUser = NoUser
    NoPass = NoPass
    NoRequest = NoRequest
    Tries = 2
    MaxCommands = 3
    Allowed = {"cut"}
    Once = {}
    MaxKinds = 1

SPECIFICATION Spec
CHECK_DEADLOCK FALSE

INVARIANTS
    LoggedOutOnExit
