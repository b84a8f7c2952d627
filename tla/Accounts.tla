----------------------------- MODULE Accounts -----------------------------
(***************************************************************************)
(* The users' accounts, kept as two files per user under ASDIR/USERS: the  *)
(* password file says that the user is registered, the login file that he  *)
(* is logged in.  Only the server's UDP thread writes them, one request at *)
(* a time and one file after the other; the worker threads read them       *)
(* without a lock, and the process may die between two files.              *)
(***************************************************************************)
EXTENDS Naturals

CONSTANTS
    Users,
    Passwords,
    NoUser,
    NoPass      \* there is no password file

ASSUME PassAssumption == NoPass \notin Passwords
ASSUME NoUserAssumption == NoUser \notin Users

VARIABLES
    pass,       \* <uid>_pass.txt
    session,    \* <uid>_login.txt exists
    udpPc,      \* "idle", or the file that a request has still to deal with:
                \* "sign" creates a login file, "erase" removes a password
    udpUser,    \* whose file it is
    keyless     \* history: users whose password file could not be created

accountVars == <<pass, session, udpPc, udpUser, keyless>>

AccountsTypeOK ==
    /\ pass \in [Users -> Passwords \cup {NoPass}]
    /\ session \in [Users -> BOOLEAN]
    /\ udpPc \in {"idle", "sign", "erase"}
    /\ udpUser \in Users \cup {NoUser}
    /\ keyless \in SUBSET Users

AccountsInit ==
    /\ pass = [u \in Users |-> NoPass]
    /\ session = [u \in Users |-> FALSE]
    /\ udpPc = "idle"
    /\ udpUser = NoUser
    /\ keyless = {}

UserRegistered(u) == pass[u] # NoPass

UserLoggedIn(u) == session[u]

SetPass(u, p) == pass' = [pass EXCEPT ![u] = p]
SetSession(u, on) == session' = [session EXCEPT ![u] = on]

\* The request goes on with another file of user u, or is over.
GoOnWith(label, u) == udpPc' = label /\ udpUser' = u
Over == GoOnWith("idle", NoUser)

\* UserData::login: a user who is not registered is, and then logged in.
Register(u, p) ==
    /\ udpPc = "idle"
    /\ ~UserRegistered(u)
    /\ SetPass(u, p)
    /\ keyless' = keyless \ {u}
    /\ GoOnWith("sign", u)
    /\ UNCHANGED session

\* The password file cannot be created: safeLockUser swallows the exception,
\* and the login goes on.
RegisterUnsaved(u) ==
    /\ udpPc = "idle"
    /\ ~UserRegistered(u)
    /\ keyless' = keyless \cup {u}
    /\ GoOnWith("sign", u)
    /\ UNCHANGED <<pass, session>>

SignUp ==
    /\ udpPc = "sign"
    /\ SetSession(udpUser, TRUE)
    /\ Over
    /\ UNCHANGED <<pass, keyless>>

\* A login file that cannot be created goes unnoticed.
SignUpUnsaved ==
    /\ udpPc = "sign"
    /\ Over
    /\ UNCHANGED <<pass, session, keyless>>

\* With a wrong password, or logged in already, or when the login file cannot
\* be created, nothing changes.
LogIn(u, p) ==
    /\ udpPc = "idle"
    /\ UserRegistered(u) /\ ~UserLoggedIn(u)
    /\ pass[u] = p
    /\ SetSession(u, TRUE)
    /\ UNCHANGED <<pass, udpPc, udpUser, keyless>>

\* UserData::logout does not look at the password.
LogOut(u) ==
    /\ udpPc = "idle"
    /\ UserRegistered(u) /\ UserLoggedIn(u)
    /\ SetSession(u, FALSE)
    /\ UNCHANGED <<pass, udpPc, udpUser, keyless>>

\* Mutation: the login file is forgotten.
UnregisterKeepsLogin(u) ==
    /\ udpPc = "idle"
    /\ UserRegistered(u)
    /\ GoOnWith("erase", u)
    /\ UNCHANGED <<pass, session, keyless>>

\* UserData::unregisterUser asks neither for a login nor for the password:
\* the login file goes first, then the password.
Unregister(u) ==
    /\ udpPc = "idle"
    /\ UserRegistered(u)
    /\ SetSession(u, FALSE)
    /\ GoOnWith("erase", u)
    /\ UNCHANGED <<pass, keyless>>

Erase ==
    /\ udpPc = "erase"
    /\ SetPass(udpUser, NoPass)
    /\ Over
    /\ UNCHANGED <<session, keyless>>
=============================================================================
