--------------------------- MODULE ClientSession ---------------------------
(***************************************************************************)
(* The command line clients and the login state that each believes in,     *)
(* against the accounts of the server.  A command is a datagram, sent      *)
(* again when no reply comes in time; a client has one socket for all its  *)
(* commands, and takes the next reply that arrives on it for its own.      *)
(*                                                                         *)
(* The network and the users may misbehave in any of the ways of Mishaps,  *)
(* any number of times; what went wrong so far is remembered, and the      *)
(* properties say which mishaps they are immune to.                        *)
(***************************************************************************)
EXTENDS Accounts, FiniteSets

CONSTANTS
    Clients,
    Tries,          \* UDP_RESEND_TRIES
    MaxCommands,    \* bound: datagram commands of all clients
    Allowed,        \* environment: the mishaps that may happen
    Once,           \* bound: those that happen only once
    MaxKinds,       \* bound: how many kinds of them may happen together
    NoRequest

Mishaps ==
    {"lost",        \* a datagram does not arrive
     "late",        \* a client stops waiting for a reply that still comes
     "dup",         \* a datagram arrives twice
     "restart",     \* the server stops or crashes, and is started again
     "cut",         \* a signal cuts short a client's wait for a reply
     "file"}        \* the server cannot create a file, and goes on without it

ASSUME TriesAssumption == Tries \in Nat \ {0}
ASSUME MaxCommandsAssumption == MaxCommands \in Nat
ASSUME AllowedAssumption ==
    Allowed \subseteq Mishaps /\ Once \subseteq Mishaps /\ MaxKinds \in Nat

\* "mine" stands for myauctions and mybids, "list" for list and show_record.
UdpOps == {"login", "logout", "unregister", "mine", "list"}

\* A request: the cmd-th command given to any client, with try sendings left.
\* Only op, user and pw are on the wire.
RequestType == [from : Clients, op : UdpOps, user : Users \cup {NoUser},
                pw : Passwords \cup {NoPass}, cmd : 1 .. MaxCommands,
                try : 0 .. Tries - 1]

\* A reply; on the wire are op and status.
ReplyType == [to : Clients, op : UdpOps, cmd : 1 .. MaxCommands, try : 0 .. Tries - 1,
              status : {"OK", "NOK", "REG", "UNR", "NLG", "ERR"}]

ASSUME NoRequestAssumption == NoRequest \notin RequestType

VARIABLES
    uid,        \* UserState::user_id of each client
    pwd,        \* UserState::password
    pc,         \* "prompt"; "waiting" for a reply; "leaving", waiting for the
                \* reply to the logout at the end of main; "ended"; "killed"
    stop,       \* is_shutting_down of the client
    asked,      \* the request it waits for, as it was last sent
    count,      \* how many commands were given so far
    toServer,   \* requests under way, and in the server's socket
    toClient,   \* replies under way, and in the clients' sockets
    serving,    \* the request that the server's UDP thread is in the middle of
    granted,    \* history: the logins that the server has agreed to
    denied,     \* history: clients told that their user is not logged in
    mishaps     \* history: what has gone wrong

sessionVars == <<uid, pwd>>
clientVars == <<pc, stop, asked, count>>
netVars == <<toServer, toClient>>
historyVars == <<granted, denied, mishaps>>
vars == <<accountVars, sessionVars, clientVars, netVars, serving, historyVars>>

Init ==
    /\ AccountsInit
    /\ uid = [c \in Clients |-> NoUser]
    /\ pwd = [c \in Clients |-> NoPass]
    /\ pc = [c \in Clients |-> "prompt"]
    /\ stop = [c \in Clients |-> FALSE]
    /\ asked = [c \in Clients |-> NoRequest]
    /\ count = 0
    /\ toServer = {}
    /\ toClient = {}
    /\ serving = NoRequest
    /\ granted = {}
    /\ denied = {}
    /\ mishaps = {}

Happen(kinds) ==
    /\ kinds \subseteq Allowed
    /\ kinds \cap Once \cap mishaps = {}
    /\ mishaps' = mishaps \cup kinds
    /\ Cardinality(mishaps') <= MaxKinds

Happens(k) == Happen({k})

IsLoggedIn(c) == uid[c] # NoUser

-----------------------------------------------------------------------------
(* The commands of a client.                                               *)

\* The first sending of a request; the client goes on to wait.
Ask(c, op, u, p, label) ==
    /\ count < MaxCommands
    /\ count' = count + 1
    /\ asked' = [asked EXCEPT ![c] = [from |-> c, op |-> op, user |-> u, pw |-> p,
                                      cmd |-> count + 1, try |-> Tries - 1]]
    /\ toServer' = toServer \cup {asked'[c]}
    /\ pc' = [pc EXCEPT ![c] = label]
    /\ UNCHANGED <<accountVars, sessionVars, stop, toClient, serving, historyVars>>

AtPrompt(c) == pc[c] = "prompt" /\ ~stop[c]

LoginCommand(c, u, p) ==
    /\ AtPrompt(c) /\ ~IsLoggedIn(c)
    /\ Ask(c, "login", u, p, "waiting")

LogoutCommand(c) ==
    /\ AtPrompt(c) /\ IsLoggedIn(c)
    /\ Ask(c, "logout", uid[c], pwd[c], "waiting")

UnregisterCommand(c) ==
    /\ AtPrompt(c) /\ IsLoggedIn(c)
    /\ Ask(c, "unregister", uid[c], pwd[c], "waiting")

\* myauctions and mybids.
MineCommand(c) ==
    /\ AtPrompt(c) /\ IsLoggedIn(c)
    /\ Ask(c, "mine", uid[c], NoPass, "waiting")

\* list and show_record need no login.
ListCommand(c) ==
    /\ AtPrompt(c)
    /\ Ask(c, "list", NoUser, NoPass, "waiting")

\* open and bid are exchanges over TCP: the worker that serves them looks for
\* the login and compares the password.
TradeCommand(c) ==
    /\ AtPrompt(c) /\ IsLoggedIn(c)
    /\ denied' = IF UserLoggedIn(uid[c]) /\ pass[uid[c]] = pwd[c]
                 THEN denied ELSE denied \cup {c}
    /\ UNCHANGED <<accountVars, sessionVars, clientVars, netVars, serving, granted, mishaps>>

ExitCommand(c) ==
    /\ AtPrompt(c) /\ ~IsLoggedIn(c)
    /\ stop' = [stop EXCEPT ![c] = TRUE]
    /\ UNCHANGED <<accountVars, sessionVars, pc, asked, count, netVars, serving, historyVars>>

\* Mutation: main returns without logging out.
LeaveSilently(c) ==
    /\ pc[c] = "prompt"
    /\ pc' = [pc EXCEPT ![c] = "ended"]
    /\ UNCHANGED <<accountVars, sessionVars, stop, asked, count, netVars, serving, historyVars>>

\* main leaves its loop, because of a stop or at the end of the input, which
\* may come at any prompt.
Leave(c) ==
    /\ pc[c] = "prompt"
    /\ \/ IsLoggedIn(c) /\ Ask(c, "logout", uid[c], pwd[c], "leaving")
       \/ /\ ~IsLoggedIn(c)
          /\ pc' = [pc EXCEPT ![c] = "ended"]
          /\ UNCHANGED <<accountVars, sessionVars, stop, asked, count, netVars,
                         serving, historyVars>>

-----------------------------------------------------------------------------
(* Waiting for the reply.                                                  *)

Waits(c) == pc[c] \in {"waiting", "leaving"}

\* A command is over: back to the prompt, or out of main.
CommandEnds(c) ==
    /\ pc' = [pc EXCEPT ![c] = IF @ = "leaving" THEN "ended" ELSE "prompt"]
    /\ asked' = [asked EXCEPT ![c] = NoRequest]

\* Mutation: "already logged in" is taken for success.
LoginAcceptedOrIn(r) == r.op = "login" /\ r.status \in {"OK", "REG", "ERR"}

\* Mutation: a wrong password falls through to success.
LoginAcceptedOrNot(r) == r.op = "login" /\ r.status \in {"OK", "REG", "NOK"}

LoginAccepted(r) == r.op = "login" /\ r.status \in {"OK", "REG"}

\* Mutation: the client stays logged in after it has unregistered its user.
LogoutOnly(r) == r.op = "logout" /\ r.status = "OK"

LogoutAccepted(r) == r.op \in {"logout", "unregister"} /\ r.status = "OK"

NotLoggedIn(r) == r.op # "login" /\ r.status \in {"NLG", "NOK", "UNR"}

\* Any reply to c will do if its packet id is the one expected; with another
\* id the command fails (UnexpectedPacketException) and the reply is gone.
TakeReply(c, r) ==
    /\ Waits(c) /\ ~stop[c]
    /\ r \in toClient /\ r.to = c
    /\ \/ toClient' = toClient \ {r} /\ UNCHANGED mishaps
       \/ toClient' = toClient /\ Happens("dup")
    /\ CommandEnds(c)
    /\ LET mine == r.op = asked[c].op
       IN  /\ uid' = [uid EXCEPT ![c] =
                 IF mine /\ LoginAccepted(r) THEN asked[c].user
                 ELSE IF mine /\ LogoutAccepted(r) THEN NoUser ELSE @]
           /\ pwd' = [pwd EXCEPT ![c] =
                 IF mine /\ LoginAccepted(r) THEN asked[c].pw
                 ELSE IF mine /\ LogoutAccepted(r) THEN NoPass ELSE @]
           /\ denied' = IF mine /\ NotLoggedIn(r) THEN denied \cup {c} ELSE denied
    /\ UNCHANGED <<accountVars, stop, count, toServer, serving, granted>>

\* Something that belongs to c's command is still on its way.
Comes(c) ==
    \/ \E m \in toServer \cup {serving} :
        m # NoRequest /\ m.cmd = asked[c].cmd
    \/ \E r \in toClient : r.cmd = asked[c].cmd

TimesOut(c) ==
    /\ Waits(c) /\ ~stop[c]
    /\ IF Comes(c) THEN Happens("late") ELSE UNCHANGED mishaps
    /\ UNCHANGED <<accountVars, sessionVars, stop, count, toClient, serving, granted, denied>>

\* Mutation: the loop over the tries runs once more.
OneMoreTry(m) == TRUE

TriesLeft(m) == m.try > 0

\* Mutation: the tries are not counted.
AgainAndAgain(m) == m

Again(m) == [m EXCEPT !.try = @ - 1]

Resend(c) ==
    /\ TimesOut(c)
    /\ TriesLeft(asked[c])
    /\ asked' = [asked EXCEPT ![c] = Again(@)]
    /\ toServer' = toServer \cup {asked'[c]}
    /\ UNCHANGED pc

GiveUp(c) ==
    /\ TimesOut(c)
    /\ ~TriesLeft(asked[c])
    /\ CommandEnds(c)
    /\ UNCHANGED toServer

\* Mutation: the wait is cancelled although nobody asked for it.
CancelAnyway(c) ==
    /\ Waits(c)
    /\ CommandEnds(c)
    /\ UNCHANGED <<accountVars, sessionVars, stop, count, netVars, serving, historyVars>>

\* After a signal the wait ends, whatever select says, without reading and
\* without sending again (OperationCancelledException).
Cancel(c) ==
    /\ Waits(c) /\ stop[c]
    /\ CommandEnds(c)
    /\ UNCHANGED <<accountVars, sessionVars, stop, count, netVars, serving, historyVars>>

\* SIGINT or SIGTERM; the second one ends the program on the spot.
Signal(c) ==
    /\ pc[c] \notin {"ended", "killed"}
    /\ \/ /\ ~stop[c]
          /\ stop' = [stop EXCEPT ![c] = TRUE]
          /\ IF Waits(c) THEN Happens("cut") ELSE UNCHANGED mishaps
          /\ UNCHANGED pc
       \/ /\ stop[c]
          /\ pc' = [pc EXCEPT ![c] = "killed"]
          /\ UNCHANGED <<stop, mishaps>>
    /\ UNCHANGED <<accountVars, sessionVars, asked, count, netVars, serving, granted, denied>>

WaitStep(c) ==
    \/ \E r \in toClient : TakeReply(c, r)
    \/ Resend(c) \/ GiveUp(c) \/ Cancel(c)

ClientStep(c) ==
    \/ \E u \in Users, p \in Passwords : LoginCommand(c, u, p)
    \/ LogoutCommand(c) \/ UnregisterCommand(c) \/ MineCommand(c) \/ ListCommand(c)
    \/ TradeCommand(c) \/ ExitCommand(c) \/ Leave(c) \/ Signal(c)
    \/ WaitStep(c)

-----------------------------------------------------------------------------
(* The server's UDP thread.                                                *)

Take(m, wrong) ==
    /\ serving = NoRequest
    /\ m \in toServer
    /\ \/ toServer' = toServer \ {m} /\ Happen(wrong)
       \/ toServer' = toServer /\ Happen({"dup"} \cup wrong)
    /\ UNCHANGED <<sessionVars, clientVars, denied>>

TakeRequest(m) == Take(m, {})

Reply(m, status) ==
    /\ toClient' = toClient \cup {[to |-> m.from, op |-> m.op, cmd |-> m.cmd,
                                   try |-> m.try, status |-> status]}
    /\ granted' = IF m.op = "login" /\ status \in {"OK", "REG"}
                  THEN granted \cup {<<m.from, m.user, m.pw>>} ELSE granted

ReplyOnly(m, status) == Reply(m, status) /\ UNCHANGED <<accountVars, serving>>

\* The first of two files is done, the reply follows the second.
KeepServing(m) == serving' = m /\ UNCHANGED <<toClient, granted>>

ServeLogin(m) ==
    /\ m.op = "login" /\ TakeRequest(m)
    /\ \/ LogIn(m.user, m.pw) /\ Reply(m, "OK") /\ UNCHANGED serving
       \/ Register(m.user, m.pw) /\ KeepServing(m)
       \/ UserRegistered(m.user) /\ UserLoggedIn(m.user) /\ ReplyOnly(m, "ERR")
       \/ /\ UserRegistered(m.user) /\ ~UserLoggedIn(m.user) /\ pass[m.user] # m.pw
          /\ ReplyOnly(m, "NOK")

\* A login whose password file or login file cannot be created is answered as
\* if it had been.
ServeUnsaved(m) ==
    /\ m.op = "login" /\ Take(m, {"file"})
    /\ \/ RegisterUnsaved(m.user) /\ KeepServing(m)
       \/ /\ UserRegistered(m.user) /\ ~UserLoggedIn(m.user) /\ pass[m.user] = m.pw
          /\ ReplyOnly(m, "OK")

ServeLogout(m) ==
    /\ m.op = "logout" /\ TakeRequest(m)
    /\ \/ LogOut(m.user) /\ Reply(m, "OK") /\ UNCHANGED serving
       \/ ~UserRegistered(m.user) /\ ReplyOnly(m, "UNR")
       \/ UserRegistered(m.user) /\ ~UserLoggedIn(m.user) /\ ReplyOnly(m, "NOK")

ServeUnregister(m) ==
    /\ m.op = "unregister" /\ TakeRequest(m)
    /\ \/ Unregister(m.user) /\ KeepServing(m)
       \/ ~UserRegistered(m.user) /\ ReplyOnly(m, "UNR")

\* The reply that shows something, or has nothing to show, is "OK".
ServeListing(m) ==
    /\ m.op \in {"mine", "list"} /\ TakeRequest(m)
    /\ \/ m.op = "mine" /\ ~UserLoggedIn(m.user) /\ ReplyOnly(m, "NLG")
       \/ m.op = "mine" /\ UserLoggedIn(m.user) /\ ReplyOnly(m, "OK")
       \/ m.op = "list" /\ ReplyOnly(m, "OK")

FinishServing ==
    /\ serving # NoRequest
    /\ \/ SignUp /\ Reply(serving, "REG") /\ UNCHANGED mishaps
       \/ SignUpUnsaved /\ Reply(serving, "REG") /\ Happens("file")
       \/ Erase /\ Reply(serving, "OK") /\ UNCHANGED mishaps
    /\ serving' = NoRequest
    /\ UNCHANGED <<sessionVars, clientVars, toServer, denied>>

ServerStep ==
    \/ \E m \in toServer :
        \/ ServeLogin(m) \/ ServeUnsaved(m) \/ ServeLogout(m) \/ ServeUnregister(m)
        \/ ServeListing(m)
    \/ FinishServing

\* Stopped by a signal the server finishes the request at hand and logs
\* everyone out, or as many as it comes to before it is killed.  What is in
\* its socket goes with it.
ServerRestart ==
    /\ Happens("restart")
    /\ toServer' \in SUBSET toServer
    /\ \/ /\ serving = NoRequest
          /\ \E out \in SUBSET Users :
                session' = [u \in Users |-> session[u] /\ u \notin out]
          /\ UNCHANGED <<udpPc, udpUser, serving>>
       \/ /\ serving # NoRequest
          /\ serving' = NoRequest
          /\ Over
          /\ UNCHANGED session
    /\ UNCHANGED <<pass, keyless, sessionVars, clientVars, toClient, granted, denied>>

Lose ==
    /\ Happens("lost")
    /\ \/ \E m \in toServer : toServer' = toServer \ {m} /\ UNCHANGED toClient
       \/ \E r \in toClient : toClient' = toClient \ {r} /\ UNCHANGED toServer
    /\ UNCHANGED <<accountVars, sessionVars, clientVars, serving, granted, denied>>

Next ==
    \/ \E c \in Clients : ClientStep(c)
    \/ ServerStep
    \/ ServerRestart
    \/ Lose

Spec == Init /\ [][Next]_vars

\* A waiting client wakes up from select after UDP_TIMEOUT_SECONDS at the latest,
\* and the UDP thread of the server does nothing but serve.
FairSpec ==
    /\ Spec
    /\ \A c \in Clients : WF_vars(WaitStep(c))
    /\ WF_vars(ServerStep)

-----------------------------------------------------------------------------
(* Properties.                                                             *)

TypeOK ==
    /\ AccountsTypeOK
    /\ uid \in [Clients -> Users \cup {NoUser}]
    /\ pwd \in [Clients -> Passwords \cup {NoPass}]
    /\ pc \in [Clients -> {"prompt", "waiting", "leaving", "ended", "killed"}]
    /\ stop \in [Clients -> BOOLEAN]
    /\ asked \in [Clients -> RequestType \cup {NoRequest}]
    /\ count \in 0 .. MaxCommands
    /\ toServer \subseteq RequestType
    /\ toClient \subseteq ReplyType
    /\ serving \in RequestType \cup {NoRequest}
    /\ granted \subseteq Clients \X Users \X Passwords
    /\ denied \subseteq Clients
    /\ mishaps \subseteq Mishaps

\* The client takes its user to be logged in, and has not asked for anything
\* that ends it.
Believes(c) ==
    /\ IsLoggedIn(c)
    /\ \/ pc[c] = "prompt"
       \/ pc[c] = "waiting" /\ asked[c].op \notin {"logout", "unregister"}

\* As long as nothing has gone wrong, the user that a client takes to be
\* logged in is logged in at the server, with the client's password
\* (UserState::isLoggedIn against FileManager::UserLoggedIn).
BeliefIsTrue ==
    mishaps = {} =>
        \A c \in Clients : Believes(c) => session[uid[c]] /\ pass[uid[c]] = pwd[c]

\* As long as nothing has gone wrong, no two clients are logged in as the
\* same user: a second login is answered ERR, and a user who has left can log
\* in elsewhere only when the server has seen him leave.
OneClientPerUser ==
    mishaps = {} =>
        \A c, d \in Clients : Believes(c) /\ Believes(d) /\ uid[c] = uid[d] => c = d

\* As long as nothing has gone wrong, every login that the server keeps is
\* known to a client that has not ended by itself, or is about to be ended by
\* a logout that is on its way: LIN is answered ERR to everybody else.
NoOrphanSession ==
    mishaps = {} =>
        \A u \in Users : session[u] =>
            \/ \E c \in Clients : pc[c] # "ended" /\ uid[c] = u
            \/ \E c \in Clients :
                pc[c] = "waiting" /\ asked[c].op = "login" /\ asked[c].user = u
            \/ \E m \in toServer : m.op = "logout" /\ m.user = u

\* As long as nothing has gone wrong, nobody whose client lets him give a
\* command is told by the server that he is not logged in.
NeverDenied == mishaps = {} => denied = {}

\* No datagram of an earlier command is under way when a client at its prompt
\* may start another, unless it stopped waiting too early or the network
\* repeated one: losses and restarts leave nothing behind that
\* waitForUdpPacket could take for the reply to a later command.
QuietPrompt ==
    mishaps \cap {"late", "dup"} = {} =>
        \A c \in Clients : AtPrompt(c) =>
            /\ \A m \in toServer : m.from # c
            /\ serving # NoRequest => serving.from # c
            /\ \A r \in toClient : r.to # c

\* Through losses, restarts, signals and failing files, a client takes itself to
\* be logged in only as a user, and with a password, that the server has agreed
\* to.
BeliefWasGranted ==
    mishaps \cap {"late", "dup"} = {} =>
        \A c \in Clients : IsLoggedIn(c) => <<c, uid[c], pwd[c]>> \in granted

\* A client does not wait for ever, whatever becomes of the datagrams and the
\* server: sendUdpPacketAndWaitForReply returns or throws.
CommandsEnd == \A c \in Clients : Waits(c) ~> ~Waits(c)

\* What src/README.md:23 says: when all clients have terminated by themselves
\* and what they sent has arrived, nobody is logged in.
LoggedOutOnExit ==
    /\ \A c \in Clients : pc[c] = "ended"
    /\ toServer = {} /\ serving = NoRequest
    => \A u \in Users : ~session[u]
=============================================================================
