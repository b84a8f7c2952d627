------------------------ MODULE ClientSession_proofs ------------------------
(***************************************************************************)
(* Proofs about ClientSession, for any clients, users and numbers of tries *)
(* and of commands.  The inductive invariant says that a client that has   *)
(* not been stopped has at most one datagram under way, which belongs to   *)
(* the request it waits for, unless a wait ended too early or a datagram   *)
(* was repeated.  The second one says who keeps a user logged in at the    *)
(* server, from the login to the logout, as long as nothing goes wrong.    *)
(***************************************************************************)
EXTENDS ClientSession, TLAPS

Punctual == mishaps \cap {"late", "dup"} = {}

\* A login request names a user and a password.
Named(m) == m.op = "login" => m.user \in Users /\ m.pw \in Passwords

RequestsNamed ==
    /\ \A m \in toServer : Named(m)
    /\ serving # NoRequest => Named(serving)

\* A client that waits does so for a request of its own.
Waiting ==
    \A c \in Clients : Waits(c) =>
        asked[c] \in RequestType /\ asked[c].from = c /\ Named(asked[c])

\* Nothing of client c is under way.
Silent(c) ==
    /\ \A m \in toServer : m.from # c
    /\ serving # NoRequest => serving.from # c
    /\ \A r \in toClient : r.to # c

\* At most one datagram of c is under way: its request, or the reply to it.
SingleRequest(c) ==
    /\ \A m \in toServer : m.from = c => m = asked[c] /\ serving # m
    /\ serving # NoRequest /\ serving.from = c => serving = asked[c]
    /\ (asked[c] \in toServer \/ serving = asked[c]) => \A r \in toClient : r.to # c

SingleReply(c) ==
    /\ \A r \in toClient : r.to = c =>
        /\ r.op = asked[c].op /\ r.cmd = asked[c].cmd
        /\ LoginAccepted(r) => <<c, asked[c].user, asked[c].pw>> \in granted
    /\ \A r, s \in toClient : r.to = c /\ s.to = c => r = s

Single(c) == SingleRequest(c) /\ SingleReply(c)

Orderly ==
    Punctual => \A c \in Clients :
        /\ AtPrompt(c) => Silent(c)
        /\ Waits(c) /\ ~stop[c] => Single(c)
        /\ IsLoggedIn(c) => <<c, uid[c], pwd[c]>> \in granted

IInv == TypeOK /\ RequestsNamed /\ Waiting /\ Orderly

LEMMA InitIInv == Init => IInv
<1> SUFFICES ASSUME Init PROVE IInv
  OBVIOUS
<1> USE DEF Init
<1>1. TypeOK
  BY MaxCommandsAssumption DEF TypeOK, AccountsInit, AccountsTypeOK
<1>2. RequestsNamed /\ Waiting
  BY DEF RequestsNamed, Waiting, Waits
<1>3. Orderly
  BY DEF Orderly, Silent, Waits, IsLoggedIn
<1> QED BY <1>1, <1>2, <1>3 DEF IInv

\* What Happens and its absence do to the mishaps.
LEMMA MishapsGrow ==
    ASSUME TypeOK, NEW k \in Mishaps, Happens(k) \/ UNCHANGED mishaps
    PROVE  mishaps' \subseteq Mishaps /\ (Punctual' => Punctual)
BY DEF TypeOK, Happens, Happen, Punctual

\* A request that is taken is gone, unless the network repeats it.
LEMMA Taken ==
    ASSUME TypeOK, NEW m, NEW wrong \in SUBSET Mishaps, Take(m, wrong)
    PROVE  /\ mishaps' \subseteq Mishaps /\ (Punctual' => Punctual)
           /\ toServer' \subseteq toServer /\ (Punctual' => toServer' = toServer \ {m})
BY DEF TypeOK, Take, Happen, Punctual, Mishaps

\* A client's step that sends a command leaves it waiting for that command.
LEMMA AskPreserves ==
    ASSUME IInv, NEW c \in Clients, NEW op \in UdpOps,
           NEW u \in Users \cup {NoUser}, NEW p \in Passwords \cup {NoPass},
           NEW label \in {"waiting", "leaving"},
           pc[c] = "prompt", op = "login" => u \in Users /\ p \in Passwords,
           Ask(c, op, u, p, label)
    PROVE  IInv'
<1> DEFINE m == [from |-> c, op |-> op, user |-> u, pw |-> p,
                 cmd |-> count + 1, try |-> Tries - 1]
<1> USE DEF IInv, Ask, historyVars, sessionVars
<1>1. m \in RequestType /\ Named(m) /\ m.from = c /\ m # NoRequest
  BY TriesAssumption, MaxCommandsAssumption, NoRequestAssumption
     DEF TypeOK, RequestType, Named
<1>2. asked' = [asked EXCEPT ![c] = m] /\ asked'[c] = m /\ toServer' = toServer \cup {m}
  BY DEF TypeOK
<1> HIDE DEF m
<1>3. TypeOK'
  BY <1>1, <1>2, MaxCommandsAssumption DEF TypeOK, AccountsTypeOK, accountVars
<1>4. RequestsNamed' /\ Waiting'
  BY <1>1, <1>2 DEF RequestsNamed, Waiting, Waits, Named, TypeOK
<1>5. Orderly'
  <2> SUFFICES ASSUME Punctual', NEW d \in Clients
               PROVE  /\ AtPrompt(d)' => Silent(d)'
                      /\ Waits(d)' /\ ~stop'[d] => Single(d)'
                      /\ IsLoggedIn(d)' => <<d, uid'[d], pwd'[d]>> \in granted'
    BY DEF Orderly
  <2>1. Punctual
    BY DEF Punctual
  <2>2. IsLoggedIn(d)' => <<d, uid'[d], pwd'[d]>> \in granted'
    BY <2>1 DEF Orderly, IsLoggedIn
  <2>3. CASE d = c
    <3>1. pc'[c] = label
      BY DEF TypeOK
    <3>2. ~stop'[c] => Silent(c)
      BY <2>1 DEF Orderly, AtPrompt
    <3>3. ~stop'[c] => Single(c)'
      BY <1>1, <1>2, <3>2 DEF Silent, Single, SingleRequest, SingleReply
    <3> QED BY <2>2, <2>3, <3>1, <3>3 DEF AtPrompt
  <2>4. CASE d # c
    <3>1. pc'[d] = pc[d] /\ asked'[d] = asked[d] /\ stop'[d] = stop[d]
      BY <1>2, <2>4 DEF TypeOK
    <3>2. AtPrompt(d)' => Silent(d)'
      BY <1>1, <1>2, <2>1, <2>4, <3>1 DEF Orderly, AtPrompt, Silent
    <3>3. Waits(d)' /\ ~stop'[d] => Single(d)'
      <4> SUFFICES ASSUME Waits(d), ~stop[d] PROVE Single(d)'
        BY <3>1 DEF Waits
      <4>1. Single(d) /\ asked[d].from = d
        BY <2>1 DEF Orderly, Waiting
      <4> QED BY <1>1, <1>2, <2>4, <3>1, <4>1 DEF Single, SingleRequest, SingleReply
    <3> QED BY <2>2, <3>2, <3>3
  <2> QED BY <2>3, <2>4
<1> QED BY <1>3, <1>4, <1>5

\* The steps of a client that move no datagram and log nobody in.
QuietStep(c) ==
    \/ TradeCommand(c) \/ ExitCommand(c) \/ Signal(c) \/ Cancel(c)
    \/ Leave(c) /\ ~IsLoggedIn(c)

\* A client that goes back to its prompt in one of them has been stopped.
LEMMA QuietPreserves ==
    ASSUME IInv, NEW c \in Clients, QuietStep(c)
    PROVE  IInv'
<1> USE DEF QuietStep, TradeCommand, ExitCommand, Signal, Cancel, Leave, CommandEnds,
            historyVars, sessionVars, clientVars, netVars, Ask
<1>1. mishaps' \subseteq Mishaps /\ (Punctual' => Punctual)
  BY MishapsGrow DEF IInv, Mishaps
<1>2. TypeOK'
  BY <1>1 DEF IInv, TypeOK, AccountsTypeOK, accountVars
<1>3. RequestsNamed'
  BY DEF IInv, RequestsNamed
<1>4. Waiting'
  BY DEF IInv, TypeOK, Waiting, Waits
<1>5. ASSUME NEW d \in Clients
      PROVE  /\ AtPrompt(d)' => AtPrompt(d)
             /\ Waits(d)' /\ ~stop'[d] => Waits(d) /\ ~stop[d] /\ asked'[d] = asked[d]
  BY DEF IInv, TypeOK, AtPrompt, Waits
<1>6. UNCHANGED <<uid, pwd, toServer, toClient, serving, granted>>
  OBVIOUS
<1> HIDE DEF QuietStep, TradeCommand, ExitCommand, Signal, Cancel, Leave, CommandEnds,
             historyVars, sessionVars, clientVars, netVars, Ask
<1>7. Orderly'
  <2> SUFFICES ASSUME Punctual', NEW d \in Clients
               PROVE  /\ AtPrompt(d)' => Silent(d)'
                      /\ Waits(d)' /\ ~stop'[d] => Single(d)'
                      /\ IsLoggedIn(d)' => <<d, uid'[d], pwd'[d]>> \in granted'
    BY DEF Orderly
  <2>1. /\ AtPrompt(d) => Silent(d)
        /\ Waits(d) /\ ~stop[d] => Single(d)
        /\ IsLoggedIn(d) => <<d, uid[d], pwd[d]>> \in granted
    BY <1>1 DEF IInv, Orderly
  <2>2. Silent(d)' <=> Silent(d)
    BY <1>6 DEF Silent
  <2>3. asked'[d] = asked[d] => (Single(d)' <=> Single(d))
    BY <1>6 DEF Single, SingleRequest, SingleReply
  <2> QED BY <1>5, <1>6, <2>1, <2>2, <2>3 DEF IsLoggedIn
<1> QED BY <1>2, <1>3, <1>4, <1>7 DEF IInv

\* What the end of a command leaves of the client's place in main.
LEMMA CommandEndsEffect ==
    ASSUME TypeOK, NEW c \in Clients, Waits(c), CommandEnds(c)
    PROVE  /\ pc' \in [Clients -> {"prompt", "waiting", "leaving", "ended", "killed"}]
           /\ asked' \in [Clients -> RequestType \cup {NoRequest}]
           /\ ~Waits(c)'
           /\ \A d \in Clients : d # c => pc'[d] = pc[d] /\ asked'[d] = asked[d]
BY DEF TypeOK, Waits, CommandEnds

\* A reply is taken: it was the only datagram of its client.
LEMMA TakeReplyPreserves ==
    ASSUME IInv, NEW c \in Clients, NEW r \in toClient, TakeReply(c, r)
    PROVE  IInv'
<1> USE DEF TakeReply
<1>1. mishaps' \subseteq Mishaps /\ (Punctual' => Punctual)
  BY MishapsGrow DEF IInv, Mishaps
<1>2. TypeOK /\ Waits(c) /\ ~stop[c] /\ CommandEnds(c) /\ stop' = stop
  BY DEF IInv
<1>3. asked[c] \in RequestType /\ asked[c].from = c /\ Named(asked[c])
  BY <1>2 DEF IInv, Waiting
<1>4. TypeOK'
  <2>1. /\ uid' \in [Clients -> Users \cup {NoUser}]
        /\ pwd' \in [Clients -> Passwords \cup {NoPass}]
    BY <1>2, <1>3 DEF TypeOK, RequestType
  <2>2. denied' \subseteq Clients /\ toClient' \subseteq toClient
    BY <1>2 DEF TypeOK
  <2> QED BY <1>1, <1>2, <2>1, <2>2, CommandEndsEffect DEF TypeOK, AccountsTypeOK, accountVars
<1>5. RequestsNamed' /\ Waiting'
  BY <1>2, CommandEndsEffect DEF IInv, RequestsNamed, Waiting, Waits
<1>6. Orderly'
  <2> SUFFICES ASSUME Punctual', NEW d \in Clients
               PROVE  /\ AtPrompt(d)' => Silent(d)'
                      /\ Waits(d)' /\ ~stop'[d] => Single(d)'
                      /\ IsLoggedIn(d)' => <<d, uid'[d], pwd'[d]>> \in granted'
    BY DEF Orderly
  <2>1. Punctual /\ toClient' = toClient \ {r}
    BY <1>1 DEF Punctual, Happens, Happen
  <2>2. Single(c)
    BY <1>2, <2>1 DEF IInv, Orderly
  <2>3. CASE d = c
    <3>1. Silent(c)'
      <4>1. serving # NoRequest /\ serving.from = c => serving = asked[c]
        BY <2>2 DEF Single, SingleRequest
      <4>2. asked[c] \notin toServer /\ serving # asked[c]
        BY <2>2 DEF Single, SingleRequest
      <4>3. \A m \in toServer : m.from # c
        BY <2>2, <4>2 DEF Single, SingleRequest
      <4>4. \A s \in toClient' : s.to # c
        BY <2>1, <2>2 DEF Single, SingleReply
      <4> QED BY <4>1, <4>2, <4>3, <4>4 DEF Silent
    <3>2. IsLoggedIn(c)' => <<c, uid'[c], pwd'[c]>> \in granted'
      <4>1. CASE r.op = asked[c].op /\ LoginAccepted(r)
        BY <1>2, <2>2, <4>1 DEF TypeOK, Single, SingleReply
      <4>2. CASE r.op = asked[c].op /\ LogoutAccepted(r) /\ ~LoginAccepted(r)
        BY <1>2, <4>2 DEF TypeOK, IsLoggedIn
      <4>3. CASE ~(r.op = asked[c].op /\ (LoginAccepted(r) \/ LogoutAccepted(r)))
        <5>1. uid'[c] = uid[c] /\ pwd'[c] = pwd[c]
          BY <1>2, <4>3 DEF TypeOK
        <5> QED BY <2>1, <5>1 DEF IInv, Orderly, IsLoggedIn
      <4> QED BY <4>1, <4>2, <4>3
    <3> QED BY <1>2, <2>3, <3>1, <3>2, CommandEndsEffect
  <2>4. CASE d # c
    <3>1. /\ pc'[d] = pc[d] /\ asked'[d] = asked[d] /\ stop'[d] = stop[d]
          /\ uid'[d] = uid[d] /\ pwd'[d] = pwd[d]
      BY <1>2, <2>4, CommandEndsEffect DEF TypeOK
    <3>2. Waits(d)' /\ ~stop'[d] => Single(d)'
      <4> SUFFICES ASSUME Waits(d), ~stop[d] PROVE Single(d)'
        BY <3>1 DEF Waits
      <4>1. Single(d)
        BY <2>1 DEF IInv, Orderly
      <4>2. UNCHANGED <<toServer, serving, granted>> /\ toClient' \subseteq toClient
        BY <2>1
      <4> HIDE DEF TakeReply
      <4>3. SingleRequest(d)'
        BY <3>1, <4>1, <4>2 DEF Single, SingleRequest
      <4>4. SingleReply(d)'
        BY <3>1, <4>1, <4>2 DEF Single, SingleReply, LoginAccepted
      <4> QED BY <4>3, <4>4 DEF Single
    <3>3. AtPrompt(d)' => Silent(d)'
      BY <2>1, <3>1 DEF IInv, Orderly, AtPrompt, Silent
    <3> QED BY <2>1, <3>1, <3>2, <3>3 DEF IInv, Orderly, IsLoggedIn
  <2> QED BY <2>3, <2>4
<1> QED BY <1>4, <1>5, <1>6 DEF IInv

\* A wait ends without a reply: nothing was under way, or the wait was too short.
LEMMA TimeoutPreserves ==
    ASSUME IInv, NEW c \in Clients, Resend(c) \/ GiveUp(c)
    PROVE  IInv'
<1> USE DEF Resend, GiveUp, TimesOut, sessionVars
<1>1. mishaps' \subseteq Mishaps /\ (Punctual' => Punctual)
  BY MishapsGrow DEF IInv, Mishaps
<1>2. TypeOK /\ Waits(c) /\ ~stop[c] /\ stop' = stop /\ uid' = uid /\ pwd' = pwd
  BY DEF IInv
<1>3. asked[c] \in RequestType /\ asked[c].from = c /\ Named(asked[c])
  BY <1>2 DEF IInv, Waiting
<1>4. Punctual' => Silent(c)
  <2> SUFFICES ASSUME Punctual' PROVE Silent(c)
    OBVIOUS
  <2>1. ~Comes(c)
    BY DEF Punctual, Happens, Happen
  <2>2. Single(c)
    BY <1>1, <1>2 DEF IInv, Orderly
  <2>3. \A m \in toServer : m.from # c
    BY <1>3, <2>1, <2>2, NoRequestAssumption DEF Comes, Single, SingleRequest
  <2>4. serving # NoRequest => serving.from # c
    BY <2>1, <2>2 DEF Comes, Single, SingleRequest
  <2>5. \A r \in toClient : r.to # c
    BY <2>1, <2>2 DEF Comes, Single, SingleReply
  <2> QED BY <2>3, <2>4, <2>5 DEF Silent
<1>5. CASE GiveUp(c)
  <2>1. TypeOK'
    BY <1>1, <1>2, <1>5, CommandEndsEffect DEF TypeOK, AccountsTypeOK, accountVars
  <2>2. RequestsNamed' /\ Waiting'
    BY <1>2, <1>5, CommandEndsEffect DEF IInv, RequestsNamed, Waiting, Waits
  <2>3. Orderly'
    <3> SUFFICES ASSUME Punctual', NEW d \in Clients
                 PROVE  /\ AtPrompt(d)' => Silent(d)'
                        /\ Waits(d)' /\ ~stop'[d] => Single(d)'
                        /\ IsLoggedIn(d)' => <<d, uid'[d], pwd'[d]>> \in granted'
      BY DEF Orderly
    <3>1. CASE d = c
      BY <1>1, <1>2, <1>4, <1>5, <3>1, CommandEndsEffect
         DEF IInv, Orderly, IsLoggedIn, Silent
    <3>2. CASE d # c
      <4>1. pc'[d] = pc[d] /\ asked'[d] = asked[d]
        BY <1>2, <1>5, <3>2, CommandEndsEffect
      <4> QED BY <1>1, <1>2, <1>5, <4>1
              DEF IInv, Orderly, IsLoggedIn, AtPrompt, Waits, Silent, Single,
                  SingleRequest, SingleReply
    <3> QED BY <3>1, <3>2
  <2> QED BY <2>1, <2>2, <2>3 DEF IInv
<1>6. CASE Resend(c)
  <2> DEFINE m == Again(asked[c])
  <2>1. m \in RequestType /\ m.from = c /\ Named(m) /\ m # NoRequest
    BY <1>3, <1>6, TriesAssumption, NoRequestAssumption
       DEF RequestType, Again, TriesLeft, Named
  <2>2. asked' = [asked EXCEPT ![c] = m] /\ asked'[c] = m /\ toServer' = toServer \cup {m}
    BY <1>2, <1>6 DEF TypeOK
  <2> HIDE DEF m
  <2>3. TypeOK'
    BY <1>1, <1>2, <1>6, <2>1, <2>2 DEF TypeOK, AccountsTypeOK, accountVars
  <2>4. RequestsNamed' /\ Waiting'
    BY <1>2, <1>6, <2>1, <2>2 DEF IInv, TypeOK, RequestsNamed, Waiting, Waits
  <2>5. Orderly'
    <3> SUFFICES ASSUME Punctual', NEW d \in Clients
                 PROVE  /\ AtPrompt(d)' => Silent(d)'
                        /\ Waits(d)' /\ ~stop'[d] => Single(d)'
                        /\ IsLoggedIn(d)' => <<d, uid'[d], pwd'[d]>> \in granted'
      BY DEF Orderly
    <3>1. CASE d = c
      <4>1. ~AtPrompt(c)'
        BY <1>2, <1>6 DEF Waits, AtPrompt
      <4>2. Single(c)'
        BY <1>4, <1>6, <2>1, <2>2 DEF Silent, Single, SingleRequest, SingleReply
      <4> QED BY <1>1, <1>2, <1>6, <3>1, <4>1, <4>2 DEF IInv, Orderly, IsLoggedIn
    <3>2. CASE d # c
      <4>1. pc'[d] = pc[d] /\ asked'[d] = asked[d]
        BY <1>2, <1>6, <2>2, <3>2 DEF TypeOK
      <4>2. AtPrompt(d)' => Silent(d)'
        BY <1>1, <1>2, <1>6, <2>1, <2>2, <3>2, <4>1 DEF IInv, Orderly, AtPrompt, Silent
      <4>3. Waits(d)' /\ ~stop'[d] => Single(d)'
        <5> SUFFICES ASSUME Waits(d), ~stop[d] PROVE Single(d)'
          BY <1>2, <4>1 DEF Waits
        <5>1. Single(d) /\ asked[d].from = d
          BY <1>1 DEF IInv, Orderly, Waiting
        <5> QED BY <1>6, <2>1, <2>2, <3>2, <4>1, <5>1
                DEF Single, SingleRequest, SingleReply
      <4> QED BY <1>1, <1>2, <1>6, <4>2, <4>3 DEF IInv, Orderly, IsLoggedIn
    <3> QED BY <3>1, <3>2
  <2> QED BY <2>3, <2>4, <2>5 DEF IInv
<1> QED BY <1>5, <1>6

\* The network and the server may drop datagrams as they like.
LEMMA DropPreserves ==
    ASSUME IInv, AccountsTypeOK', mishaps' \subseteq Mishaps, Punctual' => Punctual,
           toServer' \subseteq toServer, toClient' \subseteq toClient,
           serving' \in {serving, NoRequest},
           UNCHANGED <<sessionVars, clientVars, granted, denied>>
    PROVE  IInv'
<1> USE DEF sessionVars, clientVars
<1>1. TypeOK'
  BY DEF IInv, TypeOK
<1>2. RequestsNamed' /\ Waiting'
  BY DEF IInv, RequestsNamed, Waiting, Waits
<1>3. Orderly'
  <2> SUFFICES ASSUME Punctual', NEW d \in Clients
               PROVE  /\ AtPrompt(d) => Silent(d)'
                      /\ Waits(d) /\ ~stop[d] => Single(d)'
                      /\ IsLoggedIn(d) => <<d, uid[d], pwd[d]>> \in granted
    BY DEF Orderly, AtPrompt, Waits, IsLoggedIn
  <2>1. /\ AtPrompt(d) => Silent(d)
        /\ Waits(d) /\ ~stop[d] => Single(d) /\ asked[d] \in RequestType
        /\ IsLoggedIn(d) => <<d, uid[d], pwd[d]>> \in granted
    BY DEF IInv, Orderly, Waiting
  <2>2. Silent(d) => Silent(d)'
    BY DEF Silent
  <2>3. Single(d) /\ asked[d] \in RequestType => Single(d)'
    BY NoRequestAssumption DEF Single, SingleRequest, SingleReply, LoginAccepted
  <2> QED BY <2>1, <2>2, <2>3
<1> QED BY <1>1, <1>2, <1>3 DEF IInv

\* A request, in the socket or being served, gives way to the reply to it.
LEMMA AnswerPreserves ==
    ASSUME IInv, AccountsTypeOK', mishaps' \subseteq Mishaps, Punctual' => Punctual,
           NEW m \in toServer \cup {serving}, m # NoRequest,
           NEW status \in {"OK", "NOK", "REG", "UNR", "NLG", "ERR"}, Reply(m, status),
           toServer' \subseteq toServer, Punctual' => m \notin toServer' \/ m = serving,
           serving' = NoRequest, serving \in {m, NoRequest},
           UNCHANGED <<sessionVars, clientVars, denied>>
    PROVE  IInv'
<1> USE DEF sessionVars, clientVars
<1> DEFINE r == [to |-> m.from, op |-> m.op, cmd |-> m.cmd, try |-> m.try, status |-> status]
<1>1. m \in RequestType /\ Named(m)
  BY DEF IInv, TypeOK, RequestsNamed
<1>2. r \in ReplyType /\ r.to = m.from /\ r.op = m.op /\ r.cmd = m.cmd
  BY <1>1 DEF RequestType, ReplyType
<1>3. toClient' = toClient \cup {r}
  BY DEF Reply
<1>4. /\ granted \subseteq granted' /\ granted' \subseteq Clients \X Users \X Passwords
      /\ LoginAccepted(r) => <<m.from, m.user, m.pw>> \in granted'
  BY <1>1 DEF Reply, Named, RequestType, IInv, TypeOK, LoginAccepted
<1> HIDE DEF r
<1>5. TypeOK'
  BY <1>2, <1>3, <1>4 DEF IInv, TypeOK
<1>6. RequestsNamed' /\ Waiting'
  BY DEF IInv, RequestsNamed, Waiting, Waits
<1>7. Orderly'
  <2> SUFFICES ASSUME Punctual', NEW d \in Clients
               PROVE  /\ AtPrompt(d) => Silent(d)'
                      /\ Waits(d) /\ ~stop[d] => Single(d)'
                      /\ IsLoggedIn(d) => <<d, uid[d], pwd[d]>> \in granted'
    BY DEF Orderly, AtPrompt, Waits, IsLoggedIn
  <2>1. /\ AtPrompt(d) => Silent(d)
        /\ Waits(d) /\ ~stop[d] =>
              Single(d) /\ asked[d] \in RequestType /\ asked[d].from = d
        /\ IsLoggedIn(d) => <<d, uid[d], pwd[d]>> \in granted
    BY DEF IInv, Orderly, Waiting
  <2>2. Silent(d) => Silent(d)'
    BY <1>2, <1>3 DEF Silent
  <2>3. ASSUME Single(d), asked[d] \in RequestType, asked[d].from = d, m.from # d
        PROVE  Single(d)'
    <3>1. SingleRequest(d)'
      BY <1>2, <1>3, <2>3, NoRequestAssumption DEF Single, SingleRequest
    <3>2. SingleReply(d)'
      BY <1>2, <1>3, <1>4, <2>3 DEF Single, SingleReply, LoginAccepted
    <3> QED BY <3>1, <3>2 DEF Single
  <2>4. ASSUME Single(d), asked[d] \in RequestType, m.from = d
        PROVE  Single(d)'
    <3>1. m = asked[d] /\ (\A s \in toClient : s.to # d)
      BY <2>4 DEF Single, SingleRequest
    <3>2. \A n \in toServer' : n.from # d
      BY <2>4, <3>1 DEF Single, SingleRequest
    <3>3. SingleRequest(d)'
      BY <2>4, <3>1, <3>2, NoRequestAssumption DEF SingleRequest, Single, RequestType
    <3>4. SingleReply(d)'
      BY <1>2, <1>3, <1>4, <2>4, <3>1 DEF SingleReply, LoginAccepted
    <3> QED BY <3>3, <3>4 DEF Single
  <2> QED BY <1>4, <2>1, <2>2, <2>3, <2>4
<1> QED BY <1>5, <1>6, <1>7 DEF IInv

\* A request is taken from the socket and not answered yet.
LEMMA KeepPreserves ==
    ASSUME IInv, AccountsTypeOK', NEW m \in toServer, NEW wrong \in SUBSET Mishaps,
           Take(m, wrong), KeepServing(m)
    PROVE  IInv'
<1> USE DEF Take, KeepServing, sessionVars, clientVars
<1>1. /\ mishaps' \subseteq Mishaps /\ (Punctual' => Punctual)
      /\ toServer' \subseteq toServer /\ (Punctual' => toServer' = toServer \ {m})
  BY Taken DEF IInv
<1>2. TypeOK' /\ RequestsNamed' /\ Waiting'
  BY <1>1 DEF IInv, TypeOK, RequestsNamed, Waiting, Waits
<1>3. Orderly'
  <2> SUFFICES ASSUME Punctual', NEW d \in Clients
               PROVE  /\ AtPrompt(d) => Silent(d)'
                      /\ Waits(d) /\ ~stop[d] => Single(d)'
                      /\ IsLoggedIn(d) => <<d, uid[d], pwd[d]>> \in granted'
    BY DEF Orderly, AtPrompt, Waits, IsLoggedIn
  <2>1. /\ AtPrompt(d) => Silent(d)
        /\ Waits(d) /\ ~stop[d] =>
              Single(d) /\ asked[d] \in RequestType /\ asked[d].from = d
        /\ IsLoggedIn(d) => <<d, uid[d], pwd[d]>> \in granted
    BY <1>1 DEF IInv, Orderly, Waiting
  <2>2. toServer' = toServer \ {m} /\ UNCHANGED <<toClient, granted>> /\ serving' = m
    BY <1>1
  <2>3. Silent(d) => Silent(d)'
    BY <2>2 DEF Silent
  <2>4. Single(d) /\ asked[d] \in RequestType /\ asked[d].from = d => Single(d)'
    BY <2>2, NoRequestAssumption DEF Single, SingleRequest, SingleReply, LoginAccepted
  <2> QED BY <2>1, <2>2, <2>3, <2>4
<1> QED BY <1>2, <1>3 DEF IInv

LEMMA UdpThreadPreserves ==
    ASSUME IInv, ServerStep
    PROVE  IInv'
<1> USE DEF IInv
<1>1. TypeOK /\ AccountsTypeOK
  BY DEF TypeOK
<1>2. ASSUME NEW m \in toServer, NEW wrong \in SUBSET Mishaps, Take(m, wrong), AccountsTypeOK',
             NEW status \in {"OK", "NOK", "REG", "UNR", "NLG", "ERR"}, Reply(m, status),
             UNCHANGED serving
      PROVE  IInv'
  <2>1. m # NoRequest
    BY <1>1, NoRequestAssumption DEF TypeOK
  <2>2. /\ mishaps' \subseteq Mishaps /\ (Punctual' => Punctual)
        /\ toServer' \subseteq toServer /\ (Punctual' => m \notin toServer')
    BY <1>1, <1>2, Taken
  <2> QED BY <1>2, <2>1, <2>2, AnswerPreserves DEF Take
<1> DEFINE none == {}
<1>a. \A m : TakeRequest(m) <=> Take(m, none)
  BY DEF TakeRequest
<1>b. none \in SUBSET Mishaps /\ {"file"} \in SUBSET Mishaps
  BY DEF Mishaps
<1> HIDE DEF none
<1>3. ASSUME NEW m \in toServer, ServeLogin(m) PROVE IInv'
  <2>1. Take(m, none) /\ m.op = "login" /\ m.user \in Users /\ m.pw \in Passwords
    BY <1>3, <1>a DEF ServeLogin, RequestsNamed, Named
  <2>2. CASE LogIn(m.user, m.pw) /\ Reply(m, "OK") /\ UNCHANGED serving
    <3>1. AccountsTypeOK'
      BY <1>1, <2>1, <2>2 DEF AccountsTypeOK, LogIn, SetSession
    <3> QED BY <1>2, <1>b, <2>1, <2>2, <3>1
  <2>3. CASE Register(m.user, m.pw) /\ KeepServing(m)
    <3>1. AccountsTypeOK'
      BY <1>1, <2>1, <2>3 DEF AccountsTypeOK, Register, SetPass, GoOnWith
    <3> QED BY <1>b, <2>1, <2>3, <3>1, KeepPreserves
  <2>4. CASE ReplyOnly(m, "ERR") \/ ReplyOnly(m, "NOK")
    <3>1. AccountsTypeOK'
      BY <1>1, <2>4 DEF AccountsTypeOK, ReplyOnly, accountVars
    <3> QED BY <1>2, <1>b, <2>1, <2>4, <3>1 DEF ReplyOnly
  <2> QED BY <1>3, <2>2, <2>3, <2>4 DEF ServeLogin
<1>8. ASSUME NEW m \in toServer, ServeUnsaved(m) PROVE IInv'
  <2>1. Take(m, {"file"}) /\ m.user \in Users
    BY <1>8 DEF ServeUnsaved, RequestsNamed, Named
  <2>2. CASE RegisterUnsaved(m.user) /\ KeepServing(m)
    <3>1. AccountsTypeOK'
      BY <1>1, <2>1, <2>2 DEF AccountsTypeOK, RegisterUnsaved, GoOnWith
    <3> QED BY <1>b, <2>1, <2>2, <3>1, KeepPreserves
  <2>3. CASE ReplyOnly(m, "OK")
    <3>1. AccountsTypeOK'
      BY <1>1, <2>3 DEF AccountsTypeOK, ReplyOnly, accountVars
    <3> QED BY <1>2, <1>b, <2>1, <2>3, <3>1 DEF ReplyOnly
  <2> QED BY <1>8, <2>2, <2>3 DEF ServeUnsaved
<1>4. ASSUME NEW m \in toServer, ServeLogout(m) PROVE IInv'
  <2>1. Take(m, none)
    BY <1>4, <1>a DEF ServeLogout
  <2>2. CASE LogOut(m.user) /\ Reply(m, "OK") /\ UNCHANGED serving
    <3>1. AccountsTypeOK'
      BY <1>1, <2>2 DEF AccountsTypeOK, LogOut, SetSession
    <3> QED BY <1>2, <1>b, <2>1, <2>2, <3>1
  <2>3. CASE ReplyOnly(m, "UNR") \/ ReplyOnly(m, "NOK")
    <3>1. AccountsTypeOK'
      BY <1>1, <2>3 DEF AccountsTypeOK, ReplyOnly, accountVars
    <3> QED BY <1>2, <1>b, <2>1, <2>3, <3>1 DEF ReplyOnly
  <2> QED BY <1>4, <2>2, <2>3 DEF ServeLogout
<1>5. ASSUME NEW m \in toServer, ServeUnregister(m) PROVE IInv'
  <2>1. Take(m, none) /\ m.user \in Users \cup {NoUser}
    BY <1>1, <1>5, <1>a DEF ServeUnregister, TypeOK, RequestType
  <2>2. CASE Unregister(m.user) /\ KeepServing(m)
    <3>1. AccountsTypeOK'
      BY <1>1, <2>1, <2>2 DEF AccountsTypeOK, Unregister, SetSession, GoOnWith
    <3> QED BY <1>b, <2>1, <2>2, <3>1, KeepPreserves
  <2>3. CASE ReplyOnly(m, "UNR")
    <3>1. AccountsTypeOK'
      BY <1>1, <2>3 DEF AccountsTypeOK, ReplyOnly, accountVars
    <3> QED BY <1>2, <1>b, <2>1, <2>3, <3>1 DEF ReplyOnly
  <2> QED BY <1>5, <2>2, <2>3 DEF ServeUnregister
<1>6. ASSUME NEW m \in toServer, ServeListing(m) PROVE IInv'
  <2>1. Take(m, none) /\ (ReplyOnly(m, "NLG") \/ ReplyOnly(m, "OK"))
    BY <1>6, <1>a DEF ServeListing
  <2>2. AccountsTypeOK'
    BY <1>1, <2>1 DEF AccountsTypeOK, ReplyOnly, accountVars
  <2> QED BY <1>2, <1>b, <2>1, <2>2 DEF ReplyOnly
<1>7. ASSUME FinishServing PROVE IInv'
  <2>1. AccountsTypeOK'
    BY <1>1, <1>7
       DEF FinishServing, AccountsTypeOK, SignUp, SignUpUnsaved, Erase, SetPass, SetSession,
           Over, GoOnWith
  <2>2. PICK status \in {"OK", "REG"} : Reply(serving, status)
    BY <1>7 DEF FinishServing
  <2>3. mishaps' \subseteq Mishaps /\ (Punctual' => Punctual)
    BY <1>1, <1>7, MishapsGrow DEF FinishServing, Mishaps
  <2> QED BY <1>7, <2>1, <2>2, <2>3, AnswerPreserves DEF FinishServing
<1> QED BY <1>3, <1>4, <1>5, <1>6, <1>7, <1>8 DEF ServerStep

LEMMA EnvironmentPreserves ==
    ASSUME IInv, ServerRestart \/ Lose \/ UNCHANGED vars
    PROVE  IInv'
<1>1. TypeOK /\ AccountsTypeOK
  BY DEF IInv, TypeOK
<1>2. CASE ServerRestart
  <2>1. mishaps' \subseteq Mishaps /\ (Punctual' => Punctual)
    BY <1>1, <1>2, MishapsGrow DEF ServerRestart, Mishaps
  <2>2. AccountsTypeOK'
    BY <1>1, <1>2 DEF ServerRestart, AccountsTypeOK, Over, GoOnWith
  <2> QED BY <1>2, <2>1, <2>2, DropPreserves DEF ServerRestart
<1>3. CASE Lose
  <2>1. mishaps' \subseteq Mishaps /\ (Punctual' => Punctual)
    BY <1>1, <1>3, MishapsGrow DEF Lose, Mishaps
  <2>2. AccountsTypeOK'
    BY <1>1, <1>3 DEF Lose, AccountsTypeOK, accountVars
  <2>3. toServer' \subseteq toServer /\ toClient' \subseteq toClient
    BY <1>3 DEF Lose
  <2> QED BY <1>3, <2>1, <2>2, <2>3, DropPreserves DEF Lose
<1>4. CASE UNCHANGED vars
  <2>1. mishaps' \subseteq Mishaps /\ (Punctual' => Punctual)
    BY <1>1, <1>4, MishapsGrow DEF vars, historyVars, Mishaps
  <2>2. AccountsTypeOK'
    BY <1>1, <1>4 DEF vars, AccountsTypeOK, accountVars
  <2> QED BY <1>4, <2>1, <2>2, DropPreserves DEF vars, netVars, historyVars
<1> QED BY <1>2, <1>3, <1>4

LEMMA ClientPreserves ==
    ASSUME IInv, NEW c \in Clients, ClientStep(c)
    PROVE  IInv'
<1>1. /\ uid[c] \in Users \cup {NoUser} /\ pwd[c] \in Passwords \cup {NoPass}
      /\ NoUser \in Users \cup {NoUser} /\ NoPass \in Passwords \cup {NoPass}
  BY DEF IInv, TypeOK
<1>2. CASE \E u \in Users, p \in Passwords : LoginCommand(c, u, p)
  BY <1>2, AskPreserves DEF LoginCommand, AtPrompt, UdpOps
<1>3. CASE LogoutCommand(c)
  BY <1>1, <1>3, AskPreserves DEF LogoutCommand, AtPrompt, UdpOps
<1>4. CASE UnregisterCommand(c)
  BY <1>1, <1>4, AskPreserves DEF UnregisterCommand, AtPrompt, UdpOps
<1>5. CASE MineCommand(c)
  BY <1>1, <1>5, AskPreserves DEF MineCommand, AtPrompt, UdpOps
<1>6. CASE ListCommand(c)
  BY <1>1, <1>6, AskPreserves DEF ListCommand, AtPrompt, UdpOps
<1>7. CASE Leave(c) /\ IsLoggedIn(c)
  BY <1>1, <1>7, AskPreserves DEF Leave, UdpOps
<1>8. CASE QuietStep(c)
  BY <1>8, QuietPreserves
<1>9. CASE \E r \in toClient : TakeReply(c, r)
  BY <1>9, TakeReplyPreserves
<1>10. CASE Resend(c) \/ GiveUp(c)
  BY <1>10, TimeoutPreserves
<1> QED
  BY <1>2, <1>3, <1>4, <1>5, <1>6, <1>7, <1>8, <1>9, <1>10
     DEF ClientStep, WaitStep, QuietStep

LEMMA IInvInductive == IInv /\ [Next]_vars => IInv'
BY ClientPreserves, UdpThreadPreserves, EnvironmentPreserves DEF Next

LEMMA IInvHolds == Spec => []IInv
BY InitIInv, IInvInductive, PTL DEF Spec

\* The state of the clients, of the network and of the accounts stays well
\* typed, for any number of clients and commands: replies are made only of
\* what requests carry (packet_handlers.cpp).
THEOREM TypeCorrect == Spec => []TypeOK
<1>1. IInv => TypeOK
  BY DEF IInv
<1> QED BY <1>1, IInvHolds, PTL

\* For any number of clients, tries and commands, losses, restarts and
\* signals leave no datagram behind that waitForUdpPacket could take for the
\* reply to a later command.
THEOREM QuietPromptHolds == Spec => []QuietPrompt
<1>1. IInv => QuietPrompt
  BY DEF IInv, Orderly, QuietPrompt, Punctual, Silent
<1> QED BY <1>1, IInvHolds, PTL

\* For any number of clients, tries and commands, losses, restarts and
\* signals never make a client take itself to be logged in as a user, or with
\* a password, that the server has not agreed to (commands.cpp, LoginCommand).
THEOREM BeliefWasGrantedHolds == Spec => []BeliefWasGranted
<1>1. IInv => BeliefWasGranted
  BY DEF IInv, Orderly, BeliefWasGranted, Punctual
<1> QED BY <1>1, IInvHolds, PTL

-----------------------------------------------------------------------------
(* Who is logged in, as long as nothing has gone wrong.                    *)

\* Nothing has gone wrong so far.
Calm == mishaps = {}

\* Client c keeps user u logged in at the server: it is in session, or at its end
\* (killed at the prompt); it is about to be told that its login was accepted; or
\* its request to end the session has not been served yet.
InSession(c, u) ==
    /\ uid[c] = u
    /\ \/ pc[c] \in {"prompt", "killed"} /\ asked[c] = NoRequest
       \/ pc[c] = "waiting" /\ asked[c].op \in {"mine", "list"}

BeingTold(c, u) ==
    /\ pc[c] = "waiting" /\ asked[c].op = "login" /\ asked[c].user = u
    /\ \E r \in toClient : r.to = c /\ LoginAccepted(r)

LoggingOut(c, u) ==
    \E m \in toServer : m.from = c /\ m.op \in {"logout", "unregister"} /\ m.user = u

Holds(c, u) == InSession(c, u) \/ BeingTold(c, u) \/ LoggingOut(c, u)

\* The password that goes with the session.
Key(c) == IF pc[c] = "waiting" /\ asked[c].op = "login" THEN asked[c].pw ELSE pwd[c]

\* A user is logged in exactly while one client keeps him so, with his password.
Sessions ==
    /\ \A u \in Users : session[u] => \E c \in Clients : Holds(c, u)
    /\ \A u \in Users, c \in Clients : Holds(c, u) => session[u] /\ pass[u] = Key(c)
    /\ \A u \in Users, c, d \in Clients : Holds(c, u) /\ Holds(d, u) => c = d
    /\ \A u \in Users : session[u] => UserRegistered(u)

\* At most one datagram of each client is under way.
OneDatagram ==
    /\ \A m, n \in toServer : m.from = n.from => m = n
    /\ \A r, s \in toClient : r.to = s.to => r = s
    /\ \A m \in toServer, r \in toClient : m.from # r.to
    /\ serving # NoRequest =>
        /\ \A m \in toServer : m.from # serving.from
        /\ \A r \in toClient : r.to # serving.from

\* What a client asks for follows from what it believes.
Asking ==
    \A c \in Clients :
        /\ pc[c] = "prompt" => asked[c] = NoRequest
        /\ pc[c] \in {"prompt", "killed"} /\ asked[c] = NoRequest => Silent(c)
        /\ pc[c] = "waiting" => ~stop[c]
        /\ pc[c] = "leaving" => asked[c].op = "logout"
        /\ Waits(c) =>
            /\ asked[c].op = "login" => uid[c] = NoUser
            /\ asked[c].op \in {"logout", "unregister", "mine"} =>
                asked[c].user = uid[c] /\ uid[c] \in Users

\* A waiting client has its request, or the reply to it, under way.
Comforted ==
    \A c \in Clients : Waits(c) =>
        \/ asked[c] \in toServer
        \/ serving = asked[c]
        \/ \E r \in toClient : r.to = c /\ r.cmd = asked[c].cmd

\* Only a logout may outlive the wait of its client.
Senders ==
    /\ \A m \in toServer :
        /\ \/ pc[m.from] = "waiting" /\ asked[m.from] = m
           \/ m.op = "logout" /\ pc[m.from] \in {"leaving", "ended", "killed"}
        /\ m.op \in {"logout", "unregister", "mine"} => m.user \in Users
    /\ \A r \in toClient :
        /\ pc[r.to] = "waiting" => r.op = asked[r.to].op
        /\ r.op # "login" => r.status = "OK"

\* Between the two files of a request nobody has its user's session.
BetweenFiles ==
    /\ serving = NoRequest <=> udpPc = "idle"
    /\ serving # NoRequest =>
        /\ pc[serving.from] = "waiting" /\ asked[serving.from] = serving
        /\ udpUser = serving.user /\ udpUser \in Users
        /\ ~session[udpUser]
    /\ udpPc = "sign" => serving.op = "login" /\ pass[udpUser] = serving.pw
    /\ udpPc = "erase" => serving.op = "unregister"

Settled ==
    /\ Sessions /\ OneDatagram /\ Asking /\ Comforted /\ Senders /\ BetweenFiles
    /\ denied = {}

CalmInv == IInv /\ (Calm => Settled)

LEMMA InitCalm == Init => CalmInv
<1> SUFFICES ASSUME Init PROVE CalmInv
  OBVIOUS
<1> USE DEF Init, AccountsInit
<1>1. \A c \in Clients, u \in Users : ~Holds(c, u)
  BY NoUserAssumption DEF Holds, InSession, BeingTold, LoggingOut
<1>2. Sessions
  BY <1>1 DEF Sessions
<1>3. OneDatagram /\ Asking /\ Comforted /\ Senders /\ BetweenFiles
  BY DEF OneDatagram, Asking, Silent, Comforted, Senders, BetweenFiles, Waits
<1> QED BY <1>2, <1>3, InitIInv DEF CalmInv, Settled

\* A mishap is not forgotten.
LEMMA Remembered == ASSUME NEW k, Happens(k) PROVE ~Calm'
  BY DEF Happens, Happen, Calm

\* What a client holds depends on its own state and datagrams only.
LEMMA HoldsFrame ==
    ASSUME NEW d \in Clients, NEW u \in Users,
           pc'[d] = pc[d], asked'[d] = asked[d], uid'[d] = uid[d],
           \A r : r.to = d => (r \in toClient' <=> r \in toClient),
           \A m : m.from = d => (m \in toServer' <=> m \in toServer)
    PROVE  Holds(d, u)' <=> Holds(d, u)
<1>1. InSession(d, u)' <=> InSession(d, u)
  BY DEF InSession
<1>2. BeingTold(d, u)' <=> BeingTold(d, u)
  BY DEF BeingTold, LoginAccepted
<1>3. LoggingOut(d, u)' <=> LoggingOut(d, u)
  BY DEF LoggingOut
<1> QED BY <1>1, <1>2, <1>3 DEF Holds

LEMMA SessionsKept ==
    ASSUME Sessions, UNCHANGED <<pass, session>>,
           \A d \in Clients, u \in Users :
              /\ Holds(d, u)' <=> Holds(d, u)
              /\ Holds(d, u)' => Key(d)' = Key(d)
    PROVE  Sessions'
<1>1. \A u \in Users : session'[u] => \E d \in Clients : Holds(d, u)'
  BY DEF Sessions
<1>2. \A u \in Users, d \in Clients : Holds(d, u)' => session'[u] /\ pass'[u] = Key(d)'
  BY DEF Sessions
<1>3. \A u \in Users, c, d \in Clients : Holds(c, u)' /\ Holds(d, u)' => c = d
  BY DEF Sessions
<1>4. \A u \in Users : session'[u] => UserRegistered(u)'
  BY DEF Sessions, UserRegistered
<1> QED BY <1>1, <1>2, <1>3, <1>4 DEF Sessions

\* Client c comes to hold user u, who was not logged in.
LEMMA SessionsGained ==
    ASSUME Sessions, NEW c \in Clients, NEW u \in Users,
           session \in [Users -> BOOLEAN], session' = [session EXCEPT ![u] = TRUE],
           ~session[u], UNCHANGED pass, UserRegistered(u), pass[u] = Key(c),
           \A d \in Clients, v \in Users :
              Holds(d, v)' <=> Holds(d, v) \/ (d = c /\ v = u),
           \A d \in Clients : Key(d)' = Key(d)
    PROVE  Sessions'
<1>1. \A d \in Clients : ~Holds(d, u)
  BY DEF Sessions
<1>2. \A v \in Users : session'[v] <=> session[v] \/ v = u
  OBVIOUS
<1>3. \A v \in Users : session'[v] => \E d \in Clients : Holds(d, v)'
  BY <1>2 DEF Sessions
<1>4. \A v \in Users, d \in Clients : Holds(d, v)' => session'[v] /\ pass'[v] = Key(d)'
  BY <1>2 DEF Sessions
<1>5. \A v \in Users, d, e \in Clients : Holds(d, v)' /\ Holds(e, v)' => d = e
  BY <1>1 DEF Sessions
<1>6. \A v \in Users : session'[v] => UserRegistered(v)'
  BY <1>2 DEF Sessions, UserRegistered
<1> QED BY <1>3, <1>4, <1>5, <1>6 DEF Sessions

\* Client c, who held user u, lets go of him.
LEMMA SessionsLost ==
    ASSUME Sessions, NEW c \in Clients, NEW u \in Users, Holds(c, u),
           session \in [Users -> BOOLEAN], session' = [session EXCEPT ![u] = FALSE],
           UNCHANGED pass,
           \A d \in Clients, v \in Users :
              Holds(d, v)' <=> Holds(d, v) /\ ~(d = c /\ v = u),
           \A d \in Clients : Key(d)' = Key(d)
    PROVE  Sessions'
<1>1. \A d \in Clients : Holds(d, u) => d = c
  BY DEF Sessions
<1>2. \A v \in Users : session'[v] <=> session[v] /\ v # u
  OBVIOUS
<1>3. \A v \in Users : session'[v] => \E d \in Clients : Holds(d, v)'
  BY <1>2 DEF Sessions
<1>4. \A v \in Users, d \in Clients : Holds(d, v)' => session'[v] /\ pass'[v] = Key(d)'
  BY <1>1, <1>2 DEF Sessions
<1>5. \A v \in Users, d, e \in Clients : Holds(d, v)' /\ Holds(e, v)' => d = e
  BY DEF Sessions
<1>6. \A v \in Users : session'[v] => UserRegistered(v)'
  BY <1>2 DEF Sessions, UserRegistered
<1> QED BY <1>3, <1>4, <1>5, <1>6 DEF Sessions

\* The password of a user whom nobody holds changes.
LEMMA SessionsElsewhere ==
    ASSUME Sessions, NEW u \in Users, NEW p, ~session[u], UNCHANGED session,
           pass \in [Users -> Passwords \cup {NoPass}], pass' = [pass EXCEPT ![u] = p],
           \A d \in Clients, v \in Users : Holds(d, v)' <=> Holds(d, v),
           \A d \in Clients : Key(d)' = Key(d)
    PROVE  Sessions'
<1>1. \A v \in Users : v # u => pass'[v] = pass[v]
  OBVIOUS
<1>2. \A v \in Users, d \in Clients : Holds(d, v) => v # u
  BY DEF Sessions
<1>3. \A v \in Users : session'[v] => \E d \in Clients : Holds(d, v)'
  BY DEF Sessions
<1>4. \A v \in Users, d \in Clients : Holds(d, v)' => session'[v] /\ pass'[v] = Key(d)'
  BY <1>1, <1>2 DEF Sessions
<1>5. \A v \in Users, d, e \in Clients : Holds(d, v)' /\ Holds(e, v)' => d = e
  BY DEF Sessions
<1>6. \A v \in Users : session'[v] => UserRegistered(v)'
  BY <1>1 DEF Sessions, UserRegistered
<1> QED BY <1>3, <1>4, <1>5, <1>6 DEF Sessions

\* A command is asked for at the prompt: what its client holds, it holds on to.
LEMMA AskSettled ==
    ASSUME IInv, Settled, NEW c \in Clients, NEW op \in UdpOps,
           NEW u \in Users \cup {NoUser}, NEW p \in Passwords \cup {NoPass},
           NEW label \in {"waiting", "leaving"},
           pc[c] = "prompt",
           label = "waiting" => ~stop[c], label = "leaving" => op = "logout",
           op = "login" => ~IsLoggedIn(c),
           op \in {"logout", "unregister", "mine"} => IsLoggedIn(c) /\ u = uid[c],
           Ask(c, op, u, p, label)
    PROVE  Settled'
<1> DEFINE m == [from |-> c, op |-> op, user |-> u, pw |-> p,
                 cmd |-> count + 1, try |-> Tries - 1]
<1> USE DEF Ask, historyVars, sessionVars, accountVars
<1>1. m.from = c /\ m.op = op /\ m.user = u
  OBVIOUS
<1>2. /\ asked' = [asked EXCEPT ![c] = m] /\ asked'[c] = m
      /\ toServer' = toServer \cup {m}
      /\ pc' = [pc EXCEPT ![c] = label] /\ pc'[c] = label
      /\ \A d \in Clients : d # c => pc'[d] = pc[d] /\ asked'[d] = asked[d]
      /\ UNCHANGED <<uid, pwd, stop, toClient, serving, pass, session, udpPc, udpUser, denied>>
  BY DEF IInv, TypeOK
<1>3. asked[c] = NoRequest /\ Silent(c)
  BY DEF Settled, Asking
<1>4. uid[c] \in Users \cup {NoUser} /\ m # NoRequest /\ m \in RequestType
  <2>1. m \in RequestType
    BY TriesAssumption, MaxCommandsAssumption DEF IInv, TypeOK, RequestType
  <2> QED BY <2>1, NoRequestAssumption DEF IInv, TypeOK
<1>5. op \in {"logout", "unregister", "mine"} => u = uid[c] /\ uid[c] \in Users
  BY <1>4 DEF IsLoggedIn
<1> HIDE DEF m, Ask
<1>6. ASSUME NEW d \in Clients, NEW v \in Users
      PROVE  (Holds(d, v)' <=> Holds(d, v)) /\ (Holds(d, v)' => Key(d)' = Key(d))
  <2>1. CASE d # c
    <3>1. Holds(d, v)' <=> Holds(d, v)
      BY <1>1, <1>2, <2>1, HoldsFrame
    <3>2. Key(d)' = Key(d)
      BY <1>2, <2>1 DEF Key
    <3> QED BY <3>1, <3>2
  <2>2. CASE d = c
    <3>1. Holds(c, v) <=> uid[c] = v
      BY <1>3 DEF Holds, InSession, BeingTold, LoggingOut, Silent
    <3>2. InSession(c, v)' <=> uid[c] = v /\ label = "waiting" /\ op \in {"mine", "list"}
      BY <1>1, <1>2 DEF InSession
    <3>3. ~BeingTold(c, v)'
      BY <1>2, <1>3 DEF BeingTold, Silent
    <3>4. LoggingOut(c, v)' <=> op \in {"logout", "unregister"} /\ u = v
      BY <1>1, <1>2, <1>3 DEF LoggingOut, Silent
    <3>5. op = "login" => uid[c] # v
      BY NoUserAssumption DEF IsLoggedIn
    <3>6. Holds(c, v)' <=> uid[c] = v
      BY <1>5, <3>2, <3>3, <3>4, <3>5 DEF Holds, UdpOps
    <3>7. op # "login" => Key(c)' = Key(c)
      BY <1>1, <1>2 DEF Key
    <3> QED BY <2>2, <3>1, <3>5, <3>6, <3>7
  <2> QED BY <2>1, <2>2
<1>7. Sessions'
  BY <1>2, <1>6, SessionsKept DEF Settled
<1>8. OneDatagram'
  BY <1>1, <1>2, <1>3 DEF Settled, OneDatagram, Silent
<1>9. Asking'
  <2> SUFFICES ASSUME NEW d \in Clients
               PROVE  /\ pc'[d] = "prompt" => asked'[d] = NoRequest
                      /\ pc'[d] \in {"prompt", "killed"} /\ asked'[d] = NoRequest => Silent(d)'
                      /\ pc'[d] = "waiting" => ~stop'[d]
                      /\ pc'[d] = "leaving" => asked'[d].op = "logout"
                      /\ Waits(d)' =>
                          /\ asked'[d].op = "login" => uid'[d] = NoUser
                          /\ asked'[d].op \in {"logout", "unregister", "mine"} =>
                              asked'[d].user = uid'[d] /\ uid'[d] \in Users
    BY DEF Asking
  <2>1. CASE d # c
    <3>1. Silent(d) => Silent(d)'
      BY <1>1, <1>2, <2>1 DEF Silent
    <3> QED BY <1>2, <2>1, <3>1 DEF Settled, Asking, Waits
  <2>2. CASE d = c
    BY <1>1, <1>2, <1>5, <2>2 DEF IsLoggedIn
  <2> QED BY <2>1, <2>2
<1>10. Comforted'
  BY <1>2 DEF Settled, Comforted, Waits
<1>11. Senders'
  <2>1. \A n \in toServer : n.from # c /\ n.from \in Clients
    BY <1>3 DEF Silent, IInv, TypeOK, RequestType
  <2>2. \A r \in toClient : r.to # c /\ r.to \in Clients
    BY <1>3 DEF Silent, IInv, TypeOK, ReplyType
  <2>3. \/ pc'[m.from] = "waiting" /\ asked'[m.from] = m
        \/ m.op = "logout" /\ pc'[m.from] = "leaving"
    <3>1. pc'[m.from] = label /\ asked'[m.from] = m
      BY <1>1, <1>2
    <3> QED BY <1>1, <3>1
  <2>4. m.op \in {"logout", "unregister", "mine"} => m.user \in Users
    BY <1>1, <1>5
  <2> QED BY <1>2, <2>1, <2>2, <2>3, <2>4 DEF Settled, Senders
<1>12. BetweenFiles'
  <2>1. serving # NoRequest => serving.from # c /\ serving.from \in Clients
    BY <1>3 DEF Silent, IInv, TypeOK, RequestType
  <2> QED BY <1>2, <2>1 DEF Settled, BetweenFiles
<1> QED BY <1>2, <1>7, <1>8, <1>9, <1>10, <1>11, <1>12 DEF Settled

\* A client at its prompt trades, or is stopped there: everything stays.
LEMMA StayerSettled ==
    ASSUME IInv, Settled,
           UNCHANGED <<pass, session, udpPc, udpUser, uid, pwd, pc, asked, toServer, toClient,
                       serving, denied>>,
           \A d \in Clients : pc[d] = "waiting" => stop'[d] = stop[d]
    PROVE  Settled'
<1>1. \A d \in Clients, v \in Users : (Holds(d, v)' <=> Holds(d, v)) /\ Key(d)' = Key(d)
  BY HoldsFrame DEF Key
<1>2. Sessions'
  BY <1>1, SessionsKept DEF Settled
<1>3. OneDatagram' /\ Comforted' /\ Senders' /\ BetweenFiles'
  BY DEF Settled, OneDatagram, Comforted, Senders, BetweenFiles, Waits
<1>4. \A d \in Clients : Silent(d)' <=> Silent(d)
  BY DEF Silent
<1>5. Asking'
  BY <1>4 DEF Settled, Asking, Waits
<1> QED BY <1>2, <1>3, <1>5 DEF Settled

\* A client is killed at its prompt or in its last wait, or ends: a logout it has
\* sent goes on without it.
LEMMA LeaverSettled ==
    ASSUME IInv, Settled, NEW c \in Clients, NEW label \in {"ended", "killed"},
           UNCHANGED <<pass, session, udpPc, udpUser, uid, pwd, toServer, toClient, serving,
                       stop, denied>>,
           pc' = [pc EXCEPT ![c] = label],
           pc[c] \in {"prompt", "leaving"},
           label = "ended" /\ pc[c] = "prompt" => ~IsLoggedIn(c),
           \/ UNCHANGED asked
           \/ asked' = [asked EXCEPT ![c] = NoRequest] /\ label = "ended"
    PROVE  Settled'
<1>1. /\ pc'[c] = label
      /\ \A d \in Clients : d # c => pc'[d] = pc[d] /\ asked'[d] = asked[d]
      /\ asked'[c] = asked[c] \/ label = "ended"
  BY DEF IInv, TypeOK
<1>2. pc[c] = "leaving" => asked[c] # NoRequest
  BY NoRequestAssumption DEF IInv, Waiting, Waits
<1>3. pc[c] = "prompt" => asked[c] = NoRequest
  BY DEF Settled, Asking
<1>4. ASSUME NEW d \in Clients, NEW v \in Users
      PROVE  (Holds(d, v)' <=> Holds(d, v)) /\ Key(d)' = Key(d)
  <2>1. CASE d # c
    BY <1>1, <2>1, HoldsFrame DEF Key
  <2>2. CASE d = c
    <3>1. InSession(c, v)' <=> InSession(c, v)
      <4>1. CASE label = "killed"
        BY <1>1, <1>2, <1>3, <4>1 DEF InSession
      <4>2. CASE label = "ended"
        <5>1. ~InSession(c, v)'
          BY <1>1, <4>2 DEF InSession
        <5>2. pc[c] = "prompt" => uid[c] # v
          BY <4>2, NoUserAssumption DEF IsLoggedIn
        <5>3. ~InSession(c, v)
          BY <5>2 DEF InSession
        <5> QED BY <5>1, <5>3
      <4> QED BY <4>1, <4>2
    <3>2. ~BeingTold(c, v)' /\ ~BeingTold(c, v)
      BY <1>1 DEF BeingTold
    <3>3. LoggingOut(c, v)' <=> LoggingOut(c, v)
      BY DEF LoggingOut
    <3>4. Key(c)' = Key(c)
      BY <1>1 DEF Key
    <3> QED BY <2>2, <3>1, <3>2, <3>3, <3>4 DEF Holds
  <2> QED BY <2>1, <2>2
<1>5. Sessions'
  BY <1>4, SessionsKept DEF Settled
<1>6. OneDatagram'
  BY DEF Settled, OneDatagram
<1>7. \A d \in Clients : Silent(d)' <=> Silent(d)
  BY DEF Silent
<1>8. Asking'
  <2>1. \A d \in Clients : d # c =>
          /\ pc'[d] = "prompt" => asked'[d] = NoRequest
          /\ pc'[d] \in {"prompt", "killed"} /\ asked'[d] = NoRequest => Silent(d)'
          /\ pc'[d] = "waiting" => ~stop'[d]
          /\ pc'[d] = "leaving" => asked'[d].op = "logout"
          /\ Waits(d)' =>
              /\ asked'[d].op = "login" => uid'[d] = NoUser
              /\ asked'[d].op \in {"logout", "unregister", "mine"} =>
                  asked'[d].user = uid'[d] /\ uid'[d] \in Users
    BY <1>1, <1>7 DEF Settled, Asking, Waits
  <2>2. label = "killed" /\ asked'[c] = NoRequest => Silent(c)'
    BY <1>1, <1>2, <1>7 DEF Settled, Asking
  <2> QED BY <1>1, <2>1, <2>2 DEF Asking, Waits
<1>9. Comforted'
  BY <1>1 DEF Settled, Comforted, Waits
<1>10. Senders'
  <2>1. ASSUME NEW m \in toServer, m.from = c PROVE m.op = "logout" /\ pc'[m.from] = label
    BY <1>1, <2>1 DEF Settled, Senders
  <2>2. \A m \in toServer : m.from \in Clients
    BY DEF IInv, TypeOK, RequestType
  <2>3. \A r \in toClient : r.to \in Clients
    BY DEF IInv, TypeOK, ReplyType
  <2>4. ASSUME NEW m \in toServer
        PROVE  /\ \/ pc'[m.from] = "waiting" /\ asked'[m.from] = m
                  \/ m.op = "logout" /\ pc'[m.from] \in {"leaving", "ended", "killed"}
               /\ m.op \in {"logout", "unregister", "mine"} => m.user \in Users
    <3>1. CASE m.from = c
      BY <2>1, <3>1 DEF Settled, Senders
    <3>2. CASE m.from # c
      BY <1>1, <2>2, <3>2 DEF Settled, Senders
    <3> QED BY <3>1, <3>2
  <2>5. ASSUME NEW r \in toClient
        PROVE  /\ pc'[r.to] = "waiting" => r.op = asked'[r.to].op
               /\ r.op # "login" => r.status = "OK"
    BY <1>1, <2>3 DEF Settled, Senders
  <2> QED BY <2>4, <2>5 DEF Senders
<1>11. BetweenFiles'
  <2>1. serving # NoRequest => serving.from # c /\ serving.from \in Clients
    BY DEF Settled, BetweenFiles, IInv, TypeOK, RequestType
  <2> QED BY <1>1, <2>1 DEF Settled, BetweenFiles
<1> QED BY <1>5, <1>6, <1>8, <1>9, <1>10, <1>11 DEF Settled

\* TradeCommand: the worker that serves an open or a bid finds the session.
LEMMA QuietSettled ==
    ASSUME IInv, Settled, NEW c \in Clients, QuietStep(c), Calm'
    PROVE  Settled'
<1>1. pc[c] \in {"prompt", "waiting", "leaving", "ended", "killed"}
  BY DEF IInv, TypeOK
<1>2. CASE TradeCommand(c)
  <2>1. uid[c] \in Users /\ pc[c] = "prompt" /\ asked[c] = NoRequest
    BY <1>2 DEF TradeCommand, IsLoggedIn, AtPrompt, IInv, TypeOK, Settled, Asking
  <2>2. Holds(c, uid[c])
    BY <2>1 DEF Holds, InSession
  <2>3. UserLoggedIn(uid[c]) /\ pass[uid[c]] = pwd[c]
    BY <2>1, <2>2 DEF Settled, Sessions, Key, UserLoggedIn
  <2> QED BY <1>2, <2>3, StayerSettled
          DEF TradeCommand, accountVars, sessionVars, clientVars, netVars
<1>3. CASE ExitCommand(c)
  BY <1>3, StayerSettled
  DEF ExitCommand, AtPrompt, IInv, TypeOK, accountVars, sessionVars, netVars, historyVars
<1>4. CASE Signal(c)
  <2>1. UNCHANGED <<pass, session, udpPc, udpUser, uid, pwd, asked, toServer, toClient, serving,
                    denied>>
    BY <1>4 DEF Signal, accountVars, sessionVars, netVars
  <2>2. CASE ~stop[c]
    <3>1. UNCHANGED pc /\ stop' = [stop EXCEPT ![c] = TRUE] /\ ~Waits(c)
      BY <1>4, <2>2, Remembered DEF Signal
    <3>2. \A d \in Clients : pc[d] = "waiting" => stop'[d] = stop[d]
      BY <3>1 DEF Waits, IInv, TypeOK
    <3> QED BY <2>1, <3>1, <3>2, StayerSettled
  <2>3. CASE stop[c]
    <3>1. UNCHANGED stop /\ pc' = [pc EXCEPT ![c] = "killed"] /\ pc[c] \notin {"ended", "killed"}
      BY <1>4, <2>3 DEF Signal
    <3>2. pc[c] \in {"prompt", "leaving"}
      BY <1>1, <2>3, <3>1 DEF Settled, Asking
    <3> QED BY <2>1, <3>1, <3>2, LeaverSettled
  <2> QED BY <2>2, <2>3
<1>5. CASE Cancel(c)
  <2>1. pc[c] = "leaving"
    BY <1>5 DEF Cancel, Waits, Settled, Asking
  <2>2. pc' = [pc EXCEPT ![c] = "ended"] /\ asked' = [asked EXCEPT ![c] = NoRequest]
    BY <1>5, <2>1 DEF Cancel, CommandEnds, IInv, TypeOK
  <2> QED BY <1>5, <2>1, <2>2, LeaverSettled
          DEF Cancel, accountVars, sessionVars, netVars, historyVars
<1>6. CASE Leave(c) /\ ~IsLoggedIn(c)
  BY <1>6, LeaverSettled DEF Leave, accountVars, sessionVars, netVars, historyVars
<1> QED BY <1>2, <1>3, <1>4, <1>5, <1>6 DEF QuietStep

\* A reply is taken: a login that was accepted becomes the client's session, and
\* a logout has ended it already.
LEMMA TakeReplySettled ==
    ASSUME IInv, Settled, NEW c \in Clients, NEW r \in toClient, TakeReply(c, r), Calm'
    PROVE  Settled'
<1>1. /\ TypeOK /\ Waits(c) /\ ~stop[c] /\ r.to = c /\ CommandEnds(c)
      /\ toClient' = toClient \ {r}
      /\ UNCHANGED <<pass, session, udpPc, udpUser, stop, toServer, serving>>
  BY Remembered DEF TakeReply, IInv, accountVars
<1>2. /\ \A d \in Clients : d # c => /\ pc'[d] = pc[d] /\ asked'[d] = asked[d]
                                     /\ uid'[d] = uid[d] /\ pwd'[d] = pwd[d]
      /\ asked'[c] = NoRequest
      /\ pc[c] = "waiting" => pc'[c] = "prompt"
      /\ pc[c] = "leaving" => pc'[c] = "ended"
  BY <1>1 DEF TakeReply, CommandEnds, TypeOK
<1>3. asked[c] \in RequestType /\ asked[c] # NoRequest
  BY <1>1, NoRequestAssumption DEF IInv, Waiting
<1>4. /\ Silent(c)'
      /\ \A m \in toServer : m.from # c
      /\ \A s \in toClient : s.to = c => s = r
  BY <1>1 DEF Settled, OneDatagram, Silent
<1>5. \A d \in Clients : d # c => (Silent(d) => Silent(d)')
  BY <1>1 DEF Silent
<1>6. pc[c] = "waiting" => r.op = asked[c].op
  BY <1>1 DEF Settled, Senders
<1>7. r.op # "login" => r.status = "OK"
  BY DEF Settled, Senders
<1>8. UNCHANGED denied
  BY <1>7 DEF TakeReply, NotLoggedIn
<1>9. /\ asked[c].op = "login" => uid[c] = NoUser
      /\ asked[c].op \in UdpOps
      /\ pc[c] = "leaving" => asked[c].op = "logout"
  BY <1>1, <1>3 DEF Settled, Asking, RequestType
<1>10. ASSUME NEW v \in Users
       PROVE  (Holds(c, v)' <=> Holds(c, v)) /\ (Holds(c, v)' => Key(c)' = Key(c))
  <2>1. ~LoggingOut(c, v) /\ ~LoggingOut(c, v)' /\ ~BeingTold(c, v)'
    BY <1>1, <1>2, <1>4 DEF LoggingOut, BeingTold
  <2>2. CASE pc[c] = "leaving"
    BY <1>2, <2>1, <2>2 DEF Holds, InSession, BeingTold
  <2>3. CASE pc[c] = "waiting" /\ asked[c].op = "login" /\ LoginAccepted(r)
    <3>1. uid'[c] = asked[c].user /\ pwd'[c] = asked[c].pw
      BY <1>1, <1>6, <2>3 DEF TakeReply, TypeOK
    <3>2. Holds(c, v) <=> asked[c].user = v
      BY <1>1, <2>1, <2>3 DEF Holds, InSession, BeingTold
    <3>3. Holds(c, v)' <=> asked[c].user = v
      BY <1>2, <2>1, <2>3, <3>1 DEF Holds, InSession
    <3>4. Key(c) = asked[c].pw /\ Key(c)' = asked[c].pw
      BY <1>2, <2>3, <3>1 DEF Key
    <3> QED BY <3>2, <3>3, <3>4
  <2>4. CASE pc[c] = "waiting" /\ asked[c].op = "login" /\ ~LoginAccepted(r)
    <3>1. uid'[c] = NoUser
      BY <1>1, <1>6, <1>9, <2>4 DEF TakeReply, TypeOK, LogoutAccepted
    <3>2. ~Holds(c, v)
      BY <1>4, <2>1, <2>4 DEF Holds, InSession, BeingTold
    <3>3. ~Holds(c, v)'
      BY <1>2, <2>1, <2>4, <3>1, NoUserAssumption DEF Holds, InSession
    <3> QED BY <3>2, <3>3
  <2>5. CASE pc[c] = "waiting" /\ asked[c].op \in {"logout", "unregister"}
    <3>1. uid'[c] = NoUser
      BY <1>1, <1>6, <1>7, <2>5 DEF TakeReply, TypeOK, LogoutAccepted, LoginAccepted
    <3>2. ~Holds(c, v)
      BY <2>1, <2>5 DEF Holds, InSession, BeingTold
    <3>3. ~Holds(c, v)'
      BY <1>2, <2>1, <2>5, <3>1, NoUserAssumption DEF Holds, InSession
    <3> QED BY <3>2, <3>3
  <2>6. CASE pc[c] = "waiting" /\ asked[c].op \in {"mine", "list"}
    <3>1. uid'[c] = uid[c] /\ pwd'[c] = pwd[c]
      BY <1>1, <1>6, <2>6 DEF TakeReply, TypeOK, LogoutAccepted, LoginAccepted
    <3>2. Holds(c, v) <=> uid[c] = v
      BY <2>1, <2>6 DEF Holds, InSession, BeingTold
    <3>3. Holds(c, v)' <=> uid[c] = v
      BY <1>2, <2>1, <2>6, <3>1 DEF Holds, InSession
    <3>4. Key(c)' = Key(c)
      BY <1>2, <2>6, <3>1 DEF Key
    <3> QED BY <3>2, <3>3, <3>4
  <2> QED BY <1>1, <1>9, <2>2, <2>3, <2>4, <2>5, <2>6 DEF Waits, UdpOps
<1>11. ASSUME NEW d \in Clients, NEW v \in Users, d # c
       PROVE  (Holds(d, v)' <=> Holds(d, v)) /\ Key(d)' = Key(d)
  BY <1>1, <1>2, <1>11, HoldsFrame DEF Key
<1>12. Sessions'
  BY <1>1, <1>10, <1>11, SessionsKept DEF Settled
<1>13. OneDatagram'
  BY <1>1 DEF Settled, OneDatagram
<1>14. pc'[c] # "waiting" /\ pc'[c] # "leaving" /\ pc'[c] # "killed"
  BY <1>1, <1>2 DEF Waits
<1>15. Asking'
  <2>1. \A d \in Clients : d # c =>
          /\ pc'[d] = "prompt" => asked'[d] = NoRequest
          /\ pc'[d] \in {"prompt", "killed"} /\ asked'[d] = NoRequest => Silent(d)'
          /\ pc'[d] = "waiting" => ~stop'[d]
          /\ pc'[d] = "leaving" => asked'[d].op = "logout"
          /\ Waits(d)' =>
              /\ asked'[d].op = "login" => uid'[d] = NoUser
              /\ asked'[d].op \in {"logout", "unregister", "mine"} =>
                  asked'[d].user = uid'[d] /\ uid'[d] \in Users
    BY <1>1, <1>2, <1>5 DEF Settled, Asking, Waits
  <2> QED BY <1>2, <1>4, <1>14, <2>1 DEF Asking, Waits
<1>16. Comforted'
  BY <1>1, <1>2, <1>14 DEF Settled, Comforted, Waits
<1>17. Senders'
  <2>1. \A m \in toServer : m.from \in Clients
    BY <1>1 DEF TypeOK, RequestType
  <2>2. \A s \in toClient' : s.to \in Clients /\ s.to # c
    BY <1>1, <1>4 DEF TypeOK, ReplyType
  <2> QED BY <1>1, <1>2, <1>4, <2>1, <2>2 DEF Settled, Senders
<1>18. BetweenFiles'
  <2>1. serving # NoRequest => serving.from # c /\ serving.from \in Clients
    BY <1>1 DEF Settled, OneDatagram, TypeOK, RequestType
  <2> QED BY <1>1, <1>2, <2>1 DEF Settled, BetweenFiles
<1> QED BY <1>8, <1>12, <1>13, <1>15, <1>16, <1>17, <1>18 DEF Settled

\* While nothing goes wrong no wait is too short.
LEMMA NoTimeout ==
    ASSUME IInv, Settled, NEW c \in Clients, TimesOut(c)
    PROVE  ~Calm'
<1>1. Waits(c) /\ asked[c] \in RequestType
  BY DEF TimesOut, IInv, Waiting
<1>2. Comes(c)
  BY <1>1, NoRequestAssumption DEF Settled, Comforted, Comes
<1> QED BY <1>2, Remembered DEF TimesOut

\* The requests that end a session.
Ending(m) == m.op \in {"logout", "unregister"}

\* Request m is answered at once, or after its second file (serving = m).
Answered(m, status) ==
    /\ \/ m \in toServer /\ serving = NoRequest /\ toServer' = toServer \ {m}
       \/ serving = m /\ m # NoRequest /\ toServer' = toServer
    /\ serving' = NoRequest
    /\ Reply(m, status)
    /\ m.op # "login" => status = "OK"
    /\ UNCHANGED <<uid, pwd, pc, stop, asked, denied>>

\* The client that is being served: where it is, and that nothing else of it is
\* under way.
LEMMA TheAsker ==
    ASSUME IInv, Settled, NEW m, m # NoRequest,
           \/ m \in toServer /\ serving = NoRequest
           \/ serving = m
    PROVE  /\ m \in RequestType /\ m.from \in Clients
           /\ \A r \in toClient : r.to # m.from
           /\ \A n \in toServer : n.from = m.from => n = m
           /\ \/ pc[m.from] = "waiting" /\ asked[m.from] = m
              \/ m.op = "logout" /\ pc[m.from] \in {"leaving", "ended", "killed"}
           /\ asked[m.from] = NoRequest => pc[m.from] # "killed"
           /\ Waits(m.from) => asked[m.from] = m
           /\ m.op \in {"logout", "unregister", "mine"} => m.user \in Users
<1>1. m \in RequestType /\ m.from \in Clients
  BY DEF IInv, TypeOK, RequestType
<1>2. \A r \in toClient : r.to # m.from
  BY DEF Settled, OneDatagram
<1>3. \A n \in toServer : n.from = m.from => n = m
  BY DEF Settled, OneDatagram
<1>4. \/ pc[m.from] = "waiting" /\ asked[m.from] = m
      \/ m.op = "logout" /\ pc[m.from] \in {"leaving", "ended", "killed"}
  BY DEF Settled, Senders, BetweenFiles
<1>5. asked[m.from] = NoRequest => pc[m.from] # "killed"
  BY <1>1, <1>4 DEF Settled, Asking, Silent
<1>6. Waits(m.from) => asked[m.from] = m
  <2>1. CASE pc[m.from] = "leaving"
    <3>1. asked[m.from] \in RequestType /\ asked[m.from] # NoRequest /\ asked[m.from].from = m.from
      BY <1>1, <2>1, NoRequestAssumption DEF IInv, Waiting, Waits
    <3>2. asked[m.from] \in toServer \/ serving = asked[m.from]
      BY <1>1, <1>2, <2>1 DEF Settled, Comforted, Waits
    <3> QED BY <1>3, <3>1, <3>2 DEF Settled, OneDatagram
  <2> QED BY <1>4, <2>1 DEF Waits
<1>7. m.op \in {"logout", "unregister", "mine"} => m.user \in Users
  <2>1. CASE m \in toServer
    BY <2>1 DEF Settled, Senders
  <2>2. CASE serving = m
    BY <2>2 DEF Settled, BetweenFiles
  <2> QED BY <2>1, <2>2
<1> QED BY <1>1, <1>2, <1>3, <1>4, <1>5, <1>6, <1>7

\* An answer takes the place of its request.
LEMMA AnswerKeepsOrder ==
    ASSUME IInv, Settled, NEW m, NEW status, m # NoRequest, Answered(m, status)
    PROVE  OneDatagram' /\ Asking' /\ Comforted' /\ Senders'
<1> DEFINE r == [to |-> m.from, op |-> m.op, cmd |-> m.cmd, try |-> m.try, status |-> status]
<1>1. r.to = m.from /\ r.op = m.op /\ r.cmd = m.cmd /\ r.status = status
  OBVIOUS
<1>2. /\ toClient' = toClient \cup {r} /\ serving' = NoRequest
      /\ toServer' \subseteq toServer
      /\ \A n \in toServer : n # m => n \in toServer'
      /\ UNCHANGED <<uid, pwd, pc, stop, asked>>
      /\ m.op # "login" => status = "OK"
  BY DEF Answered, Reply
<1> HIDE DEF r
<1>3. \/ m \in toServer /\ serving = NoRequest
      \/ serving = m
  BY DEF Answered
<1>4. /\ m \in RequestType /\ m.from \in Clients
      /\ \A s \in toClient : s.to # m.from
      /\ \A n \in toServer : n.from = m.from => n = m
      /\ \/ pc[m.from] = "waiting" /\ asked[m.from] = m
         \/ m.op = "logout" /\ pc[m.from] \in {"leaving", "ended", "killed"}
      /\ asked[m.from] = NoRequest => pc[m.from] # "killed"
      /\ Waits(m.from) => asked[m.from] = m
  BY <1>3, TheAsker
<1>5. \A n \in toServer' : n.from # m.from
  BY <1>3, <1>4 DEF Answered, Settled, OneDatagram
<1>6. OneDatagram'
  BY <1>1, <1>2, <1>4, <1>5 DEF Settled, OneDatagram
<1>7. Asking'
  <2>1. ASSUME NEW d \in Clients, d # m.from, Silent(d) PROVE Silent(d)'
    BY <1>1, <1>2, <2>1 DEF Silent
  <2>2. ~(pc[m.from] \in {"prompt", "killed"} /\ asked[m.from] = NoRequest)
    BY <1>4
  <2> QED BY <1>2, <2>1, <2>2 DEF Settled, Asking, Waits
<1>8. Comforted'
  <2> SUFFICES ASSUME NEW d \in Clients, Waits(d)
               PROVE  \/ asked[d] \in toServer'
                      \/ \E s \in toClient' : s.to = d /\ s.cmd = asked[d].cmd
    BY <1>2 DEF Comforted, Waits
  <2>1. CASE d = m.from
    BY <1>1, <1>2, <1>4, <2>1
  <2>2. CASE d # m.from
    <3>1. asked[d].from = d /\ asked[d] \in RequestType
      BY DEF IInv, Waiting
    <3>2. asked[d] # m
      BY <2>2, <3>1
    <3>3. asked[d] # serving
      BY <1>3, <3>1, <3>2, NoRequestAssumption
    <3> QED BY <1>2, <3>2, <3>3 DEF Settled, Comforted
  <2> QED BY <2>1, <2>2
<1>9. Senders'
  <2>1. r.op # "login" => r.status = "OK"
    BY <1>1, <1>2
  <2>2. pc[r.to] = "waiting" => r.op = asked[r.to].op
    BY <1>1, <1>4 DEF Waits
  <2> QED BY <1>2, <2>1, <2>2 DEF Settled, Senders
<1> QED BY <1>6, <1>7, <1>8, <1>9

\* What the clients hold after an answer.
LEMMA AnswerHolds ==
    ASSUME IInv, Settled, NEW m, NEW status, m # NoRequest, Answered(m, status)
    PROVE  /\ \A d \in Clients : Key(d)' = Key(d)
           /\ \A d \in Clients, v \in Users : d # m.from => (Holds(d, v)' <=> Holds(d, v))
           /\ m.op \in {"mine", "list"} =>
                \A v \in Users : Holds(m.from, v)' <=> Holds(m.from, v)
           /\ Ending(m) => \A v \in Users : ~Holds(m.from, v)'
           /\ m.op = "login" => \A v \in Users :
                /\ ~Holds(m.from, v)
                /\ Holds(m.from, v)' <=> m.user = v /\ status \in {"OK", "REG"}
<1> DEFINE r == [to |-> m.from, op |-> m.op, cmd |-> m.cmd, try |-> m.try, status |-> status]
<1> DEFINE c == m.from
<1>1. r.to = c /\ r.op = m.op /\ r.status = status
  OBVIOUS
<1>2. /\ toClient' = toClient \cup {r}
      /\ \A n : n.from # c => (n \in toServer' <=> n \in toServer)
      /\ UNCHANGED <<uid, pwd, pc, asked>>
  BY DEF Answered, Reply
<1>3. \/ m \in toServer /\ serving = NoRequest
      \/ serving = m
  BY DEF Answered
<1>4. /\ m \in RequestType /\ c \in Clients
      /\ \A s \in toClient : s.to # c
      /\ \A n \in toServer : n.from = c => n = m
      /\ \/ pc[c] = "waiting" /\ asked[c] = m
         \/ m.op = "logout" /\ pc[c] \in {"leaving", "ended", "killed"}
      /\ asked[c] = NoRequest => pc[c] # "killed"
  BY <1>3, TheAsker
<1>5. \A n \in toServer' : n.from # c
  BY <1>3, <1>4 DEF Answered, Settled, OneDatagram
<1> HIDE DEF r
<1>6. \A d \in Clients : Key(d)' = Key(d)
  BY <1>2 DEF Key
<1>7. ASSUME NEW d \in Clients, NEW v \in Users, d # c PROVE Holds(d, v)' <=> Holds(d, v)
  BY <1>1, <1>2, <1>7, HoldsFrame
<1>8. ASSUME NEW v \in Users
      PROVE  /\ InSession(c, v)' <=> InSession(c, v)
             /\ InSession(c, v) => pc[c] = "waiting" /\ m.op \in {"mine", "list"}
             /\ ~LoggingOut(c, v)'
             /\ LoggingOut(c, v) => Ending(m)
             /\ ~BeingTold(c, v)
             /\ BeingTold(c, v)' <=> m.op = "login" /\ m.user = v /\ status \in {"OK", "REG"}
  <2>1. InSession(c, v)' <=> InSession(c, v)
    BY <1>2 DEF InSession
  <2>2. InSession(c, v) => pc[c] = "waiting" /\ m.op \in {"mine", "list"}
    BY <1>4 DEF InSession
  <2>3. ~LoggingOut(c, v)' /\ (LoggingOut(c, v) => Ending(m))
    BY <1>4, <1>5 DEF LoggingOut, Ending
  <2>4. ~BeingTold(c, v)
    BY <1>4 DEF BeingTold
  <2>5. BeingTold(c, v)' => m.op = "login" /\ m.user = v /\ status \in {"OK", "REG"}
    BY <1>1, <1>2, <1>4 DEF BeingTold, LoginAccepted
  <2>6. ASSUME m.op = "login", m.user = v, status \in {"OK", "REG"} PROVE BeingTold(c, v)'
    <3>1. pc[c] = "waiting" /\ asked[c] = m
      BY <1>4, <2>6
    <3> QED BY <1>1, <1>2, <2>6, <3>1 DEF BeingTold, LoginAccepted
  <2> QED BY <2>1, <2>2, <2>3, <2>4, <2>5, <2>6
<1>9. m.op \in {"mine", "list"} => \A v \in Users : Holds(c, v)' <=> Holds(c, v)
  BY <1>8 DEF Holds, Ending
<1>10. Ending(m) => \A v \in Users : ~Holds(c, v)'
  BY <1>8 DEF Holds, Ending
<1>11. m.op = "login" => \A v \in Users :
          /\ ~Holds(c, v)
          /\ Holds(c, v)' <=> m.user = v /\ status \in {"OK", "REG"}
  BY <1>8 DEF Holds, Ending
<1> QED BY <1>6, <1>7, <1>9, <1>10, <1>11

\* Request m is taken, and goes on to its second file.
Kept(m) ==
    /\ m \in toServer /\ serving = NoRequest
    /\ toServer' = toServer \ {m}
    /\ serving' = m
    /\ UNCHANGED <<toClient, uid, pwd, pc, stop, asked, denied>>

LEMMA KeptKeepsOrder ==
    ASSUME IInv, Settled, NEW m, m # NoRequest, m.op # "logout", Kept(m)
    PROVE  /\ OneDatagram' /\ Asking' /\ Comforted' /\ Senders'
           /\ pc[m.from] = "waiting" /\ asked[m.from] = m
           /\ \A d \in Clients : Key(d)' = Key(d)
           /\ \A d \in Clients, v \in Users :
                 Holds(d, v)' <=> Holds(d, v) /\ ~(d = m.from /\ Ending(m) /\ v = m.user)
<1> USE DEF Kept
<1>1. /\ m \in RequestType /\ m.from \in Clients
      /\ \A s \in toClient : s.to # m.from
      /\ \A n \in toServer : n.from = m.from => n = m
      /\ pc[m.from] = "waiting" /\ asked[m.from] = m
  BY TheAsker
<1>2. OneDatagram'
  BY <1>1 DEF Settled, OneDatagram
<1>3. \A d \in Clients : d # m.from => (Silent(d) => Silent(d)')
  BY DEF Silent
<1>4. Asking'
  BY <1>1, <1>3 DEF Settled, Asking, Waits
<1>5. Comforted'
  BY NoRequestAssumption DEF Settled, Comforted, Waits, IInv, Waiting
<1>6. Senders'
  BY DEF Settled, Senders
<1>7. \A d \in Clients : Key(d)' = Key(d)
  BY DEF Key
<1>8. ASSUME NEW d \in Clients, NEW v \in Users
      PROVE  Holds(d, v)' <=> Holds(d, v) /\ ~(d = m.from /\ Ending(m) /\ v = m.user)
  <2>1. CASE d # m.from
    BY <2>1, HoldsFrame
  <2>2. CASE d = m.from
    <3>1. InSession(d, v)' <=> InSession(d, v)
      BY DEF InSession
    <3>2. InSession(d, v) => ~Ending(m)
      BY <1>1, <2>2 DEF InSession, Ending
    <3>3. ~BeingTold(d, v)' /\ ~BeingTold(d, v)
      BY <1>1, <2>2 DEF BeingTold
    <3>4. ~LoggingOut(d, v)' /\ (LoggingOut(d, v) <=> Ending(m) /\ v = m.user)
      BY <1>1, <2>2 DEF LoggingOut, Ending
    <3> QED BY <2>2, <3>1, <3>2, <3>3, <3>4 DEF Holds
  <2> QED BY <2>1, <2>2
<1> QED BY <1>1, <1>2, <1>4, <1>5, <1>6, <1>7, <1>8

\* Taking a request from the socket, while the network repeats none.
LEMMA TakenOnce ==
    ASSUME IInv, Settled, NEW m \in toServer, TakeRequest(m), Calm'
    PROVE  /\ toServer' = toServer \ {m} /\ serving = NoRequest /\ m # NoRequest
           /\ udpPc = "idle" /\ m \in RequestType
           /\ UNCHANGED <<uid, pwd, pc, stop, asked, denied>>
<1>1. toServer' = toServer \ {m} /\ serving = NoRequest
      /\ UNCHANGED <<uid, pwd, pc, stop, asked, denied>>
  BY DEF TakeRequest, Take, Happen, Calm, sessionVars, clientVars
<1>2. m \in RequestType /\ m # NoRequest
  BY NoRequestAssumption DEF IInv, TypeOK
<1> QED BY <1>1, <1>2 DEF Settled, BetweenFiles

\* An answer that touches no account and grants no login.
LEMMA MereAnswerSettled ==
    ASSUME IInv, Settled, NEW m \in toServer, NEW status, TakeRequest(m), Calm',
           ReplyOnly(m, status), ~Ending(m), m.op # "login" => status = "OK",
           m.op = "login" => status \notin {"OK", "REG"}
    PROVE  Settled'
<1>1. Answered(m, status) /\ m # NoRequest /\ udpPc = "idle" /\ m \in RequestType
  BY TakenOnce DEF Answered, ReplyOnly
<1>2. UNCHANGED <<pass, session, udpPc, udpUser, denied>> /\ serving' = NoRequest
  BY <1>1 DEF ReplyOnly, accountVars, Answered
<1>3. OneDatagram' /\ Asking' /\ Comforted' /\ Senders'
  BY <1>1, AnswerKeepsOrder
<1>4. m.op \in {"login", "mine", "list"}
  BY <1>1 DEF RequestType, UdpOps, Ending
<1>5. \A d \in Clients, v \in Users : (Holds(d, v)' <=> Holds(d, v)) /\ Key(d)' = Key(d)
  BY <1>1, <1>4, AnswerHolds
<1>6. Sessions'
  BY <1>2, <1>5, SessionsKept DEF Settled
<1>7. BetweenFiles'
  BY <1>1, <1>2 DEF BetweenFiles
<1> QED BY <1>2, <1>3, <1>6, <1>7 DEF Settled

LEMMA LoginSettled ==
    ASSUME IInv, Settled, NEW m \in toServer, ServeLogin(m), Calm'
    PROVE  Settled'
<1>1. TakeRequest(m) /\ m.op = "login" /\ m.user \in Users
  BY DEF ServeLogin, IInv, RequestsNamed, Named
<1>2. /\ toServer' = toServer \ {m} /\ serving = NoRequest /\ m # NoRequest
      /\ udpPc = "idle" /\ m \in RequestType
      /\ UNCHANGED <<uid, pwd, pc, stop, asked, denied>>
  BY <1>1, TakenOnce
<1>3. /\ m.from \in Clients /\ pc[m.from] = "waiting" /\ asked[m.from] = m
  BY <1>1, <1>2, TheAsker
<1>4. /\ session \in [Users -> BOOLEAN] /\ pass \in [Users -> Passwords \cup {NoPass}]
      /\ Key(m.from) = m.pw
  BY <1>1, <1>3 DEF IInv, TypeOK, AccountsTypeOK, Key
<1>5. CASE LogIn(m.user, m.pw) /\ Reply(m, "OK") /\ UNCHANGED serving
  <2>1. /\ UserRegistered(m.user) /\ ~session[m.user] /\ pass[m.user] = m.pw
        /\ session' = [session EXCEPT ![m.user] = TRUE]
        /\ UNCHANGED <<pass, udpPc, udpUser>>
    BY <1>5 DEF LogIn, SetSession, UserLoggedIn
  <2>2. Answered(m, "OK")
    BY <1>1, <1>2, <1>5 DEF Answered
  <2>3. OneDatagram' /\ Asking' /\ Comforted' /\ Senders'
    BY <1>2, <2>2, AnswerKeepsOrder
  <2>4. /\ \A d \in Clients, v \in Users :
              Holds(d, v)' <=> Holds(d, v) \/ (d = m.from /\ v = m.user)
        /\ \A d \in Clients : Key(d)' = Key(d)
    BY <1>1, <1>2, <2>2, AnswerHolds
  <2>5. Sessions'
    BY <1>1, <1>3, <1>4, <2>1, <2>4, SessionsGained DEF Settled
  <2>6. BetweenFiles'
    BY <1>2, <1>5, <2>1 DEF BetweenFiles
  <2> QED BY <1>2, <2>3, <2>5, <2>6 DEF Settled
<1>6. CASE Register(m.user, m.pw) /\ KeepServing(m)
  <2>1. /\ pass[m.user] = NoPass
        /\ pass' = [pass EXCEPT ![m.user] = m.pw]
        /\ UNCHANGED session /\ udpPc' = "sign" /\ udpUser' = m.user
    BY <1>6 DEF Register, SetPass, GoOnWith, UserRegistered
  <2>2. Kept(m)
    BY <1>1, <1>2, <1>6 DEF Kept, KeepServing
  <2>3. OneDatagram' /\ Asking' /\ Comforted' /\ Senders'
    BY <1>1, <1>2, <2>2, KeptKeepsOrder
  <2>4. /\ \A d \in Clients, v \in Users : Holds(d, v)' <=> Holds(d, v)
        /\ \A d \in Clients : Key(d)' = Key(d)
    BY <1>1, <1>2, <2>2, KeptKeepsOrder DEF Ending
  <2>5. ~session[m.user]
    BY <1>1, <2>1 DEF Settled, Sessions, UserRegistered
  <2>6. Sessions'
    BY <1>1, <1>4, <2>1, <2>4, <2>5, SessionsElsewhere DEF Settled
  <2>7. pass'[m.user] = m.pw
    BY <1>1, <1>4, <2>1
  <2>8. BetweenFiles'
    BY <1>1, <1>2, <1>3, <2>1, <2>2, <2>5, <2>7 DEF BetweenFiles, Kept
  <2> QED BY <1>2, <2>3, <2>6, <2>8 DEF Settled
<1>7. CASE ReplyOnly(m, "ERR") \/ ReplyOnly(m, "NOK")
  BY <1>1, <1>7, MereAnswerSettled DEF Ending
<1> QED BY <1>5, <1>6, <1>7 DEF ServeLogin

\* A logout is served while its user is logged in.
LEMMA LogoutSettled ==
    ASSUME IInv, Settled, NEW m \in toServer, ServeLogout(m), Calm'
    PROVE  Settled'
<1>1. TakeRequest(m) /\ m.op = "logout"
  BY DEF ServeLogout
<1>2. /\ toServer' = toServer \ {m} /\ serving = NoRequest /\ m # NoRequest
      /\ udpPc = "idle" /\ m \in RequestType
      /\ UNCHANGED <<uid, pwd, pc, stop, asked, denied>>
  BY <1>1, TakenOnce
<1>3. m.from \in Clients /\ m.user \in Users
  BY <1>1, <1>2, TheAsker
<1>4. Holds(m.from, m.user)
  BY <1>1 DEF Holds, LoggingOut
<1>5. session[m.user] /\ UserRegistered(m.user) /\ session \in [Users -> BOOLEAN]
  BY <1>3, <1>4 DEF Settled, Sessions, IInv, TypeOK, AccountsTypeOK
<1>6. LogOut(m.user) /\ Reply(m, "OK") /\ UNCHANGED serving
  BY <1>5 DEF ServeLogout, UserLoggedIn
<1>7. /\ session' = [session EXCEPT ![m.user] = FALSE]
      /\ UNCHANGED pass /\ UNCHANGED <<udpPc, udpUser>>
  BY <1>6 DEF LogOut, SetSession
<1>8. Answered(m, "OK")
  BY <1>1, <1>2, <1>6 DEF Answered
<1>9. OneDatagram' /\ Asking' /\ Comforted' /\ Senders'
  BY <1>2, <1>8, AnswerKeepsOrder
<1>10. /\ \A d \in Clients, v \in Users : d # m.from => (Holds(d, v)' <=> Holds(d, v))
       /\ \A v \in Users : ~Holds(m.from, v)'
       /\ \A d \in Clients : Key(d)' = Key(d)
  BY <1>1, <1>2, <1>8, AnswerHolds DEF Ending
<1>11. ASSUME NEW v \in Users, Holds(m.from, v) PROVE v = m.user
  <2>1. /\ \A s \in toClient : s.to # m.from
        /\ \A n \in toServer : n.from = m.from => n = m
        /\ \/ pc[m.from] = "waiting" /\ asked[m.from] = m
           \/ pc[m.from] \in {"leaving", "ended", "killed"}
        /\ asked[m.from] = NoRequest => pc[m.from] # "killed"
    BY <1>1, <1>2, TheAsker
  <2>2. ~InSession(m.from, v) /\ ~BeingTold(m.from, v)
    BY <1>1, <2>1 DEF InSession, BeingTold
  <2> QED BY <1>11, <2>1, <2>2 DEF Holds, LoggingOut
<1>12. \A d \in Clients, v \in Users :
          Holds(d, v)' <=> Holds(d, v) /\ ~(d = m.from /\ v = m.user)
  BY <1>10, <1>11
<1>13. Sessions'
  <2>1. Sessions /\ \A d \in Clients : Key(d)' = Key(d)
    BY <1>10 DEF Settled
  <2> QED BY <1>3, <1>4, <1>5, <1>7, <1>12, <2>1, SessionsLost
<1>14. BetweenFiles'
  BY <1>2, <1>6, <1>7 DEF BetweenFiles
<1> QED BY <1>2, <1>9, <1>13, <1>14 DEF Settled

LEMMA UnregisterSettled ==
    ASSUME IInv, Settled, NEW m \in toServer, ServeUnregister(m), Calm'
    PROVE  Settled'
<1>1. TakeRequest(m) /\ m.op = "unregister"
  BY DEF ServeUnregister
<1>2. /\ toServer' = toServer \ {m} /\ serving = NoRequest /\ m # NoRequest
      /\ udpPc = "idle" /\ m \in RequestType
      /\ UNCHANGED <<uid, pwd, pc, stop, asked, denied>>
  BY <1>1, TakenOnce
<1>3. m.from \in Clients /\ m.user \in Users
  BY <1>1, <1>2, TheAsker
<1>4. Holds(m.from, m.user)
  BY <1>1 DEF Holds, LoggingOut
<1>5. session[m.user] /\ UserRegistered(m.user) /\ session \in [Users -> BOOLEAN]
  BY <1>3, <1>4 DEF Settled, Sessions, IInv, TypeOK, AccountsTypeOK
<1>6. Unregister(m.user) /\ KeepServing(m)
  BY <1>5 DEF ServeUnregister
<1>7. /\ session' = [session EXCEPT ![m.user] = FALSE]
      /\ UNCHANGED pass /\ udpPc' = "erase" /\ udpUser' = m.user
  BY <1>6 DEF Unregister, SetSession, GoOnWith
<1>8. Kept(m)
  BY <1>1, <1>2, <1>6 DEF Kept, KeepServing
<1>9. /\ OneDatagram' /\ Asking' /\ Comforted' /\ Senders'
      /\ pc[m.from] = "waiting" /\ asked[m.from] = m
      /\ \A d \in Clients : Key(d)' = Key(d)
      /\ \A d \in Clients, v \in Users :
            Holds(d, v)' <=> Holds(d, v) /\ ~(d = m.from /\ v = m.user)
  BY <1>1, <1>2, <1>8, KeptKeepsOrder DEF Ending
<1>10. Sessions'
  BY <1>3, <1>4, <1>5, <1>7, <1>9, SessionsLost DEF Settled
<1>11. ~session'[m.user]
  BY <1>3, <1>5, <1>7
<1>12. BetweenFiles'
  BY <1>1, <1>2, <1>3, <1>7, <1>8, <1>9, <1>11 DEF BetweenFiles, Kept
<1> QED BY <1>2, <1>9, <1>10, <1>12 DEF Settled

\* myauctions and mybids find their user logged in.
LEMMA ListingSettled ==
    ASSUME IInv, Settled, NEW m \in toServer, ServeListing(m), Calm'
    PROVE  Settled'
<1>1. TakeRequest(m) /\ m.op \in {"mine", "list"}
  BY DEF ServeListing
<1>2. serving = NoRequest /\ m # NoRequest
  BY <1>1, TakenOnce
<1>3. m.op = "mine" => session[m.user]
  <2> SUFFICES ASSUME m.op = "mine" PROVE session[m.user]
    OBVIOUS
  <2>1. /\ m.from \in Clients /\ m.user \in Users
        /\ pc[m.from] = "waiting" /\ asked[m.from] = m
    BY <1>2, TheAsker
  <2>2. uid[m.from] = m.user
    BY <2>1 DEF Settled, Asking, Waits
  <2>3. Holds(m.from, m.user)
    BY <2>1, <2>2 DEF Holds, InSession
  <2> QED BY <2>1, <2>3 DEF Settled, Sessions
<1>4. ReplyOnly(m, "OK")
  BY <1>3 DEF ServeListing, UserLoggedIn
<1> QED BY <1>1, <1>4, MereAnswerSettled DEF Ending

\* The second file of a registration or of an unregistration.
LEMMA FinishSettled ==
    ASSUME IInv, Settled, FinishServing, Calm'
    PROVE  Settled'
<1>0. PICK m, c, u : m = serving /\ c = m.from /\ u = m.user
  OBVIOUS
<1>1. /\ m \in RequestType /\ c \in Clients
      /\ pc[c] = "waiting" /\ asked[c] = m
      /\ udpUser = u /\ u \in Users /\ ~session[u]
      /\ udpPc = "sign" => m.op = "login" /\ pass[u] = m.pw
      /\ udpPc = "erase" => m.op = "unregister"
  BY <1>0 DEF FinishServing, IInv, TypeOK, RequestType, Settled, BetweenFiles
<1>2. /\ session \in [Users -> BOOLEAN] /\ pass \in [Users -> Passwords \cup {NoPass}]
      /\ m # NoRequest /\ serving' = NoRequest
      /\ UNCHANGED <<uid, pwd, pc, stop, asked, toServer, denied>>
  BY <1>0 DEF IInv, TypeOK, AccountsTypeOK, FinishServing, sessionVars, clientVars
<1>3. CASE SignUp /\ Reply(m, "REG")
  <2>1. /\ m.op = "login" /\ pass[u] = m.pw
        /\ session' = [session EXCEPT ![u] = TRUE]
        /\ UNCHANGED pass /\ udpPc' = "idle"
    BY <1>1, <1>3 DEF SignUp, SetSession, Over, GoOnWith
  <2>2. Answered(m, "REG")
    BY <1>0, <1>2, <1>3, <2>1 DEF Answered
  <2>3. OneDatagram' /\ Asking' /\ Comforted' /\ Senders'
    BY <1>2, <2>2, AnswerKeepsOrder
  <2>4. /\ \A d \in Clients, v \in Users : Holds(d, v)' <=> Holds(d, v) \/ (d = c /\ v = u)
        /\ \A d \in Clients : Key(d)' = Key(d)
    BY <1>0, <1>2, <2>1, <2>2, AnswerHolds
  <2>5. UserRegistered(u) /\ Key(c) = m.pw
    <3>1. m.pw \in Passwords
      BY <1>0, <1>2, <2>1 DEF IInv, RequestsNamed, Named
    <3>2. pass[u] # NoPass
      BY <2>1, <3>1, PassAssumption
    <3>3. Key(c) = m.pw
      BY <1>1, <2>1 DEF Key
    <3> QED BY <3>2, <3>3 DEF UserRegistered
  <2>6. Sessions'
    BY <1>1, <1>2, <2>1, <2>4, <2>5, SessionsGained DEF Settled
  <2>7. BetweenFiles'
    BY <1>2, <2>1 DEF BetweenFiles
  <2> QED BY <1>2, <2>3, <2>6, <2>7 DEF Settled
<1>4. CASE Erase /\ Reply(m, "OK")
  <2>1. /\ m.op = "unregister"
        /\ pass' = [pass EXCEPT ![u] = NoPass]
        /\ UNCHANGED session /\ udpPc' = "idle"
    BY <1>1, <1>4 DEF Erase, SetPass, Over, GoOnWith
  <2>2. Answered(m, "OK")
    BY <1>0, <1>2, <1>4 DEF Answered
  <2>3. OneDatagram' /\ Asking' /\ Comforted' /\ Senders'
    BY <1>2, <2>2, AnswerKeepsOrder
  <2>4. /\ \A d \in Clients, v \in Users : d # c => (Holds(d, v)' <=> Holds(d, v))
        /\ \A v \in Users : ~Holds(c, v)'
        /\ \A d \in Clients : Key(d)' = Key(d)
    BY <1>0, <1>2, <2>1, <2>2, AnswerHolds DEF Ending
  <2>5. \A v \in Users : ~Holds(c, v)
    <3> SUFFICES ASSUME NEW v \in Users PROVE ~Holds(c, v)
      OBVIOUS
    <3>1. (\A s \in toClient : s.to # c) /\ (\A n \in toServer : n.from # c)
      BY <1>0, <1>2 DEF Settled, OneDatagram
    <3> QED BY <1>1, <2>1, <3>1 DEF Holds, InSession, BeingTold, LoggingOut
  <2>6. \A d \in Clients, v \in Users : Holds(d, v)' <=> Holds(d, v)
    BY <2>4, <2>5
  <2>7. Sessions'
    BY <1>1, <1>2, <2>1, <2>4, <2>6, SessionsElsewhere DEF Settled
  <2>8. BetweenFiles'
    BY <1>2, <2>1 DEF BetweenFiles
  <2> QED BY <1>2, <2>3, <2>7, <2>8 DEF Settled
<1> QED BY <1>0, <1>3, <1>4, Remembered DEF FinishServing

LEMMA ClientSettled ==
    ASSUME IInv, Settled, NEW c \in Clients, ClientStep(c), Calm'
    PROVE  Settled'
<1>1. /\ uid[c] \in Users \cup {NoUser} /\ pwd[c] \in Passwords \cup {NoPass}
      /\ NoUser \in Users \cup {NoUser} /\ NoPass \in Passwords \cup {NoPass}
  BY DEF IInv, TypeOK
<1>2. CASE \E u \in Users, p \in Passwords : LoginCommand(c, u, p)
  BY <1>2, AskSettled DEF LoginCommand, AtPrompt, UdpOps
<1>3. CASE LogoutCommand(c)
  BY <1>1, <1>3, AskSettled DEF LogoutCommand, AtPrompt, UdpOps
<1>4. CASE UnregisterCommand(c)
  BY <1>1, <1>4, AskSettled DEF UnregisterCommand, AtPrompt, UdpOps
<1>5. CASE MineCommand(c)
  BY <1>1, <1>5, AskSettled DEF MineCommand, AtPrompt, UdpOps
<1>6. CASE ListCommand(c)
  BY <1>1, <1>6, AskSettled DEF ListCommand, AtPrompt, UdpOps
<1>7. CASE Leave(c) /\ IsLoggedIn(c)
  BY <1>1, <1>7, AskSettled DEF Leave, UdpOps
<1>8. CASE QuietStep(c)
  BY <1>8, QuietSettled
<1>9. CASE \E r \in toClient : TakeReply(c, r)
  BY <1>9, TakeReplySettled
<1>10. ~(Resend(c) \/ GiveUp(c))
  BY NoTimeout DEF Resend, GiveUp
<1> QED
  BY <1>2, <1>3, <1>4, <1>5, <1>6, <1>7, <1>8, <1>9, <1>10
     DEF ClientStep, WaitStep, QuietStep

LEMMA StutterSettled == ASSUME IInv, Settled, UNCHANGED vars PROVE Settled'
  BY StayerSettled
  DEF vars, accountVars, sessionVars, clientVars, netVars, historyVars

LEMMA CalmInductive == CalmInv /\ [Next]_vars => CalmInv'
<1> SUFFICES ASSUME CalmInv, [Next]_vars PROVE CalmInv'
  OBVIOUS
<1>1. IInv /\ IInv'
  BY IInvInductive DEF CalmInv
<1>2. ASSUME Calm' PROVE Settled'
  <2>1. Calm
    BY <1>2, <1>1 DEF Next, ClientStep, WaitStep, TakeReply, Resend, GiveUp, TimesOut, Cancel,
       Signal, LoginCommand, LogoutCommand, UnregisterCommand, MineCommand, ListCommand,
       TradeCommand, ExitCommand, Leave, Ask, ServerStep, ServeLogin, ServeLogout,
       ServeUnsaved, ServeUnregister, ServeListing, TakeRequest, Take, FinishServing,
       ServerRestart, Lose, Happens, Happen, Calm, vars, historyVars
  <2>2. Settled
    BY <2>1 DEF CalmInv
  <2>3. ASSUME NEW c \in Clients, ClientStep(c) PROVE Settled'
    BY <1>1, <1>2, <2>2, <2>3, ClientSettled
  <2>4. ASSUME ServerStep PROVE Settled'
    <3>1. \A m : ~ServeUnsaved(m)
      BY <1>2 DEF ServeUnsaved, Take, Happen, Calm
    <3> QED BY <1>1, <1>2, <2>2, <2>4, <3>1, LoginSettled, LogoutSettled, UnregisterSettled,
               ListingSettled, FinishSettled DEF ServerStep
  <2>5. ~ServerRestart /\ ~Lose
    BY <1>2, Remembered DEF ServerRestart, Lose
  <2> QED BY <1>1, <2>2, <2>3, <2>4, <2>5, StutterSettled DEF Next
<1> QED BY <1>1, <1>2 DEF CalmInv

LEMMA CalmHolds == Spec => []CalmInv
  BY InitCalm, CalmInductive, PTL DEF Spec

\* A client that believes in a session holds it.
LEMMA BelieverHolds ==
    ASSUME IInv, Settled, NEW c \in Clients, Believes(c)
    PROVE  /\ uid[c] \in Users
           /\ Holds(c, uid[c])
           /\ Key(c) = pwd[c]
<1>1. uid[c] \in Users /\ uid[c] # NoUser
  BY DEF Believes, IsLoggedIn, IInv, TypeOK
<1>2. CASE pc[c] = "prompt"
  BY <1>1, <1>2 DEF Settled, Asking, Holds, InSession, Key
<1>3. CASE pc[c] = "waiting" /\ asked[c].op \notin {"logout", "unregister"}
  <2>1. asked[c].op \in {"mine", "list"}
    BY <1>1, <1>3 DEF Settled, Asking, Waits, IInv, Waiting, RequestType, UdpOps
  <2> QED BY <1>1, <1>3, <2>1 DEF Holds, InSession, Key
<1> QED BY <1>2, <1>3 DEF Believes

\* For any number of clients, users and commands, until something goes wrong:
\* whom a client takes to be logged in is logged in at the server, with the
\* password that the client keeps (UserState against FileManager::UserLoggedIn).
THEOREM BeliefIsTrueHolds == Spec => []BeliefIsTrue
<1>1. CalmInv => BeliefIsTrue
  BY BelieverHolds DEF CalmInv, Calm, Settled, Sessions, BeliefIsTrue
<1> QED BY <1>1, CalmHolds, PTL

\* For any number of clients, until something goes wrong: no two of them are
\* logged in as the same user.
THEOREM OneClientPerUserHolds == Spec => []OneClientPerUser
<1>1. CalmInv => OneClientPerUser
  BY BelieverHolds DEF CalmInv, Calm, Settled, Sessions, OneClientPerUser
<1> QED BY <1>1, CalmHolds, PTL

\* For any number of clients, until something goes wrong: a login that the
\* server keeps is known to a client, or a logout is on its way to end it.
THEOREM NoOrphanSessionHolds == Spec => []NoOrphanSession
<1>1. ASSUME CalmInv, Calm, NEW u \in Users, session[u]
      PROVE  \/ \E c \in Clients : pc[c] # "ended" /\ uid[c] = u
             \/ \E c \in Clients :
                 pc[c] = "waiting" /\ asked[c].op = "login" /\ asked[c].user = u
             \/ \E m \in toServer : m.op = "logout" /\ m.user = u
  <2>1. PICK c \in Clients : Holds(c, u)
    BY <1>1 DEF CalmInv, Settled, Sessions
  <2>2. CASE InSession(c, u)
    BY <2>2 DEF InSession
  <2>3. CASE BeingTold(c, u)
    BY <2>3 DEF BeingTold
  <2>4. CASE LoggingOut(c, u)
    <3>1. PICK m \in toServer : m.from = c /\ m.op \in {"logout", "unregister"} /\ m.user = u
      BY <2>4 DEF LoggingOut
    <3>2. CASE m.op = "unregister"
      <4>1. pc[c] = "waiting" /\ asked[c] = m
        BY <1>1, <3>1, <3>2 DEF CalmInv, Settled, Senders
      <4>2. uid[c] = u
        BY <1>1, <3>1, <3>2, <4>1 DEF CalmInv, Settled, Asking, Waits
      <4> QED BY <4>1, <4>2
    <3> QED BY <3>1, <3>2
  <2> QED BY <2>1, <2>2, <2>3, <2>4 DEF Holds
<1>2. CalmInv => NoOrphanSession
  BY <1>1 DEF NoOrphanSession, Calm
<1> QED BY <1>2, CalmHolds, PTL

\* For any number of clients, until something goes wrong: nobody whose client
\* takes him to be logged in is told by the server that he is not.
THEOREM NeverDeniedHolds == Spec => []NeverDenied
<1>1. CalmInv => NeverDenied
  BY DEF CalmInv, Calm, Settled, NeverDenied
<1> QED BY <1>1, CalmHolds, PTL
=============================================================================
