--------------------------- MODULE AuctionServer ---------------------------
(***************************************************************************)
(* The auctions of the server: the files under ASDIR that hold them, the   *)
(* worker threads that serve the TCP requests OPA, CLS, SAS and BID, the   *)
(* UDP thread, the clock, and the stop, crash and restart of the process.  *)
(*                                                                         *)
(* An action is one step that other threads can come between: a section    *)
(* under an auction's or a user's mutex (each creates at most one file,    *)
(* so it is atomic for the readers that take no mutex), an unlocked read   *)
(* of a file's existence, or one half of auctionsCount++.                  *)
(***************************************************************************)
EXTENDS Accounts, FiniteSets, FiniteSetsExt

CONSTANTS
    Workers,        \* threads of the pool
    Requests,       \* the TCP requests that clients send, each at most once
    Logins,         \* the <<user, password>> pairs that may be sent in LIN
    Leavers,        \* the users that may send LOU and UNR
    Padded,         \* users whose id starts with a zero
    MaxId,          \* AUCTION_MAX_NUMBER
    Values,         \* bid and start values, BID_MAX_VALUE is the largest
    MaxTime,        \* bound of the clock
    MaxBoots,       \* bound: how many times the process starts
    MaxFailed,      \* bound: requests that meet a file which cannot be opened
    MaxKeyless,     \* bound: users whose password file cannot be created
    Garbage,        \* bound: what an AuctionData that was not filled may hold
    NoId, NoStart, NoRequest

Ids == 1 .. MaxId
Times == 0 .. MaxTime

Ops == {"open", "close", "asset", "bid"}

\* A request; the fields its operation has no use for are ignored, and tag
\* tells equal requests apart.
RequestType == [op : Ops, user : Users, pw : Passwords, id : Ids,
                value : Values, duration : Nat, tag : Nat]

ASSUME RequestAssumption == Requests \subseteq RequestType
ASSUME BoundAssumption ==
    {MaxId, MaxTime, MaxBoots, MaxFailed, MaxKeyless} \subseteq Nat
ASSUME ValueAssumption ==
    Values \subseteq Nat /\ (Values # {} => \E m \in Values : \A v \in Values : v <= m)
ASSUME UserAssumption == Padded \subseteq Users /\ Leavers \subseteq Users
ASSUME NoneAssumption ==
    /\ NoId \notin Nat
    /\ NoStart \notin [owner : Users, value : Values, opened : Times, duration : Nat]
    /\ NoStart \notin [owner : Users, value : Values]
    /\ NoRequest \notin RequestType
ASSUME LoginAssumption == Logins \subseteq Users \X Passwords


VARIABLES
    hosted,         \* USERS/<uid>/HOSTED
    bidded,         \* USERS/<uid>/BIDDED
    made,           \* the directory AUCTIONS/<aid> exists
    start,          \* AUCTIONS/<aid>/START
    bidsDir,        \* AUCTIONS/<aid>/BIDS exists
    bids,           \* AUCTIONS/<aid>/BIDS/<value>.txt: who bid that value
    end,            \* AUCTIONS/<aid>/END: "none", or why it was written
    auctionsCount,  \* AuctionServerState::auctionsCount
    now,            \* time(0)
    phase,          \* "up"; "leaving" once main has left its loop and logs
                    \* everyone out; "stopping" when it waits for the workers
    boots,          \* how many times the process was started
    pc,             \* where each worker is in its handler
    req,            \* the request it serves
    num,            \* the auction id it opens
    opened,         \* time(0) when it began to open it
    snap,           \* its AuctionData: the auction as getAuction read it
    answer,         \* the status with which each request was answered
    given,          \* the id that the reply to an open request gave
    late,           \* history: bids received when their auction was over
    failed,         \* history: requests for which a file could not be opened
    unread,         \* history: requests that go on without having read their
                    \* auction, because getAuction swallowed an exception
    spoilt          \* history: auctions whose START was written over, or that
                    \* a request of unread has closed or bid on

fileVars == <<hosted, bidded, made, start, bidsDir, bids, end>>
processVars == <<auctionsCount, now, phase, boots>>
jobVars == <<pc, req, num, opened, snap>>
replyVars == <<answer, given>>
historyVars == <<late, failed, unread, spoilt>>
vars == <<accountVars, fileVars, processVars, jobVars, replyVars, historyVars>>

Starts == [owner : Users, value : Values, opened : Times, duration : Nat]
Snapshots == [id : Ids \cup {NoId}, owner : Users \cup {NoUser},
              highest : Values \cup {0}]
NoSnapshot == [id |-> NoId, owner |-> NoUser, highest |-> 0]

ASSUME GarbageAssumption == Garbage \subseteq Snapshots

OpenPcs == {"readCount", "writeCount", "openLogin", "openPass", "host",
            "mkdir", "startFile", "bidsFolder", "openReply"}
ClosePcs == {"closeGet", "closeEnd"}
AssetPcs == {"assetGet", "assetShow"}
BidPcs == {"bidGet", "bidLogin", "bidPass", "bidActive", "bidWrite", "bidEntry"}
Pcs == {"idle"} \cup OpenPcs \cup ClosePcs \cup AssetPcs \cup BidPcs

Statuses == {"unsent", "inService", "none", "OK", "NOK", "NLG", "EAU", "EOW",
             "ILG", "REF", "ACC"}

Init ==
    /\ AccountsInit
    /\ hosted = [u \in Users |-> {}]
    /\ bidded = [u \in Users |-> {}]
    /\ made = [a \in Ids |-> FALSE]
    /\ start = [a \in Ids |-> NoStart]
    /\ bidsDir = [a \in Ids |-> FALSE]
    /\ bids = [a \in Ids |-> [v \in Values |-> NoUser]]
    /\ end = [a \in Ids |-> "none"]
    /\ auctionsCount = 1
    /\ now = 0
    /\ phase = "up"
    /\ boots = 1
    /\ pc = [w \in Workers |-> "idle"]
    /\ req = [w \in Workers |-> NoRequest]
    /\ num = [w \in Workers |-> 0]
    /\ opened = [w \in Workers |-> 0]
    /\ snap = [w \in Workers |-> NoSnapshot]
    /\ answer = [r \in Requests |-> "unsent"]
    /\ given = [r \in Requests |-> NoId]
    /\ late = {}
    /\ failed = {}
    /\ unread = {}
    /\ spoilt = {}

-----------------------------------------------------------------------------
(* What the files say.                                                     *)

\* Mutation: the END file is not looked for.
AuctionAlwaysActive(a) == TRUE

\* FileManager::auctionIsActive.  An id that names no auction has no END file.
AuctionIsActive(a) == a = NoId \/ end[a] = "none"

BidValues(a) == {v \in Values : bids[a][v] # NoUser}

\* AuctionData::getHighestBidValue of what getAuction reads.
HighestBid(a) == IF BidValues(a) = {} THEN start[a].value ELSE Max(BidValues(a))

\* Mutation: an auction is taken to be over one second early.
DeadlinePassedEarly(a) == now + 1 >= start[a].opened + start[a].duration

DeadlinePassed(a) == now >= start[a].opened + start[a].duration

\* Mutation: nobody looks at the clock.
NeverUpdated(a) == end

\* FileManager::UpdateAuction on the value of end, under the auction's mutex:
\* without a START file it throws.
Updated(a) ==
    IF a # NoId /\ end[a] = "none" /\ start[a] # NoStart /\ DeadlinePassed(a)
    THEN [end EXCEPT ![a] = "expired"]
    ELSE end

\* Mutations: the auction is updated, not closed; END is written over an END
\* that is there.
ClosedIfDue(a) == Updated(a)
ClosedAgain(a) ==
    IF a # NoId /\ made[a] THEN [end EXCEPT ![a] = "closed"] ELSE end

\* FileManager::closeAuction on the value of end: without the directory, or
\* with an END file, it throws inside safeLockAuction and changes nothing.
Closed(a) ==
    IF a # NoId /\ made[a] /\ end[a] = "none"
    THEN [end EXCEPT ![a] = "closed"]
    ELSE end

\* The auction has been closed, or its time is up, whether or not the END file
\* says so yet.
IsOver(a) == start[a] # NoStart /\ (end[a] # "none" \/ DeadlinePassed(a))

\* The ids that clients know from the replies to their open requests, for
\* which all files could be created.
Announced == {given[r] : r \in Requests \ failed} \ {NoId}

-----------------------------------------------------------------------------
(* Workers.                                                                *)

Step(w, from, to) ==
    /\ pc[w] = from
    /\ pc' = [pc EXCEPT ![w] = to]

\* The handler ends and its locals are gone; "none" is a connection closed
\* without a reply.
Answer(w, status) ==
    /\ answer' = [answer EXCEPT ![req[w]] = status]
    /\ pc' = [pc EXCEPT ![w] = "idle"]
    /\ req' = [req EXCEPT ![w] = NoRequest]
    /\ num' = [num EXCEPT ![w] = 0]
    /\ opened' = [opened EXCEPT ![w] = 0]
    /\ snap' = [snap EXCEPT ![w] = NoSnapshot]

\* A file or directory that worker w needs cannot be opened or created.  Whether
\* that throws, inside safeLockUser or safeLockAuction, or goes unnoticed: the
\* handler goes on.
Fails(w) ==
    /\ Cardinality(failed \cup {req[w]}) <= MaxFailed
    /\ failed' = failed \cup {req[w]}

\* The END file that the code wants to write is written, or cannot be.
SaveEnd(w, computed) ==
    \/ end' = computed /\ UNCHANGED failed
    \/ end # computed /\ Fails(w) /\ UNCHANGED end

\* The auctions that are spoilt once a request has closed or bid on one.
Touched(w) == IF req[w] \in unread THEN spoilt \cup ({snap[w].id} \ {NoId}) ELSE spoilt

First(op) == CASE op = "open" -> "readCount"
               [] op = "close" -> "closeGet"
               [] op = "asset" -> "assetGet"
               [] op = "bid" -> "bidGet"

\* A worker starts on a delegated connection (also while the server stops).
Receive(w, r) ==
    /\ pc[w] = "idle"
    /\ answer[r] = "unsent"
    /\ pc' = [pc EXCEPT ![w] = First(r.op)]
    /\ req' = [req EXCEPT ![w] = r]
    /\ answer' = [answer EXCEPT ![r] = "inService"]
    /\ late' = IF r.op = "bid" /\ IsOver(r.id) THEN late \cup {r} ELSE late
    /\ UNCHANGED <<accountVars, fileVars, processVars, num, opened, snap, given,
                   failed, unread, spoilt>>

\* AuctionData(state.auctionsCount++, ...): the counter is read, ...
ReadCount(w) ==
    /\ Step(w, "readCount", "writeCount")
    /\ num' = [num EXCEPT ![w] = auctionsCount]
    /\ opened' = [opened EXCEPT ![w] = now]
    /\ UNCHANGED <<accountVars, fileVars, processVars, req, snap, replyVars, historyVars>>

\* Mutation: one id too many.
IdPastLimit(w) == num[w] > MaxId + 1

NextCount(w) == num[w] + 1
IdTooLarge(w) == num[w] > MaxId

\* ... and written back by no atomic operation and under no lock.
\* InvalidAuctionIdException has no handler of its own: no reply.
WriteCount(w) ==
    /\ pc[w] = "writeCount"
    /\ auctionsCount' = NextCount(w)
    /\ IF IdTooLarge(w)
       THEN Answer(w, "none")
       ELSE Step(w, "writeCount", "openLogin") /\ UNCHANGED <<req, num, opened, snap, answer>>
    /\ UNCHANGED <<accountVars, fileVars, now, phase, boots, given, historyVars>>

\* UserData::openAuction and UserData::bid: is the user logged in?
CheckLogin(w, from, to) ==
    /\ pc[w] = from
    /\ IF UserLoggedIn(req[w].user)
       THEN Step(w, from, to) /\ UNCHANGED <<req, num, opened, snap, answer>>
       ELSE Answer(w, "NLG")
    /\ UNCHANGED <<accountVars, fileVars, processVars, given, historyVars>>

\* getUserPassword throws for a user who is not registered.
PasswordOk(w) == pass[req[w].user] = req[w].pw

\* Mutations: START is written before the owner's HOSTED entry; the reply is
\* sent before there is a BIDS directory.
StartFirst == [pass |-> "startFile", startFile |-> "bidsFolder", bidsFolder |-> "host",
               host |-> "mkdir", mkdir |-> "openReply"]
ReplyEarly == [pass |-> "host", host |-> "mkdir", mkdir |-> "startFile",
               startFile |-> "openReply", bidsFolder |-> "openReply"]

\* The order of the locked sections of FileManager::openAuction.
Then == [pass |-> "host", host |-> "mkdir", mkdir |-> "startFile",
         startFile |-> "bidsFolder", bidsFolder |-> "openReply"]

OpenPassword(w) ==
    /\ pc[w] = "openPass"
    /\ IF PasswordOk(w)
       THEN Step(w, "openPass", Then.pass) /\ UNCHANGED <<req, num, opened, snap, answer>>
       ELSE Answer(w, "NOK")
    /\ UNCHANGED <<accountVars, fileVars, processVars, given, historyVars>>

Host(w) ==
    /\ Step(w, "host", Then.host)
    /\ \/ /\ hosted' = [hosted EXCEPT ![req[w].user] = @ \cup {num[w]}]
          /\ UNCHANGED failed
       \/ Fails(w) /\ UNCHANGED hosted
    /\ UNCHANGED <<accountVars, bidded, made, start, bidsDir, bids, end, processVars,
                   req, num, opened, snap, replyVars, late, unread, spoilt>>

MakeDirectory(w) ==
    /\ Step(w, "mkdir", Then.mkdir)
    /\ \/ made' = [made EXCEPT ![num[w]] = TRUE] /\ UNCHANGED failed
       \/ Fails(w) /\ UNCHANGED made
    /\ UNCHANGED <<accountVars, hosted, bidded, start, bidsDir, bids, end, processVars,
                   req, num, opened, snap, replyVars, late, unread, spoilt>>

\* The START file is written over one that is there.  Without the directory no
\* file can be created.
WriteStart(w) ==
    /\ Step(w, "startFile", Then.startFile)
    /\ \/ /\ made[num[w]]
          /\ start' = [start EXCEPT ![num[w]] =
                [owner |-> req[w].user, value |-> req[w].value,
                 opened |-> opened[w], duration |-> req[w].duration]]
          /\ spoilt' = IF start[num[w]] = NoStart THEN spoilt ELSE spoilt \cup {num[w]}
          /\ UNCHANGED failed
       \/ Fails(w) /\ UNCHANGED <<start, spoilt>>
    /\ UNCHANGED <<accountVars, hosted, bidded, made, bidsDir, bids, end, processVars,
                   req, num, opened, snap, replyVars, late, unread>>

MakeBidsDirectory(w) ==
    /\ Step(w, "bidsFolder", Then.bidsFolder)
    /\ \/ /\ made[num[w]]
          /\ bidsDir' = [bidsDir EXCEPT ![num[w]] = TRUE]
          /\ UNCHANGED failed
       \/ Fails(w) /\ UNCHANGED bidsDir
    /\ UNCHANGED <<accountVars, hosted, bidded, made, start, bids, end, processVars,
                   req, num, opened, snap, replyVars, late, unread, spoilt>>

\* The asset is moved into place (its failure is only logged) and the id sent.
OpenReply(w) ==
    /\ pc[w] = "openReply"
    /\ given' = [given EXCEPT ![req[w]] = num[w]]
    /\ Answer(w, "OK")
    /\ UNCHANGED <<accountVars, fileVars, processVars, historyVars>>

\* FileManager::getAuction for a handler: the auction's files are updated and
\* read under its mutex.  Without the BIDS directory, or when a file cannot be
\* opened, that throws, the exception is swallowed, and the handler goes on
\* with an AuctionData of uninitialized fields.
ReadAuction(w, a) ==
    \/ /\ bidsDir[a]
       /\ end' = Updated(a)
       /\ snap' = [snap EXCEPT ![w] = [id |-> a, owner |-> start[a].owner,
                                       highest |-> HighestBid(a)]]
       /\ UNCHANGED <<failed, unread>>
    \/ /\ \/ ~bidsDir[a] /\ end' = Updated(a) /\ UNCHANGED failed
          \/ Fails(w) /\ end' \in {end, Updated(a)}
       /\ unread' = unread \cup {req[w]}
       /\ \E d \in Garbage : snap' = [snap EXCEPT ![w] = d]

GetAuction(w, from, to, missing) ==
    /\ pc[w] = from
    /\ IF start[req[w].id] = NoStart
       THEN Answer(w, missing) /\ UNCHANGED <<end, failed, unread>>
       ELSE /\ Step(w, from, to)
            /\ ReadAuction(w, req[w].id)
            /\ UNCHANGED <<req, num, opened, answer>>
    /\ UNCHANGED <<accountVars, hosted, bidded, made, start, bidsDir, bids,
                   processVars, given, late, spoilt>>

\* UserData::closeAuction tests the owner, and nothing else.  An END file that
\* cannot be written makes no difference to the answer.
CloseAuction(w) ==
    /\ pc[w] = "closeEnd"
    /\ IF snap[w].owner = req[w].user
       THEN /\ SaveEnd(w, Closed(snap[w].id))
            /\ spoilt' = Touched(w)
            /\ Answer(w, "OK")
       ELSE Answer(w, "EOW") /\ UNCHANGED <<end, failed, spoilt>>
    /\ UNCHANGED <<accountVars, hosted, bidded, made, start, bidsDir, bids,
                   processVars, given, late, unread>>

\* FileManager::showAsset updates the auction again.  Without a path, or with
\* an asset file that is not there, the sending of the reply fails.
ShowAsset(w) ==
    /\ pc[w] = "assetShow"
    /\ SaveEnd(w, Updated(snap[w].id))
    /\ \E s \in IF snap[w].id = NoId \/ end' # Updated(snap[w].id)
                THEN {"none"} ELSE {"OK", "none"} : Answer(w, s)
    /\ UNCHANGED <<accountVars, hosted, bidded, made, start, bidsDir, bids,
                   processVars, given, late, unread, spoilt>>

\* Mutation: owners may bid.
NotOwnBid(w) == FALSE

OwnBid(w) == snap[w].owner = req[w].user
TooLow(w) == req[w].value <= snap[w].highest

\* UserData::bid after the login check: password, owner, highest bid read.
BidChecks(w) ==
    /\ pc[w] = "bidPass"
    /\ CASE ~PasswordOk(w) -> Answer(w, "NOK")
         [] PasswordOk(w) /\ OwnBid(w) -> Answer(w, "ILG")
         [] PasswordOk(w) /\ ~OwnBid(w) /\ TooLow(w) -> Answer(w, "REF")
         [] OTHER -> /\ Step(w, "bidPass", "bidActive")
                     /\ UNCHANGED <<req, num, opened, snap, answer>>
    /\ UNCHANGED <<accountVars, fileVars, processVars, given, historyVars>>

\* Mutation: the test is made where its exception is swallowed.
BidActiveSwallowed(w) ==
    /\ Step(w, "bidActive", IF AuctionIsActive(snap[w].id) THEN "bidWrite" ELSE "bidEntry")
    /\ UNCHANGED <<accountVars, fileVars, processVars, req, num, opened, snap, replyVars,
                   historyVars>>

\* FileManager::bid: the END file is looked for before the mutex is taken.
BidActive(w) ==
    /\ pc[w] = "bidActive"
    /\ IF AuctionIsActive(snap[w].id)
       THEN Step(w, "bidActive", "bidWrite") /\ UNCHANGED <<req, num, opened, snap, answer>>
       ELSE Answer(w, "NOK")
    /\ UNCHANGED <<accountVars, fileVars, processVars, given, historyVars>>

\* createBidFile writes over an equal bid.  What it throws when it cannot open
\* the file, as without a BIDS directory, is swallowed.
WriteBid(w) ==
    LET a == snap[w].id IN
    /\ Step(w, "bidWrite", "bidEntry")
    /\ IF a # NoId /\ bidsDir[a]
       THEN \/ /\ bids' = [bids EXCEPT ![a][req[w].value] = req[w].user]
               /\ spoilt' = Touched(w)
               /\ UNCHANGED failed
            \/ Fails(w) /\ UNCHANGED <<bids, spoilt>>
       ELSE UNCHANGED <<bids, failed, spoilt>>
    /\ UNCHANGED <<accountVars, hosted, bidded, made, start, bidsDir, end, processVars,
                   req, num, opened, snap, replyVars, late, unread>>

\* Mutation: the bid is listed for the owner of the auction.
BidEntryOfOwner(w) ==
    /\ pc[w] = "bidEntry"
    /\ bidded' = [bidded EXCEPT ![snap[w].owner] = @ \cup {snap[w].id}]
    /\ Answer(w, "ACC")
    /\ UNCHANGED <<accountVars, hosted, made, start, bidsDir, bids, end,
                   processVars, given, historyVars>>

\* The BIDDED entry goes under the padded id, while the user's directory is
\* named by the plain number: for a padded user no file is made.  A file that
\* cannot be created goes unnoticed.
BidEntry(w) ==
    LET u == req[w].user IN
    /\ pc[w] = "bidEntry"
    /\ IF u \in Padded
       THEN UNCHANGED <<bidded, failed>>
       ELSE \/ bidded' = [bidded EXCEPT ![u] = @ \cup {snap[w].id}] /\ UNCHANGED failed
            \/ Fails(w) /\ UNCHANGED bidded
    /\ Answer(w, "ACC")
    /\ UNCHANGED <<accountVars, hosted, made, start, bidsDir, bids, end,
                   processVars, given, late, unread, spoilt>>

WorkerStep(w) ==
    \/ \E r \in Requests : Receive(w, r)
    \/ ReadCount(w) \/ WriteCount(w)
    \/ CheckLogin(w, "openLogin", "openPass") \/ OpenPassword(w)
    \/ Host(w) \/ MakeDirectory(w) \/ WriteStart(w) \/ MakeBidsDirectory(w) \/ OpenReply(w)
    \/ GetAuction(w, "closeGet", "closeEnd", "EAU") \/ CloseAuction(w)
    \/ GetAuction(w, "assetGet", "assetShow", "NOK") \/ ShowAsset(w)
    \/ GetAuction(w, "bidGet", "bidLogin", "NOK")
    \/ CheckLogin(w, "bidLogin", "bidPass") \/ BidChecks(w)
    \/ BidActive(w) \/ WriteBid(w) \/ BidEntry(w)

-----------------------------------------------------------------------------
(* The UDP thread.                                                         *)

HandleLogin(u, p) ==
    /\ phase = "up"
    /\ \/ Register(u, p)
       \/ RegisterUnsaved(u) /\ Cardinality(keyless') <= MaxKeyless
       \/ LogIn(u, p)
    /\ UNCHANGED <<fileVars, processVars, jobVars, replyVars, historyVars>>

HandleLogout(u) ==
    /\ phase = "up"
    /\ LogOut(u)
    /\ UNCHANGED <<fileVars, processVars, jobVars, replyVars, historyVars>>

HandleUnregister(u) ==
    /\ phase = "up"
    /\ Unregister(u)
    /\ UNCHANGED <<fileVars, processVars, jobVars, replyVars, historyVars>>

\* The second file of the request at hand.
SecondFile ==
    /\ SignUp \/ SignUpUnsaved \/ Erase
    /\ UNCHANGED <<fileVars, processVars, jobVars, replyVars, historyVars>>

\* One turn of the loops over auctions of getAllAuctions and getUserAuctions,
\* or the getAuction of handle_show_record: what it does to the files.  When
\* one cannot be opened, that is nothing.
Refresh(a) ==
    /\ phase = "up" /\ udpPc = "idle"
    /\ end' = Updated(a)
    /\ UNCHANGED <<accountVars, hosted, bidded, made, start, bidsDir, bids,
                   processVars, jobVars, replyVars, historyVars>>

AccountRequest ==
    \/ \E l \in Logins : HandleLogin(l[1], l[2])
    \/ \E u \in Leavers : HandleLogout(u) \/ HandleUnregister(u)
    \/ SecondFile

UdpStep == AccountRequest \/ \E a \in Ids : Refresh(a)

-----------------------------------------------------------------------------
(* The process.                                                            *)

Tick ==
    /\ now < MaxTime
    /\ now' = now + 1
    /\ UNCHANGED <<accountVars, fileVars, auctionsCount, phase, boots, jobVars, replyVars,
                   historyVars>>

\* main leaves its loop; FileManager::shutdown logs one user out after the
\* other, while workers still run.
Shutdown ==
    /\ phase = "up" /\ udpPc = "idle"
    /\ phase' = "leaving"
    /\ UNCHANGED <<accountVars, fileVars, auctionsCount, now, boots, jobVars, replyVars,
                   historyVars>>

LogOneOut(u) ==
    /\ phase = "leaving"
    /\ UserLoggedIn(u)
    /\ SetSession(u, FALSE)
    /\ UNCHANGED <<pass, udpPc, udpUser, keyless, fileVars, processVars, jobVars, replyVars,
                   historyVars>>

EveryoneLeft ==
    /\ phase = "leaving"
    /\ \A u \in Users : ~UserLoggedIn(u)
    /\ phase' = "stopping"
    /\ UNCHANGED <<accountVars, fileVars, auctionsCount, now, boots, jobVars, replyVars,
                   historyVars>>

\* main of the next process: the counter starts from the number of directories.
AuctionsCount == 1 + Cardinality({a \in Ids : made[a]})

Boot ==
    /\ boots < MaxBoots
    /\ boots' = boots + 1
    /\ auctionsCount' = AuctionsCount
    /\ phase' = "up"
    /\ UNCHANGED <<fileVars, now, given, historyVars>>

Restart ==
    /\ phase = "stopping"
    /\ \A w \in Workers : pc[w] = "idle"
    /\ Boot
    /\ UNCHANGED <<accountVars, jobVars, answer>>

\* The process dies at any point (a second signal calls exit) and is started
\* again: the connections are lost, nobody is logged out.
Crash ==
    /\ Boot
    /\ pc' = [w \in Workers |-> "idle"]
    /\ req' = [w \in Workers |-> NoRequest]
    /\ num' = [w \in Workers |-> 0]
    /\ opened' = [w \in Workers |-> 0]
    /\ snap' = [w \in Workers |-> NoSnapshot]
    /\ answer' = [r \in Requests |-> IF answer[r] = "inService" THEN "none" ELSE answer[r]]
    /\ Over
    /\ UNCHANGED <<pass, session, keyless>>

Next ==
    \/ \E w \in Workers : WorkerStep(w)
    \/ UdpStep
    \/ Tick
    \/ Shutdown \/ EveryoneLeft \/ \E u \in Users : LogOneOut(u)
    \/ Restart \/ Crash

Spec == Init /\ [][Next]_vars

-----------------------------------------------------------------------------
(* Properties.                                                             *)

FilesTypeOK ==
    /\ hosted \in [Users -> SUBSET Ids]
    /\ bidded \in [Users -> SUBSET (Ids \cup {NoId})]
    /\ made \in [Ids -> BOOLEAN]
    /\ start \in [Ids -> Starts \cup {NoStart}]
    /\ bidsDir \in [Ids -> BOOLEAN]
    /\ bids \in [Ids -> [Values -> Users \cup {NoUser}]]
    /\ end \in [Ids -> {"none", "expired", "closed"}]

ProcessTypeOK ==
    /\ auctionsCount \in Nat \ {0}
    /\ now \in Times
    /\ phase \in {"up", "leaving", "stopping"}
    /\ boots \in Nat

JobsTypeOK ==
    /\ pc \in [Workers -> Pcs]
    /\ req \in [Workers -> Requests \cup {NoRequest}]
    /\ num \in [Workers -> Nat]
    /\ opened \in [Workers -> Times]
    /\ snap \in [Workers -> Snapshots]

RepliesTypeOK ==
    /\ answer \in [Requests -> Statuses]
    /\ given \in [Requests -> Ids \cup {NoId}]

HistoryTypeOK ==
    /\ {late, failed, unread} \subseteq SUBSET Requests
    /\ spoilt \in SUBSET Ids

ServerTypeOK ==
    /\ AccountsTypeOK /\ FilesTypeOK /\ ProcessTypeOK
    /\ JobsTypeOK /\ RepliesTypeOK /\ HistoryTypeOK

\* SAFETY: nobody is logged in without being registered, also between the
\* files of a request and when the process died there, but for those whose
\* password file could not be created.
SessionsHaveAccounts ==
    \A u \in Users : UserLoggedIn(u) => UserRegistered(u) \/ u \in keyless

\* SAFETY: an auction with a START file is in its owner's HOSTED directory, so
\* that myauctions lists it, wherever the process may have died; or a file was
\* missing when this owner opened an auction.
HostedBeforeStart ==
    \A a \in Ids : start[a] # NoStart =>
        \/ a \in hosted[start[a].owner]
        \/ \E r \in failed : r.op = "open" /\ r.user = start[a].owner

\* SAFETY: an id that a client was given names an auction whose directory,
\* START file and BIDS directory all exist, also after a crash, unless one of
\* them could not be created, which the reply does not say.
AnnouncedIsComplete ==
    \A a \in Announced : made[a] /\ start[a] # NoStart /\ bidsDir[a]

\* ACTION: the END file is written once; a close and the expiry of the same
\* auction, seen by several threads, never overwrite one another.
EndWrittenOnce ==
    [][\A a \in Ids : end[a] # "none" => end'[a] = end[a]]_vars

\* No worker is past its last look at the END file of auction a.
NoBidInFlight(a) ==
    \A w \in Workers : pc[w] = "bidWrite" => snap[w].id # a

\* ACTION: once an auction has ended and the bids that were past their check
\* are written, its bids never change again.
SettledIsFinal ==
    [][\A a \in Ids :
        end[a] # "none" /\ NoBidInFlight(a) =>
            bids'[a] = bids[a] /\ NoBidInFlight(a)']_vars

\* The requests of an operation answered with a status, but for those that had
\* not read their auction, or met a file which could not be opened.
Answered(op, status) ==
    {r \in Requests \ (unread \cup failed) : r.op = op /\ answer[r] = status}

\* Another bid of the same value than r, that was not turned down, is on record.
Overwritten(r) ==
    \E s \in Requests :
        /\ s.op = "bid" /\ s.value = r.value /\ (s.id = r.id \/ s \in unread)
        /\ answer[s] \in {"inService", "ACC", "none"}
        /\ bids[r.id][r.value] = s.user

\* SAFETY: a bid that was answered ACC is on record under its value for its
\* user, unless a bid of the same value, which the server took at the same
\* time, was written over it.
AcceptedIsRecorded ==
    \A r \in Answered("bid", "ACC") :
        bids[r.id][r.value] = r.user \/ Overwritten(r)

\* SAFETY: an auction whose close was answered OK is closed, or was over before
\* the close came to write its END file: the exception of that is swallowed.
ClosedIsOver == \A r \in Answered("close", "OK") : end[r.id] # "none"

\* SAFETY: an auction is over before its time only because its owner asked.
EndIsJustified ==
    \A a \in Ids \ spoilt :
        /\ end[a] = "expired" => now >= start[a].opened + start[a].duration
        /\ end[a] = "closed" =>
            \E r \in Requests : /\ r.op = "close" /\ r.id = a
                                /\ r.user = start[a].owner
                                /\ answer[r] # "unsent"

\* SAFETY: a bid that arrives when its auction is over is not accepted, even
\* if nobody had noticed the end of the auction before, by a handler that has
\* read the auction.
LateBidsRefused ==
    \A r \in late \ unread : r.id \notin spoilt => answer[r] # "ACC"

\* SAFETY: no two auctions are given the same id.
IdsGivenOnce ==
    \A r, s \in Requests : given[r] = given[s] /\ given[r] # NoId => r = s

\* ACTION: an auction that exists is never replaced by another one.
StartWrittenOnce ==
    [][\A a \in Ids : start[a] # NoStart => start'[a] = start[a]]_vars

\* ACTION: no bid is recorded for an auction that has its END file.
NoBidAfterEnd ==
    [][\A a \in Ids : end[a] # "none" => bids'[a] = bids[a]]_vars

\* SAFETY: a bid that was answered ACC is in its user's BIDDED directory, where
\* mybids looks; for ids that start with a zero the code looks elsewhere.
AcceptedIsListed ==
    \A r \in Answered("bid", "ACC") : r.user \notin Padded => r.id \in bidded[r.user]

BidsSettled(a) ==
    \A w \in Workers : pc[w] \in {"bidWrite", "bidEntry"} => snap[w].id # a

\* The server as an auction house: a lot is over once its END file exists and
\* the bids that had passed their check before are dealt with; a spoilt one is
\* withdrawn.
House == INSTANCE AuctionHouse WITH
    Lots <- Ids,
    People <- Users,
    Amounts <- Values,
    Nobody <- NoUser,
    NoLot <- NoStart,
    lot <- [a \in Ids |->
        IF a \in spoilt \/ start[a] = NoStart THEN NoStart
        ELSE [owner |-> start[a].owner, value |-> start[a].value]],
    offers <- [a \in Ids |->
        IF a \in spoilt THEN [v \in Values |-> NoUser] ELSE bids[a]],
    over <- [a \in Ids |-> a \notin spoilt /\ end[a] # "none" /\ BidsSettled(a)],
    withdrawn <- spoilt

\* REFINEMENT: the workers, the clock, the UDP thread and the crashes implement
\* the auction house.
ImplementsHouse == House!HouseSpec
=============================================================================
