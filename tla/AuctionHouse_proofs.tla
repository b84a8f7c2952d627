------------------------ MODULE AuctionHouse_proofs ------------------------
(***************************************************************************)
(* Proofs that the server keeps its promises to the people who trade on    *)
(* it, for any users, workers, requests, ids and bounds, with files that   *)
(* cannot be made or opened and crashes and restarts at any point: what is *)
(* accepted is on record, what is closed is over, auctions end for a       *)
(* reason, late bids are refused, and the files and threads of             *)
(* AuctionServer implement the AuctionHouse.                               *)
(*                                                                         *)
(* Nothing is assumed of the clients or of the ids they name.  A handler   *)
(* that has not read its auction (unread) is outside the promises, and so  *)
(* is an auction that it touched or whose START was written over (spoilt). *)
(***************************************************************************)
EXTENDS AuctionServer_proofs

-----------------------------------------------------------------------------
(* What any step does.                                                     *)

\* One worker's part of the state.
Job(w) == <<pc[w], req[w], num[w], opened[w], snap[w]>>

\* A job changes by a step of its worker, or ends with the process.
LEMMA JobSteps ==
    ASSUME IInv, [Next]_vars, NEW w \in Workers
    PROVE  Job(w)' = Job(w) \/ WorkerStep(w) \/ Crash
<1> USE DEF Job
<1>1. ASSUME NEW v \in Workers \ {w}, WorkerStep(v)
      PROVE  Job(w)' = Job(w)
  <2> USE DEF IInv, ServerTypeOK, JobsTypeOK, Step, Answer
  <2>1. CASE \/ \E r \in Requests : Receive(v, r)
             \/ ReadCount(v) \/ WriteCount(v)
    BY <2>1 DEF Receive, ReadCount, WriteCount
  <2>2. CASE \/ CheckLogin(v, "openLogin", "openPass") \/ OpenPassword(v)
             \/ CheckLogin(v, "bidLogin", "bidPass") \/ BidActive(v)
    BY <2>2 DEF CheckLogin, OpenPassword, BidActive
  <2>3. CASE Host(v) \/ MakeDirectory(v) \/ WriteStart(v) \/ MakeBidsDirectory(v) \/ OpenReply(v)
    BY <2>3 DEF Host, MakeDirectory, WriteStart, MakeBidsDirectory, OpenReply
  <2>4. CASE \/ GetAuction(v, "closeGet", "closeEnd", "EAU")
             \/ GetAuction(v, "assetGet", "assetShow", "NOK")
             \/ GetAuction(v, "bidGet", "bidLogin", "NOK")
    BY <2>4 DEF GetAuction, ReadAuction
  <2>5. CASE CloseAuction(v) \/ ShowAsset(v) \/ WriteBid(v) \/ BidEntry(v)
    BY <2>5 DEF CloseAuction, ShowAsset, WriteBid, BidEntry
  <2>6. CASE BidChecks(v)
    BY <2>6 DEF BidChecks
  <2> QED BY <1>1, <2>1, <2>2, <2>3, <2>4, <2>5, <2>6 DEF WorkerStep
<1>2. CASE UdpStep
  BY <1>2 DEF UdpStep, AccountRequest, HandleLogin, HandleLogout, HandleUnregister,
     SecondFile, Refresh, jobVars
<1>3. CASE \/ Tick \/ Shutdown \/ EveryoneLeft \/ Restart \/ UNCHANGED vars
           \/ \E u \in Users : LogOneOut(u)
  BY <1>3 DEF Tick, Shutdown, EveryoneLeft, LogOneOut, Restart, Boot, jobVars, vars
<1> QED BY <1>1, <1>2, <1>3 DEF Next

\* How a worker's step takes it from one place to another.
BidMoves == {<<"bidLogin", "bidPass">>, <<"bidPass", "bidActive">>,
             <<"bidActive", "bidWrite">>, <<"bidWrite", "bidEntry">>}

GetMoves == {<<"closeGet", "closeEnd">>, <<"assetGet", "assetShow">>, <<"bidGet", "bidLogin">>}

Reads(w) == \/ GetAuction(w, "closeGet", "closeEnd", "EAU")
            \/ GetAuction(w, "assetGet", "assetShow", "NOK")
            \/ GetAuction(w, "bidGet", "bidLogin", "NOK")

LEMMA Moves ==
    ASSUME IInv, NEW w \in Workers, WorkerStep(w)
    PROVE  \/ \E r \in Requests : Receive(w, r)
           \/ pc[w] # "idle" /\ pc'[w] = "idle"
           \/ /\ req'[w] = req[w]
              /\ \/ pc[w] \in OpenPcs /\ pc'[w] \in OpenPcs
                 \/ <<pc[w], pc'[w]>> \in GetMoves /\ start[req[w].id] # NoStart
                    /\ ReadAuction(w, req[w].id)
                 \/ /\ <<pc[w], pc'[w]>> \in BidMoves /\ snap'[w] = snap[w]
                    /\ pc[w] = "bidPass" => ~OwnBid(w) /\ ~TooLow(w)
                    /\ pc[w] = "bidActive" => AuctionIsActive(snap[w].id)
                    /\ pc[w] = "bidWrite" => WriteBid(w)
<1> USE DEF IInv, ServerTypeOK, JobsTypeOK, Step, Answer
<1>1. CASE \/ ReadCount(w) \/ WriteCount(w)
           \/ CheckLogin(w, "openLogin", "openPass") \/ OpenPassword(w)
  BY <1>1 DEF ReadCount, WriteCount, CheckLogin, OpenPassword, Then, OpenPcs
<1>2. CASE Host(w) \/ MakeDirectory(w) \/ WriteStart(w) \/ MakeBidsDirectory(w) \/ OpenReply(w)
  BY <1>2 DEF Host, MakeDirectory, WriteStart, MakeBidsDirectory, OpenReply, Then, OpenPcs
<1>3. CASE Reads(w)
  <2>1. ASSUME NEW from \in {"closeGet", "assetGet", "bidGet"}, NEW to, NEW s,
               <<from, to>> \in GetMoves, GetAuction(w, from, to, s)
        PROVE  \/ pc[w] # "idle" /\ pc'[w] = "idle"
               \/ /\ req'[w] = req[w] /\ <<pc[w], pc'[w]>> \in GetMoves
                  /\ start[req[w].id] # NoStart /\ ReadAuction(w, req[w].id)
    BY <2>1 DEF GetAuction
  <2> QED BY <1>3, <2>1 DEF Reads, GetMoves
<1>4. CASE CloseAuction(w) \/ ShowAsset(w) \/ BidEntry(w)
  BY <1>4 DEF CloseAuction, ShowAsset, BidEntry
<1>5. CASE CheckLogin(w, "bidLogin", "bidPass") \/ BidActive(w)
  BY <1>5 DEF CheckLogin, BidActive, BidMoves
<1>6. CASE BidChecks(w)
  BY <1>6 DEF BidChecks, BidMoves
<1>7. CASE WriteBid(w)
  BY <1>7 DEF WriteBid, BidMoves
<1> QED BY <1>1, <1>2, <1>3, <1>4, <1>5, <1>6, <1>7 DEF WorkerStep, Reads

\* The steps of a worker that write none of an auction's files but END.
LEMMA QuietSteps ==
    ASSUME IInv, NEW w \in Workers,
           \/ \E r \in Requests : Receive(w, r)
           \/ ReadCount(w) \/ WriteCount(w)
           \/ CheckLogin(w, "openLogin", "openPass") \/ OpenPassword(w) \/ OpenReply(w)
           \/ Reads(w) \/ CloseAuction(w) \/ ShowAsset(w)
           \/ CheckLogin(w, "bidLogin", "bidPass") \/ BidChecks(w) \/ BidActive(w)
    PROVE  UNCHANGED <<hosted, bidded, made, start, bidsDir, bids, now>>
<1> USE DEF fileVars, processVars
<1>1. CASE \/ \E r \in Requests : Receive(w, r)
           \/ ReadCount(w) \/ WriteCount(w)
           \/ CheckLogin(w, "openLogin", "openPass") \/ OpenPassword(w) \/ OpenReply(w)
  BY <1>1 DEF Receive, ReadCount, WriteCount, CheckLogin, OpenPassword, OpenReply
<1>2. CASE Reads(w) \/ CloseAuction(w) \/ ShowAsset(w)
  BY <1>2 DEF Reads, GetAuction, CloseAuction, ShowAsset
<1>3. CASE CheckLogin(w, "bidLogin", "bidPass") \/ BidChecks(w) \/ BidActive(w)
  BY <1>3 DEF CheckLogin, BidChecks, BidActive
<1> QED BY <1>1, <1>2, <1>3

\* Histories forget nothing, whoever takes the step.
LEMMA HistorySteps ==
    ASSUME IInv, [Next]_vars
    PROVE  HistoriesGrow
<1>1. CASE \E w \in Workers : WorkerStep(w)
  BY <1>1, WorkerHistories
<1>2. CASE UdpStep
  BY <1>2, HistoriesKept DEF UdpStep, AccountRequest, HandleLogin, HandleLogout,
     HandleUnregister, SecondFile, Refresh
<1>3. CASE \/ Tick \/ Shutdown \/ EveryoneLeft \/ Restart \/ Crash \/ UNCHANGED vars
           \/ \E u \in Users : LogOneOut(u)
  BY <1>3, HistoriesKept DEF Tick, Shutdown, EveryoneLeft, LogOneOut, Restart, Crash, Boot, vars
<1> QED BY <1>1, <1>2, <1>3 DEF Next

\* An answer changes when its request is received, or answered, or is cut off
\* by the end of the process.
LEMMA ReplySteps ==
    ASSUME IInv, [Next]_vars, NEW r \in Requests, answer'[r] # answer[r]
    PROVE  \/ /\ answer[r] = "unsent" /\ answer'[r] = "inService"
              /\ \E w \in Workers : Receive(w, r)
           \/ answer[r] = "inService" /\ answer'[r] = "none" /\ Crash
           \/ \E w \in Workers :
                /\ pc[w] # "idle" /\ req[w] = r /\ pc'[w] = "idle"
                /\ answer'[r] \notin {"unsent", "inService"}
                /\ answer'[r] = "ACC" => BidEntry(w)
                /\ answer'[r] = "OK" => CloseAuction(w) \/ OpenReply(w) \/ ShowAsset(w)
<1> USE DEF IInv, ServerTypeOK, RepliesTypeOK
<1>1. ASSUME NEW w \in Workers, WorkerStep(w)
      PROVE  \/ /\ answer[r] = "unsent" /\ answer'[r] = "inService"
                /\ \E x \in Workers : Receive(x, r)
             \/ /\ pc[w] # "idle" /\ req[w] = r /\ pc'[w] = "idle"
                /\ answer'[r] \notin {"unsent", "inService"}
                /\ answer'[r] = "ACC" => BidEntry(w)
                /\ answer'[r] = "OK" => CloseAuction(w) \/ OpenReply(w) \/ ShowAsset(w)
  <2> USE DEF Step
  <2>1. CASE /\ \E s \in Statuses \ {"ACC", "OK", "unsent", "inService"} : Answer(w, s)
             /\ pc[w] # "idle"
    BY <2>1 DEF Answer, JobsTypeOK
  <2>2. CASE \E x \in Requests : Receive(w, x)
    BY <2>2 DEF Receive
  <2>3. CASE ReadCount(w) \/ WriteCount(w)
    BY <2>1, <2>3 DEF ReadCount, WriteCount, replyVars, Statuses
  <2>4. CASE \/ CheckLogin(w, "openLogin", "openPass") \/ OpenPassword(w)
             \/ CheckLogin(w, "bidLogin", "bidPass") \/ BidChecks(w) \/ BidActive(w)
    BY <2>1, <2>4 DEF CheckLogin, OpenPassword, BidChecks, BidActive, Statuses
  <2>5. CASE Host(w) \/ MakeDirectory(w) \/ WriteStart(w) \/ MakeBidsDirectory(w) \/ WriteBid(w)
    BY <2>5 DEF Host, MakeDirectory, WriteStart, MakeBidsDirectory, WriteBid, replyVars
  <2>6. CASE Reads(w)
    BY <2>1, <2>6 DEF Reads, GetAuction, Statuses
  <2>7. CASE CloseAuction(w)
    BY <2>1, <2>7 DEF CloseAuction, Answer, JobsTypeOK, Statuses
  <2>8. CASE ShowAsset(w)
    BY <2>8 DEF ShowAsset, Answer, JobsTypeOK
  <2>9. CASE OpenReply(w) \/ BidEntry(w)
    BY <2>9 DEF OpenReply, BidEntry, Answer, JobsTypeOK
  <2> QED BY <1>1, <2>2, <2>3, <2>4, <2>5, <2>6, <2>7, <2>8, <2>9 DEF WorkerStep, Reads
<1>2. CASE UdpStep
  BY <1>2 DEF UdpStep, AccountRequest, HandleLogin, HandleLogout, HandleUnregister,
     SecondFile, Refresh, replyVars
<1>3. CASE \/ Tick \/ Shutdown \/ EveryoneLeft \/ Restart \/ UNCHANGED vars
           \/ \E u \in Users : LogOneOut(u)
  BY <1>3 DEF Tick, Shutdown, EveryoneLeft, LogOneOut, Restart, Boot, replyVars, vars
<1>4. CASE Crash
  BY <1>4 DEF Crash
<1> QED BY <1>1, <1>2, <1>3, <1>4 DEF Next

\* Nothing that is on disk goes away, and a request that was
\* received stays so.
Grows ==
    /\ \A a \in Ids : /\ made[a] => made'[a]
                      /\ start[a] # NoStart => start'[a] # NoStart
                      /\ bidsDir[a] => bidsDir'[a]
                      /\ end[a] # "none" => end'[a] = end[a]
                      /\ \A v \in Values : bids[a][v] # NoUser => bids'[a][v] # NoUser
    /\ \A u \in Users : bidded[u] \subseteq bidded'[u]
    /\ \A r \in Requests : answer[r] # "unsent" => answer'[r] # "unsent"
    /\ now <= now'

LEMMA GrowSteps ==
    ASSUME IInv, [Next]_vars
    PROVE  Grows
<1> USE DEF Grows, IInv, ServerTypeOK
<1>1. \A a \in Ids : end[a] # "none" => end'[a] = end[a]
  BY EndSteps, EndFiles
<1>2. \A r \in Requests : answer[r] # "unsent" => answer'[r] # "unsent"
  BY ReplySteps
<1>3. now \in Nat
  BY DEF ProcessTypeOK, Times
<1>4. ASSUME NEW w \in Workers, WorkerStep(w)
      PROVE  Grows
  <2> USE DEF FilesTypeOK
  <2>1. CASE Host(w) \/ MakeDirectory(w) \/ MakeBidsDirectory(w)
    <3>1. /\ UNCHANGED <<bidded, start, bids, now>>
          /\ \A a \in Ids : (made[a] => made'[a]) /\ (bidsDir[a] => bidsDir'[a])
      BY <2>1 DEF Host, MakeDirectory, MakeBidsDirectory, processVars
    <3> QED BY <1>1, <1>2, <1>3, <3>1
  <2>2. CASE WriteStart(w)
    <3>1. [owner |-> req[w].user, value |-> req[w].value, opened |-> opened[w],
           duration |-> req[w].duration] # NoStart
      BY <2>2, RequestFields, NoneAssumption
         DEF WriteStart, Step, JobsInOrder, JobOK, JobsTypeOK
    <3>2. \A a \in Ids : start[a] # NoStart => start'[a] # NoStart
      BY <2>2, <3>1 DEF WriteStart
    <3> QED BY <1>1, <1>2, <1>3, <2>2, <3>2 DEF WriteStart, processVars
  <2>3. CASE WriteBid(w)
    <3>1. req[w].user # NoUser
      BY <2>3, RequestFields, NoUserAssumption DEF WriteBid, Step, JobsInOrder, JobOK
    <3>2. \A a \in Ids, v \in Values : bids[a][v] # NoUser => bids'[a][v] # NoUser
      BY <2>3, <3>1 DEF WriteBid
    <3> QED BY <1>1, <1>2, <1>3, <2>3, <3>2 DEF WriteBid, processVars
  <2>4. CASE BidEntry(w)
    <3>1. \A u \in Users : bidded[u] \subseteq bidded'[u]
      BY <2>4 DEF BidEntry
    <3> QED BY <1>1, <1>2, <1>3, <2>4, <3>1 DEF BidEntry, processVars
  <2>5. CASE UNCHANGED <<hosted, bidded, made, start, bidsDir, bids, now>>
    BY <1>1, <1>2, <1>3, <2>5
  <2> HIDE DEF Grows
  <2> QED BY <1>4, <2>1, <2>2, <2>3, <2>4, <2>5, QuietSteps DEF WorkerStep, Reads
<1>5. CASE UdpStep
  <2>1. UNCHANGED <<hosted, bidded, made, start, bidsDir, bids, now>>
    BY <1>5 DEF UdpStep, AccountRequest, HandleLogin, HandleLogout, HandleUnregister,
       SecondFile, Refresh, fileVars, processVars
  <2> QED BY <1>1, <1>2, <1>3, <2>1
<1>6. CASE \/ Tick \/ Shutdown \/ EveryoneLeft \/ Restart \/ Crash \/ UNCHANGED vars
           \/ \E u \in Users : LogOneOut(u)
  <2>1. UNCHANGED <<hosted, bidded, made, start, bidsDir, bids>> /\ now' \in {now, now + 1}
    BY <1>6 DEF Tick, Shutdown, EveryoneLeft, LogOneOut, Restart, Crash, Boot,
       fileVars, processVars, vars
  <2> QED BY <1>1, <1>2, <1>3, <2>1
<1> HIDE DEF Grows
<1> QED BY <1>4, <1>5, <1>6 DEF Next

-----------------------------------------------------------------------------
(* The first part: what is accepted is on record, what is closed is over.  *)

\* The places past the reading of the auction.
AfterGet == {"closeEnd", "assetShow", "bidLogin", "bidPass", "bidActive", "bidWrite", "bidEntry"}

\* A worker handles a request that is in service; past the reading of the
\* auction, it is that auction which it has read, or none.
RequestAtHand(w) ==
    /\ pc[w] # "idle" => answer[req[w]] = "inService"
    /\ pc[w] \in ClosePcs => req[w].op = "close"
    /\ pc[w] \in AssetPcs => req[w].op = "asset"
    /\ pc[w] \in BidPcs => req[w].op = "bid"
    /\ pc[w] \in AfterGet /\ req[w] \notin unread =>
        start[req[w].id] # NoStart /\ snap[w].id = req[w].id /\ bidsDir[req[w].id]
    /\ pc[w] = "bidEntry" /\ req[w] \notin unread \cup failed =>
        bids[req[w].id][req[w].value] # NoUser

RequestsAtHand == \A w \in Workers : RequestAtHand(w)

\* No request is served twice.
OneWorkerEach ==
    \A v, w \in Workers : pc[v] # "idle" /\ pc[w] # "idle" /\ req[v] = req[w] => v = w

\* Without its directory no auction has a START file.
StartsInDirectories == \A a \in Ids : start[a] # NoStart => made[a]

\* The bid on record came from a request that was not turned down.
Bidder(s, a, v) ==
    /\ s.op = "bid" /\ s.value = v /\ s.user = bids[a][v]
    /\ s.id = a \/ s \in unread
    /\ \/ answer[s] \in {"ACC", "none"}
       \/ answer[s] = "inService" /\ \E w \in Workers : pc[w] = "bidEntry" /\ req[w] = s

BidsHaveBidders ==
    \A a \in Ids, v \in Values :
        bids[a][v] # NoUser => \E s \in Requests : Bidder(s, a, v)

\* A bid that was answered ACC is on record, whoever wrote over it.
AcceptedIsKept == \A r \in Answered("bid", "ACC") : bids[r.id][r.value] # NoUser

RecordInv ==
    /\ IInv
    /\ RequestsAtHand
    /\ OneWorkerEach
    /\ StartsInDirectories
    /\ BidsHaveBidders
    /\ AcceptedIsKept
    /\ AcceptedIsListed
    /\ ClosedIsOver

LEMMA InitRecordInv == Init => RecordInv
<1> SUFFICES ASSUME Init PROVE RecordInv
  OBVIOUS
<1>1. RequestsAtHand /\ OneWorkerEach
  BY DEF Init, RequestsAtHand, RequestAtHand, OneWorkerEach, ClosePcs, AssetPcs, BidPcs, AfterGet
<1>2. StartsInDirectories /\ BidsHaveBidders
  BY DEF Init, StartsInDirectories, BidsHaveBidders
<1>3. AcceptedIsKept /\ AcceptedIsListed /\ ClosedIsOver
  BY DEF Init, Answered, AcceptedIsKept, AcceptedIsListed, ClosedIsOver
<1> QED BY <1>1, <1>2, <1>3, InitIInv DEF RecordInv

\* A request in service stays so while its worker is busy with it, and no
\* other worker takes it.
LEMMA ServiceStays ==
    ASSUME RecordInv, [Next]_vars, NEW w \in Workers, pc[w] # "idle", pc'[w] # "idle"
    PROVE  req'[w] = req[w] /\ req[w] \in Requests /\ answer'[req[w]] = "inService"
<1>1. req[w] \in Requests /\ answer[req[w]] = "inService"
  BY DEF RecordInv, RequestsAtHand, RequestAtHand, IInv, JobsInOrder, JobOK
<1>2. req'[w] = req[w]
  BY JobSteps, Moves DEF Job, Receive, RecordInv, Crash
<1>3. ~Crash
  BY DEF Crash
<1>4. ASSUME answer'[req[w]] # answer[req[w]]
      PROVE  FALSE
  <2>1. PICK v \in Workers : pc[v] # "idle" /\ req[v] = req[w] /\ pc'[v] = "idle"
    BY <1>1, <1>3, <1>4, ReplySteps DEF RecordInv
  <2>2. v = w
    BY <2>1 DEF RecordInv, OneWorkerEach
  <2> QED BY <2>1, <2>2
<1> QED BY <1>1, <1>2, <1>4

LEMMA OneWorkerEachKept ==
    ASSUME RecordInv, [Next]_vars
    PROVE  OneWorkerEach'
<1> SUFFICES ASSUME NEW v \in Workers, NEW w \in Workers,
                    pc'[v] # "idle", pc'[w] # "idle", req'[v] = req'[w]
             PROVE  v = w
  BY DEF OneWorkerEach
<1>1. IInv
  BY DEF RecordInv
<1>2. ASSUME NEW x \in Workers, pc[x] = "idle", pc'[x] # "idle"
      PROVE  \E r \in Requests : Receive(x, r)
  BY <1>1, <1>2, JobSteps, Moves DEF Job, Crash, OpenPcs, GetMoves, BidMoves
<1>3. ASSUME NEW x \in Workers, NEW y \in Workers, x # y, NEW r \in Requests, Receive(x, r),
             pc'[y] # "idle"
      PROVE  req'[y] # req'[x]
  <2>1. /\ req'[x] = r /\ answer[r] = "unsent"
        /\ pc'[y] = pc[y] /\ req'[y] = req[y]
    BY <1>1, <1>3 DEF Receive, IInv, ServerTypeOK, JobsTypeOK
  <2>2. answer[req[y]] = "inService"
    BY <1>3, <2>1 DEF RecordInv, RequestsAtHand, RequestAtHand
  <2> QED BY <2>1, <2>2
<1>4. CASE pc[v] # "idle" /\ pc[w] # "idle"
  BY <1>4, ServiceStays DEF RecordInv, OneWorkerEach
<1> QED BY <1>2, <1>3, <1>4

\* While its worker stands still, nothing takes a request's ground away; and
\* what a worker's own step finds on disk or writes there.
LEMMA RequestsKept ==
    ASSUME RecordInv, [Next]_vars, NEW w \in Workers
    PROVE  RequestAtHand(w)'
<1> USE DEF RequestAtHand, ClosePcs, AssetPcs, BidPcs, AfterGet
<1>1. CASE pc'[w] = "idle"
  BY <1>1
<1>2. IInv /\ RequestAtHand(w) /\ Grows /\ HistoriesGrow
  BY GrowSteps, HistorySteps DEF RecordInv, RequestsAtHand
<1>3. CASE pc[w] = "idle" /\ pc'[w] # "idle"
  <2>1. PICK r \in Requests : Receive(w, r)
    BY <1>2, <1>3, JobSteps, Moves DEF Job, Crash, OpenPcs, GetMoves, BidMoves
  <2>2. pc'[w] = First(r.op) /\ req'[w] = r /\ answer'[r] = "inService"
    BY <1>2, <2>1 DEF Receive, IInv, ServerTypeOK, JobsTypeOK, RepliesTypeOK
  <2>3. /\ First(r.op) \in {"readCount", "closeGet", "assetGet", "bidGet"}
        /\ First(r.op) = "closeGet" => r.op = "close"
        /\ First(r.op) = "assetGet" => r.op = "asset"
        /\ First(r.op) = "bidGet" => r.op = "bid"
    BY RequestFields DEF First, Ops
  <2> QED BY <2>2, <2>3
<1>4. CASE pc[w] # "idle" /\ pc'[w] # "idle"
  <2>1. req'[w] = req[w] /\ req[w] \in Requests /\ answer'[req[w]] = "inService"
    BY <1>4, ServiceStays
  <2>2. req[w].id \in Ids /\ req[w].value \in Values /\ req[w].user # NoUser
    BY <2>1, RequestFields, NoUserAssumption
  <2>3. CASE Job(w)' = Job(w)
    BY <1>2, <2>1, <2>2, <2>3 DEF Job, Grows, HistoriesGrow
  <2>4. CASE pc[w] \in OpenPcs /\ pc'[w] \in OpenPcs
    BY <2>1, <2>4 DEF OpenPcs
  <2>5. CASE /\ <<pc[w], pc'[w]>> \in GetMoves /\ start[req[w].id] # NoStart
             /\ ReadAuction(w, req[w].id)
    <3>1. \/ req[w] \in unread'
          \/ bidsDir[req[w].id] /\ snap'[w].id = req[w].id
      BY <1>2, <2>5 DEF ReadAuction, IInv, ServerTypeOK, JobsTypeOK
    <3>2. start'[req[w].id] # NoStart /\ (bidsDir[req[w].id] => bidsDir'[req[w].id])
      BY <1>2, <2>2, <2>5 DEF Grows
    <3> QED BY <1>2, <2>1, <2>5, <3>1, <3>2 DEF GetMoves
  <2>6. CASE /\ <<pc[w], pc'[w]>> \in BidMoves /\ snap'[w] = snap[w]
             /\ pc[w] = "bidWrite" => WriteBid(w)
    <3>1. req[w] \notin unread' => req[w] \notin unread /\ start'[req[w].id] # NoStart
                                   /\ bidsDir'[req[w].id]
      BY <1>2, <2>2, <2>6 DEF BidMoves, Grows, HistoriesGrow
    <3>2. ASSUME pc[w] = "bidWrite", req[w] \notin unread' \cup failed'
          PROVE  bids'[req[w].id][req[w].value] # NoUser
      <4>1. snap[w].id = req[w].id /\ bidsDir[req[w].id]
        BY <1>2, <3>2 DEF HistoriesGrow
      <4>2. req[w].id # NoId
        BY <2>2, NoneAssumption, BoundAssumption DEF Ids
      <4> QED BY <1>2, <2>2, <2>6, <3>2, <4>1, <4>2
              DEF WriteBid, Fails, IInv, ServerTypeOK, FilesTypeOK
    <3> QED BY <1>2, <2>1, <2>6, <3>1, <3>2 DEF BidMoves
  <2>7. ~Crash /\ ~\E r \in Requests : Receive(w, r)
    BY <1>4 DEF Crash, Receive
  <2> QED BY <1>2, <1>4, <2>3, <2>4, <2>5, <2>6, <2>7, JobSteps, Moves
<1> QED BY <1>1, <1>3, <1>4

\* Only WriteBid changes a bid.
LEMMA BidSteps ==
    ASSUME IInv, [Next]_vars
    PROVE  bids' = bids \/ \E w \in Workers : WriteBid(w)
<1>1. ASSUME NEW w \in Workers, WorkerStep(w), ~WriteBid(w)
      PROVE  bids' = bids
  <2>1. CASE \/ Host(w) \/ MakeDirectory(w) \/ WriteStart(w) \/ MakeBidsDirectory(w)
             \/ BidEntry(w)
    BY <2>1 DEF Host, MakeDirectory, WriteStart, MakeBidsDirectory, BidEntry
  <2> QED BY <1>1, <2>1, QuietSteps DEF WorkerStep, Reads
<1>2. CASE UdpStep
  BY <1>2 DEF UdpStep, AccountRequest, HandleLogin, HandleLogout, HandleUnregister,
     SecondFile, Refresh, fileVars
<1>3. CASE \/ Tick \/ Shutdown \/ EveryoneLeft \/ Restart \/ Crash \/ UNCHANGED vars
           \/ \E u \in Users : LogOneOut(u)
  BY <1>3 DEF Tick, Shutdown, EveryoneLeft, LogOneOut, Restart, Crash, Boot, fileVars, vars
<1> QED BY <1>1, <1>2, <1>3 DEF Next

\* Only WriteStart writes a START file.
LEMMA StartSteps ==
    ASSUME IInv, [Next]_vars
    PROVE  start' = start \/ \E w \in Workers : WriteStart(w)
<1>1. ASSUME NEW w \in Workers, WorkerStep(w), ~WriteStart(w)
      PROVE  start' = start
  <2>1. CASE Host(w) \/ MakeDirectory(w) \/ MakeBidsDirectory(w) \/ WriteBid(w) \/ BidEntry(w)
    BY <2>1 DEF Host, MakeDirectory, MakeBidsDirectory, WriteBid, BidEntry
  <2> QED BY <1>1, <2>1, QuietSteps DEF WorkerStep, Reads
<1>2. CASE UdpStep
  BY <1>2 DEF UdpStep, AccountRequest, HandleLogin, HandleLogout, HandleUnregister,
     SecondFile, Refresh, fileVars
<1>3. CASE \/ Tick \/ Shutdown \/ EveryoneLeft \/ Restart \/ Crash \/ UNCHANGED vars
           \/ \E u \in Users : LogOneOut(u)
  BY <1>3 DEF Tick, Shutdown, EveryoneLeft, LogOneOut, Restart, Crash, Boot, fileVars, vars
<1> QED BY <1>1, <1>2, <1>3 DEF Next

\* What WriteStart writes, and where.
LEMMA StartWritten ==
    ASSUME IInv, NEW w \in Workers, WriteStart(w), start' # start \/ spoilt' # spoilt
    PROVE  /\ num[w] \in Ids /\ made[num[w]]
           /\ \E u \in Users, v \in Values, s \in Starts :
                /\ s.owner = u /\ s.value = v
                /\ start' = [start EXCEPT ![num[w]] = s]
           /\ spoilt' = IF start[num[w]] = NoStart THEN spoilt ELSE spoilt \cup {num[w]}
<1>1. num[w] \in Ids /\ req[w] \in Requests /\ opened[w] \in Times
  BY DEF WriteStart, Step, IInv, ServerTypeOK, JobsTypeOK, JobsInOrder, JobOK, OpenPcs
<1> DEFINE s == [owner |-> req[w].user, value |-> req[w].value,
                 opened |-> opened[w], duration |-> req[w].duration]
<1>2. /\ s \in Starts /\ s.owner = req[w].user /\ s.value = req[w].value
      /\ req[w].user \in Users /\ req[w].value \in Values
  BY <1>1, RequestFields DEF Starts
<1>3. /\ made[num[w]]
      /\ start' = [start EXCEPT ![num[w]] = s]
      /\ spoilt' = IF start[num[w]] = NoStart THEN spoilt ELSE spoilt \cup {num[w]}
  BY DEF WriteStart
<1> QED BY <1>1, <1>2, <1>3

LEMMA StartsInDirectoriesKept ==
    ASSUME IInv, StartsInDirectories, [Next]_vars
    PROVE  StartsInDirectories'
<1>1. \A a \in Ids : made[a] => made'[a]
  BY GrowSteps DEF Grows
<1>2. CASE start' = start
  BY <1>1, <1>2 DEF StartsInDirectories
<1>3. ASSUME NEW w \in Workers, WriteStart(w), start' # start
      PROVE  StartsInDirectories'
  BY <1>1, <1>3, StartWritten DEF StartsInDirectories, IInv, ServerTypeOK, FilesTypeOK
<1> QED BY <1>2, <1>3, StartSteps

\* After its bid file a worker enters the bid in the user's list, and answers.
LEMMA EntryStep ==
    ASSUME IInv, NEW w \in Workers, WorkerStep(w), pc[w] = "bidEntry"
    PROVE  BidEntry(w)
<1> USE DEF Step
<1>1. ~\/ \E r \in Requests : Receive(w, r)
       \/ ReadCount(w) \/ WriteCount(w)
       \/ CheckLogin(w, "openLogin", "openPass") \/ OpenPassword(w)
       \/ CheckLogin(w, "bidLogin", "bidPass") \/ BidChecks(w) \/ BidActive(w)
  BY DEF Receive, ReadCount, WriteCount, CheckLogin, OpenPassword, BidChecks, BidActive
<1>2. ~(Host(w) \/ MakeDirectory(w) \/ WriteStart(w) \/ MakeBidsDirectory(w) \/ OpenReply(w))
  BY DEF Host, MakeDirectory, WriteStart, MakeBidsDirectory, OpenReply
<1>3. ~(Reads(w) \/ CloseAuction(w) \/ ShowAsset(w) \/ WriteBid(w))
  BY DEF Reads, GetAuction, CloseAuction, ShowAsset, WriteBid
<1> QED BY <1>1, <1>2, <1>3 DEF WorkerStep, Reads

\* A bid keeps its bidder, whose request is answered ACC or is cut off; and a
\* bid that is written has one.
LEMMA BiddersKept ==
    ASSUME RecordInv, [Next]_vars
    PROVE  BidsHaveBidders'
<1> SUFFICES ASSUME NEW a \in Ids, NEW v \in Values, bids'[a][v] # NoUser
             PROVE  \E s \in Requests : Bidder(s, a, v)'
  BY DEF BidsHaveBidders
<1>1. IInv /\ HistoriesGrow
  BY HistorySteps DEF RecordInv
<1>2. CASE bids'[a][v] = bids[a][v]
  <2>1. PICK s \in Requests : Bidder(s, a, v)
    BY <1>2 DEF RecordInv, BidsHaveBidders
  <2>2. /\ s.op = "bid" /\ s.value = v /\ s.user = bids'[a][v]
        /\ s.id = a \/ s \in unread'
    BY <1>1, <1>2, <2>1 DEF Bidder, HistoriesGrow
  <2>3. CASE answer[s] \in {"ACC", "none"}
    <3>1. \A w \in Workers : pc[w] # "idle" => req[w] # s
      BY <2>3 DEF RecordInv, RequestsAtHand, RequestAtHand
    <3>2. answer'[s] = answer[s]
      BY <1>1, <2>3, <3>1, ReplySteps
    <3> QED BY <2>2, <2>3, <3>2 DEF Bidder
  <2>4. ASSUME NEW w \in Workers, pc[w] = "bidEntry", req[w] = s, answer[s] = "inService"
        PROVE  Bidder(s, a, v)'
    <3>1. CASE Job(w)' = Job(w)
      BY <1>1, <2>2, <2>4, <3>1, ServiceStays DEF Job, Bidder
    <3>2. CASE WorkerStep(w)
      <4>1. answer'[s] = "ACC"
        BY <1>1, <2>4, <3>2, EntryStep DEF BidEntry, Answer, IInv, ServerTypeOK, RepliesTypeOK
      <4> QED BY <2>2, <4>1 DEF Bidder
    <3>3. CASE Crash
      <4>1. answer'[s] = "none"
        BY <2>4, <3>3 DEF Crash
      <4> QED BY <2>2, <4>1 DEF Bidder
    <3> QED BY <1>1, <3>1, <3>2, <3>3, JobSteps
  <2> QED BY <2>1, <2>3, <2>4 DEF Bidder
<1>3. CASE bids'[a][v] # bids[a][v]
  <2>1. PICK w \in Workers : WriteBid(w)
    BY <1>1, <1>3, BidSteps
  <2>2. /\ a = snap[w].id /\ v = req[w].value /\ bids'[a][v] = req[w].user
        /\ pc[w] = "bidWrite" /\ pc'[w] = "bidEntry"
    BY <1>1, <1>3, <2>1 DEF WriteBid, Step, IInv, ServerTypeOK, FilesTypeOK, JobsTypeOK
  <2>3. req[w] \in Requests /\ req'[w] = req[w] /\ answer'[req[w]] = "inService"
    BY <2>2, ServiceStays
  <2>4. req[w].op = "bid" /\ (req[w].id = a \/ req[w] \in unread)
    BY <2>2 DEF RecordInv, RequestsAtHand, RequestAtHand, AfterGet, BidPcs
  <2> QED BY <1>1, <2>2, <2>3, <2>4 DEF Bidder, HistoriesGrow
<1> QED BY <1>2, <1>3

\* A request is answered once.
LEMMA AnswersStay ==
    ASSUME RecordInv, [Next]_vars, NEW r \in Requests, answer[r] \notin {"unsent", "inService"}
    PROVE  answer'[r] = answer[r]
<1>1. \A w \in Workers : pc[w] # "idle" => req[w] # r
  BY DEF RecordInv, RequestsAtHand, RequestAtHand
<1> QED BY <1>1, ReplySteps DEF RecordInv

LEMMA AcceptedKept ==
    ASSUME RecordInv, [Next]_vars
    PROVE  AcceptedIsKept' /\ AcceptedIsListed'
<1>1. IInv /\ Grows /\ HistoriesGrow
  BY GrowSteps, HistorySteps DEF RecordInv
<1> SUFFICES ASSUME NEW r \in Requests, r \notin unread' \cup failed', r.op = "bid",
                    answer'[r] = "ACC"
             PROVE  /\ bids'[r.id][r.value] # NoUser
                    /\ r.user \notin Padded => r.id \in bidded'[r.user]
  BY DEF AcceptedIsKept, AcceptedIsListed, Answered
<1>2. r.id \in Ids /\ r.value \in Values /\ r.user \in Users /\ r \notin unread \cup failed
  BY <1>1, RequestFields DEF HistoriesGrow
<1>3. CASE answer[r] = "ACC"
  <2>1. r \in Answered("bid", "ACC")
    BY <1>2, <1>3 DEF Answered
  <2> QED BY <1>1, <1>2, <2>1 DEF Grows, RecordInv, AcceptedIsKept, AcceptedIsListed
<1>4. CASE answer[r] # "ACC"
  <2>1. PICK w \in Workers : BidEntry(w) /\ req[w] = r
    BY <1>1, <1>4, ReplySteps
  <2>2. bids[r.id][r.value] # NoUser /\ snap[w].id = r.id
    BY <1>2, <2>1 DEF BidEntry, RecordInv, RequestsAtHand, RequestAtHand, AfterGet
  <2> QED BY <1>1, <1>2, <2>1, <2>2
          DEF BidEntry, Fails, Grows, IInv, ServerTypeOK, FilesTypeOK
<1> QED BY <1>3, <1>4

LEMMA ClosedKept ==
    ASSUME RecordInv, [Next]_vars
    PROVE  ClosedIsOver'
<1>1. IInv /\ Grows /\ HistoriesGrow
  BY GrowSteps, HistorySteps DEF RecordInv
<1> SUFFICES ASSUME NEW r \in Requests, r \notin unread' \cup failed', r.op = "close",
                    answer'[r] = "OK"
             PROVE  end'[r.id] # "none"
  BY DEF ClosedIsOver, Answered
<1>2. r.id \in Ids /\ r \notin unread \cup failed
  BY <1>1, RequestFields DEF HistoriesGrow
<1>3. CASE answer[r] = "OK"
  BY <1>1, <1>2, <1>3 DEF Grows, RecordInv, ClosedIsOver, Answered
<1>4. CASE answer[r] # "OK"
  <2>1. PICK w \in Workers : /\ pc[w] # "idle" /\ req[w] = r
                             /\ CloseAuction(w) \/ OpenReply(w) \/ ShowAsset(w)
    BY <1>1, <1>4, ReplySteps
  <2>2. CloseAuction(w)
    BY <1>1, <2>1 DEF OpenReply, ShowAsset, IInv, JobsInOrder, JobOK, OpenPcs, AssetPcs,
       RecordInv, RequestsAtHand, RequestAtHand
  <2>3. snap[w].id = r.id /\ made[r.id]
    BY <1>2, <2>1, <2>2
       DEF CloseAuction, RecordInv, RequestsAtHand, RequestAtHand, AfterGet, StartsInDirectories
  <2>4. end' = Closed(r.id)
    BY <1>1, <1>2, <1>4, <2>1, <2>2, <2>3
       DEF CloseAuction, SaveEnd, Fails, Answer, IInv, ServerTypeOK, RepliesTypeOK
  <2>5. r.id # NoId
    BY <1>2, NoneAssumption, BoundAssumption DEF Ids
  <2> QED BY <1>1, <1>2, <2>3, <2>4, <2>5 DEF Closed, IInv, ServerTypeOK, FilesTypeOK
<1> QED BY <1>3, <1>4

LEMMA RecordPreserved == RecordInv /\ [Next]_vars => RecordInv'
<1> SUFFICES ASSUME RecordInv, [Next]_vars PROVE RecordInv'
  OBVIOUS
<1>1. IInv'
  BY NextPreserves DEF RecordInv
<1>2. RequestsAtHand' /\ OneWorkerEach'
  BY RequestsKept, OneWorkerEachKept DEF RequestsAtHand
<1>3. StartsInDirectories' /\ BidsHaveBidders'
  BY StartsInDirectoriesKept, BiddersKept DEF RecordInv
<1>4. AcceptedIsKept' /\ AcceptedIsListed' /\ ClosedIsOver'
  BY AcceptedKept, ClosedKept
<1> QED BY <1>1, <1>2, <1>3, <1>4 DEF RecordInv

LEMMA RecordInvariance == Spec => []RecordInv
BY InitRecordInv, RecordPreserved, PTL DEF Spec

\* A bid that was answered ACC is on disk for its bidder, or for the one of
\* the same value that was written over it, whoever outbids it, whatever dies.
THEOREM AcceptedIsRecordedHolds == Spec => []AcceptedIsRecorded
<1>1. RecordInv => AcceptedIsRecorded
  <2> SUFFICES ASSUME RecordInv, NEW r \in Answered("bid", "ACC")
               PROVE  Overwritten(r)
    BY DEF AcceptedIsRecorded
  <2>1. r \in Requests /\ r.id \in Ids /\ r.value \in Values /\ bids[r.id][r.value] # NoUser
    BY RequestFields DEF Answered, RecordInv, AcceptedIsKept
  <2>2. PICK s \in Requests : Bidder(s, r.id, r.value)
    BY <2>1 DEF RecordInv, BidsHaveBidders
  <2> QED BY <2>2 DEF Bidder, Overwritten
<1> QED BY <1>1, RecordInvariance, PTL

\* mybids finds every bid that was answered ACC, but for padded users.
THEOREM AcceptedIsListedHolds == Spec => []AcceptedIsListed
<1>1. RecordInv => AcceptedIsListed
  BY DEF RecordInv
<1> QED BY <1>1, RecordInvariance, PTL

\* An auction whose close was answered OK has its END file.
THEOREM ClosedIsOverHolds == Spec => []ClosedIsOver
<1>1. RecordInv => ClosedIsOver
  BY DEF RecordInv
<1> QED BY <1>1, RecordInvariance, PTL

-----------------------------------------------------------------------------
(* The second part: auctions end for a reason, and late bids are refused.  *)

\* What has been read of an auction is so, and what has been checked holds.
ReadTrue(w) ==
    LET at == start[req[w].id] IN
    req[w] \notin unread /\ req[w].id \notin spoilt =>
        /\ pc[w] \in AfterGet => snap[w].owner = at.owner /\ at.value <= snap[w].highest
        /\ pc[w] \in {"bidActive", "bidWrite", "bidEntry"} =>
            req[w].user # at.owner /\ at.value < req[w].value

\* A bid that arrived late gets no further than the look for the END file,
\* which is there once the auction was read.
LateBidStopped(w) ==
    /\ pc[w] # "idle" /\ req[w] \in late \ unread /\ req[w].id \notin spoilt =>
        /\ pc[w] \in {"bidGet", "bidLogin", "bidPass", "bidActive"}
        /\ IsOver(req[w].id)
        /\ pc[w] # "bidGet" => end[req[w].id] # "none"

WorkersHonest == \A w \in Workers : ReadTrue(w) /\ LateBidStopped(w)

\* On disk there are bids on auctions only, above the start value, and not of
\* the owner; and ends of auctions only.
BidsAreOffers ==
    \A a \in Ids \ spoilt : \A v \in Values :
        bids[a][v] # NoUser => /\ start[a] # NoStart
                               /\ bids[a][v] # start[a].owner
                               /\ start[a].value < v

EndsHaveStarts == \A a \in Ids \ spoilt : end[a] # "none" => start[a] # NoStart

LateBidsWereSent == \A r \in late : answer[r] # "unsent"

TradeInv ==
    /\ RecordInv
    /\ WorkersHonest
    /\ BidsAreOffers
    /\ EndsHaveStarts
    /\ LateBidsWereSent
    /\ EndIsJustified
    /\ LateBidsRefused

LEMMA InitTradeInv == Init => TradeInv
<1> SUFFICES ASSUME Init PROVE TradeInv
  OBVIOUS
<1>1. WorkersHonest
  BY DEF Init, WorkersHonest, ReadTrue, LateBidStopped, AfterGet
<1>2. BidsAreOffers /\ EndsHaveStarts /\ LateBidsWereSent /\ LateBidsRefused
  BY DEF Init, BidsAreOffers, EndsHaveStarts, LateBidsWereSent, LateBidsRefused
<1>3. EndIsJustified
  BY DEF Init, EndIsJustified
<1> QED BY <1>1, <1>2, <1>3, InitRecordInv DEF TradeInv

\* An auction that is not spoilt is not replaced.
LEMMA StartKept ==
    ASSUME IInv, [Next]_vars, NEW a \in Ids, a \notin spoilt', start[a] # NoStart
    PROVE  start'[a] = start[a]
<1>1. ASSUME NEW w \in Workers, WriteStart(w), start' # start
      PROVE  start'[a] = start[a]
  BY <1>1, StartWritten DEF IInv, ServerTypeOK, FilesTypeOK
<1> QED BY <1>1, StartSteps

\* A bid is late when it is received, or never.
LEMMA LateSteps ==
    ASSUME IInv, [Next]_vars
    PROVE  \/ late' = late
           \/ \E w \in Workers, r \in Requests :
                 /\ Receive(w, r) /\ r.op = "bid" /\ IsOver(r.id)
                 /\ late' = late \cup {r}
<1>1. ASSUME NEW w \in Workers, WorkerStep(w), ~\E r \in Requests : Receive(w, r)
      PROVE  late' = late
  <2> USE DEF historyVars
  <2>1. CASE \/ ReadCount(w) \/ WriteCount(w)
             \/ CheckLogin(w, "openLogin", "openPass") \/ OpenPassword(w)
             \/ Host(w) \/ MakeDirectory(w) \/ WriteStart(w) \/ MakeBidsDirectory(w)
             \/ OpenReply(w)
    BY <2>1 DEF ReadCount, WriteCount, CheckLogin, OpenPassword, Host,
       MakeDirectory, WriteStart, MakeBidsDirectory, OpenReply
  <2>2. CASE Reads(w) \/ CloseAuction(w) \/ ShowAsset(w)
    BY <2>2 DEF Reads, GetAuction, CloseAuction, ShowAsset
  <2>3. CASE \/ CheckLogin(w, "bidLogin", "bidPass") \/ BidChecks(w)
             \/ BidActive(w) \/ WriteBid(w) \/ BidEntry(w)
    BY <2>3 DEF CheckLogin, BidChecks, BidActive, WriteBid, BidEntry
  <2> QED BY <1>1, <2>1, <2>2, <2>3 DEF WorkerStep, Reads
<1>2. ASSUME NEW w \in Workers, NEW r \in Requests, Receive(w, r)
      PROVE  \/ late' = late
             \/ r.op = "bid" /\ IsOver(r.id) /\ late' = late \cup {r}
  BY <1>2 DEF Receive
<1>3. CASE UdpStep
  BY <1>3 DEF UdpStep, AccountRequest, HandleLogin, HandleLogout, HandleUnregister,
     SecondFile, Refresh, historyVars
<1>4. CASE \/ Tick \/ Shutdown \/ EveryoneLeft \/ Restart \/ Crash \/ UNCHANGED vars
           \/ \E u \in Users : LogOneOut(u)
  BY <1>4 DEF Tick, Shutdown, EveryoneLeft, LogOneOut, Restart, Crash, Boot, historyVars, vars
<1> QED BY <1>1, <1>2, <1>3, <1>4 DEF Next

\* An END file is written when the time is up, or by the owner's close.
LEMMA EndCauses ==
    ASSUME IInv, [Next]_vars, NEW a \in Ids, end[a] = "none", end'[a] # "none"
    PROVE  \/ end'[a] = "expired" /\ start[a] # NoStart /\ DeadlinePassed(a)
           \/ /\ end'[a] = "closed"
              /\ \E w \in Workers : /\ CloseAuction(w) /\ snap[w].id = a
                                    /\ snap[w].owner = req[w].user
<1> USE DEF IInv, ServerTypeOK, FilesTypeOK
<1>1. ASSUME NEW b, end' = Updated(b)
      PROVE  end'[a] = "expired" /\ start[a] # NoStart /\ DeadlinePassed(a)
  BY <1>1 DEF Updated
<1>2. ASSUME NEW w \in Workers, WorkerStep(w)
      PROVE  \/ end' = end \/ \E b : end' = Updated(b)
             \/ CloseAuction(w) /\ snap[w].owner = req[w].user /\ end' = Closed(snap[w].id)
  <2>1. CASE Reads(w) \/ ShowAsset(w)
    BY <2>1 DEF Reads, GetAuction, ReadAuction, ShowAsset, SaveEnd
  <2>2. CASE CloseAuction(w)
    BY <2>2 DEF CloseAuction, SaveEnd
  <2>3. CASE \/ \E r \in Requests : Receive(w, r)
             \/ ReadCount(w) \/ WriteCount(w)
             \/ CheckLogin(w, "openLogin", "openPass") \/ OpenPassword(w)
             \/ Host(w) \/ MakeDirectory(w) \/ WriteStart(w) \/ MakeBidsDirectory(w)
             \/ OpenReply(w)
    BY <2>3 DEF Receive, ReadCount, WriteCount, CheckLogin, OpenPassword, Host,
       MakeDirectory, WriteStart, MakeBidsDirectory, OpenReply, fileVars
  <2>4. CASE \/ CheckLogin(w, "bidLogin", "bidPass") \/ BidChecks(w)
             \/ BidActive(w) \/ WriteBid(w) \/ BidEntry(w)
    BY <2>4 DEF CheckLogin, BidChecks, BidActive, WriteBid, BidEntry, fileVars
  <2> QED BY <1>2, <2>1, <2>2, <2>3, <2>4 DEF WorkerStep, Reads
<1>3. ASSUME NEW w \in Workers, CloseAuction(w), snap[w].owner = req[w].user,
             end' = Closed(snap[w].id)
      PROVE  end'[a] = "closed" /\ snap[w].id = a
  BY <1>3 DEF Closed
<1>4. CASE \E w \in Workers : WorkerStep(w)
  BY <1>1, <1>2, <1>3, <1>4
<1>5. CASE UdpStep
  <2>1. end' = end \/ \E b : end' = Updated(b)
    BY <1>5 DEF UdpStep, AccountRequest, HandleLogin, HandleLogout, HandleUnregister,
       SecondFile, Refresh, fileVars
  <2> QED BY <1>1, <2>1
<1>6. CASE \/ Tick \/ Shutdown \/ EveryoneLeft \/ Restart \/ Crash \/ UNCHANGED vars
           \/ \E u \in Users : LogOneOut(u)
  BY <1>6 DEF Tick, Shutdown, EveryoneLeft, LogOneOut, Restart, Crash, Boot, fileVars, vars
<1> QED BY <1>4, <1>5, <1>6 DEF Next

\* The highest bid is not below the start value.
LEMMA HighestBidAbove ==
    ASSUME IInv, BidsAreOffers, NEW a \in Ids \ spoilt, start[a] # NoStart
    PROVE  start[a].value <= HighestBid(a)
<1>1. start[a].value \in Nat
  BY ValueAssumption DEF IInv, ServerTypeOK, FilesTypeOK, Starts
<1>2. CASE BidValues(a) = {}
  BY <1>1, <1>2 DEF HighestBid
<1>3. CASE BidValues(a) # {}
  <2>1. BidValues(a) \in SUBSET Values
    BY DEF BidValues
  <2>2. Max(BidValues(a)) \in BidValues(a)
    BY <1>3, <2>1, MaxIsGreatest
  <2>3. Max(BidValues(a)) \in Nat /\ start[a].value < Max(BidValues(a))
    BY <2>1, <2>2, ValueAssumption DEF BidValues, BidsAreOffers
  <2> QED BY <1>1, <1>3, <2>3 DEF HighestBid
<1> QED BY <1>2, <1>3

LEMMA ValuesAreNumbers == \A v \in Values \cup {0} : v \in Nat
BY ValueAssumption

\* GetAuction reads the auction's owner and highest bid; the checks compare
\* the request with them, and the auction stays the same meanwhile.
LEMMA ReadTrueKept ==
    ASSUME RecordInv, BidsAreOffers, [Next]_vars, NEW w \in Workers, ReadTrue(w)
    PROVE  ReadTrue(w)'
<1> DEFINE r == req[w]
<1>1. CASE pc'[w] \notin AfterGet
  BY <1>1 DEF ReadTrue, AfterGet
<1>2. IInv /\ RequestAtHand(w) /\ HistoriesGrow
  BY HistorySteps DEF RecordInv, RequestsAtHand
<1>3. CASE pc[w] = "idle"
  <2>1. ASSUME NEW x \in Requests, Receive(w, x)
        PROVE  pc'[w] \notin AfterGet
    <3>1. First(x.op) \notin AfterGet
      BY RequestFields DEF First, Ops, AfterGet
    <3> QED BY <1>2, <2>1, <3>1 DEF Receive, IInv, ServerTypeOK, JobsTypeOK
  <2> QED BY <1>1, <1>2, <1>3, <2>1, JobSteps, Moves
          DEF Job, Crash, AfterGet, OpenPcs, GetMoves, BidMoves
<1>4. CASE pc[w] # "idle" /\ pc'[w] \in AfterGet
  <2>1. req'[w] = r /\ r \in Requests /\ r.id \in Ids /\ r.value \in Nat
    BY <1>4, ServiceStays, RequestFields, ValueAssumption DEF AfterGet
  <2> SUFFICES ASSUME r \notin unread', r.id \notin spoilt'
               PROVE  /\ snap'[w].owner = start'[r.id].owner
                      /\ start'[r.id].value <= snap'[w].highest
                      /\ pc'[w] \in {"bidActive", "bidWrite", "bidEntry"} =>
                            /\ r.user # start'[r.id].owner
                            /\ start'[r.id].value < r.value
    BY <2>1 DEF ReadTrue
  <2>2. r \notin unread /\ r.id \notin spoilt
    BY <1>2 DEF HistoriesGrow
  <2>3. start[r.id] # NoStart => start'[r.id] = start[r.id]
    BY <1>2, <2>1, StartKept
  <2>4. CASE Job(w)' = Job(w)
    BY <1>2, <1>4, <2>1, <2>2, <2>3, <2>4 DEF Job, ReadTrue, RequestAtHand
  <2>5. CASE /\ <<pc[w], pc'[w]>> \in GetMoves /\ start[r.id] # NoStart
             /\ ReadAuction(w, r.id)
    <3>1. /\ snap'[w].owner = start[r.id].owner
          /\ snap'[w].highest = HighestBid(r.id)
      BY <1>2, <2>5 DEF ReadAuction, IInv, ServerTypeOK, JobsTypeOK
    <3>2. start[r.id].value <= HighestBid(r.id)
      BY <1>2, <2>1, <2>2, <2>5, HighestBidAbove
    <3> QED BY <2>3, <2>5, <3>1, <3>2 DEF GetMoves
  <2>6. CASE /\ <<pc[w], pc'[w]>> \in BidMoves /\ snap'[w] = snap[w]
             /\ pc[w] = "bidPass" => ~OwnBid(w) /\ ~TooLow(w)
    <3>1. start'[r.id] = start[r.id] /\ start[r.id] # NoStart
      BY <1>2, <2>2, <2>3, <2>6 DEF BidMoves, RequestAtHand, AfterGet
    <3>2. snap[w].owner = start[r.id].owner /\ start[r.id].value <= snap[w].highest
      BY <2>2, <2>6 DEF BidMoves, ReadTrue, AfterGet
    <3>3. start[r.id].value \in Nat /\ snap[w].highest \in Nat
      <4>1. start[r.id] \in Starts /\ snap[w] \in Snapshots
        BY <1>2, <2>1, <3>1 DEF IInv, ServerTypeOK, FilesTypeOK, JobsTypeOK
      <4>2. start[r.id].value \in Values
        BY <4>1 DEF Starts
      <4>3. snap[w].highest \in Values \cup {0}
        BY <4>1 DEF Snapshots
      <4> QED BY <4>2, <4>3, ValuesAreNumbers
    <3>4. pc[w] = "bidPass" => r.user # start[r.id].owner /\ start[r.id].value < r.value
      BY <2>1, <2>6, <3>2, <3>3 DEF OwnBid, TooLow
    <3>5. pc[w] \in {"bidActive", "bidWrite"} =>
            r.user # start[r.id].owner /\ start[r.id].value < r.value
      BY <2>2 DEF ReadTrue
    <3> QED BY <2>6, <3>1, <3>2, <3>4, <3>5 DEF BidMoves
  <2>7. ~Crash /\ ~\E x \in Requests : Receive(w, x)
    BY <1>4 DEF Crash, Receive, AfterGet
  <2>8. ~(pc[w] \in OpenPcs /\ pc'[w] \in OpenPcs) /\ pc'[w] # "idle"
    BY <1>4 DEF AfterGet, OpenPcs
  <2> QED BY <1>2, <2>4, <2>5, <2>6, <2>7, <2>8, JobSteps, Moves
<1> QED BY <1>1, <1>3, <1>4

\* Once over, an auction that is not spoilt stays over.
LEMMA OverStays ==
    ASSUME IInv, [Next]_vars, NEW a \in Ids, a \notin spoilt', IsOver(a)
    PROVE  IsOver(a)'
<1>1. Grows /\ start'[a] = start[a]
  BY GrowSteps, StartKept DEF IsOver
<1>2. /\ now \in Nat /\ now' \in Nat
      /\ start[a].opened \in Nat /\ start[a].duration \in Nat
  BY NextPreserves DEF IsOver, IInv, ServerTypeOK, ProcessTypeOK, FilesTypeOK, Starts, Times
<1> QED BY <1>1, <1>2 DEF Grows, IsOver, DeadlinePassed

LEMMA LateBidStoppedKept ==
    ASSUME RecordInv, LateBidsWereSent, [Next]_vars, NEW w \in Workers, LateBidStopped(w)
    PROVE  LateBidStopped(w)'
<1>1. IInv /\ RequestAtHand(w) /\ Grows /\ HistoriesGrow
  BY GrowSteps, HistorySteps DEF RecordInv, RequestsAtHand
<1>2. CASE pc'[w] = "idle"
  BY <1>2 DEF LateBidStopped
<1>3. CASE pc[w] = "idle" /\ pc'[w] # "idle"
  <2>1. PICK r \in Requests : Receive(w, r)
    BY <1>1, <1>3, JobSteps, Moves DEF Job, Crash, OpenPcs, GetMoves, BidMoves
  <2>2. /\ pc'[w] = First(r.op) /\ req'[w] = r /\ answer[r] = "unsent" /\ r.id \in Ids
        /\ UNCHANGED <<start, end, now>>
    BY <1>1, <2>1, RequestFields DEF Receive, fileVars, processVars, IInv, ServerTypeOK, JobsTypeOK
  <2>3. r \in late' => r.op = "bid" /\ IsOver(r.id)
    BY <2>1, <2>2 DEF Receive, LateBidsWereSent
  <2>4. IsOver(r.id) => IsOver(r.id)'
    BY <2>2 DEF IsOver, DeadlinePassed
  <2> QED BY <2>2, <2>3, <2>4 DEF First, LateBidStopped
<1>4. CASE pc[w] # "idle" /\ pc'[w] # "idle"
  <2> DEFINE r == req[w]
  <2>1. req'[w] = r /\ r \in Requests /\ r.id \in Ids /\ answer[r] = "inService"
    BY <1>1, <1>4, ServiceStays, RequestFields DEF RequestAtHand
  <2> SUFFICES ASSUME r \in late' \ unread', r.id \notin spoilt'
               PROVE  /\ pc'[w] \in {"bidGet", "bidLogin", "bidPass", "bidActive"}
                      /\ IsOver(r.id)'
                      /\ pc'[w] # "bidGet" => end'[r.id] # "none"
    BY <2>1 DEF LateBidStopped
\* The request at hand was received before.
  <2>2. r \in late \ unread /\ r.id \notin spoilt
    BY <1>1, <2>1, LateSteps DEF HistoriesGrow, Receive
  <2>3. /\ pc[w] \in {"bidGet", "bidLogin", "bidPass", "bidActive"}
        /\ IsOver(r.id)' /\ IsOver(r.id)
        /\ pc[w] # "bidGet" => end[r.id] # "none" /\ end'[r.id] # "none"
    BY <1>1, <1>4, <2>1, <2>2, OverStays DEF LateBidStopped, Grows
  <2>4. CASE Job(w)' = Job(w)
    BY <2>3, <2>4 DEF Job
  <2>5. CASE <<pc[w], pc'[w]>> \in GetMoves /\ ReadAuction(w, r.id)
    <3>1. end' = Updated(r.id) /\ r.id # NoId
      BY <2>1, <2>5, NoneAssumption, BoundAssumption DEF ReadAuction, Ids
    <3>2. end'[r.id] # "none"
      BY <1>1, <2>1, <2>3, <3>1 DEF Updated, IsOver, IInv, ServerTypeOK, FilesTypeOK
    <3> QED BY <2>3, <2>5, <3>2 DEF GetMoves
  <2>6. CASE /\ <<pc[w], pc'[w]>> \in BidMoves
             /\ pc[w] = "bidActive" => AuctionIsActive(snap[w].id)
    <3>1. pc[w] = "bidActive" => snap[w].id = r.id /\ r.id # NoId
      BY <1>1, <2>1, <2>2, NoneAssumption, BoundAssumption DEF RequestAtHand, AfterGet, Ids
    <3>2. pc[w] # "bidActive"
      BY <2>3, <2>6, <3>1 DEF AuctionIsActive
    <3> QED BY <2>3, <2>6, <3>2 DEF BidMoves
  <2>7. ~Crash /\ (\A x \in Requests : ~Receive(w, x)) /\ pc[w] \notin OpenPcs
    BY <1>4, <2>3 DEF Crash, Receive, OpenPcs
  <2> QED BY <1>1, <1>4, <2>4, <2>5, <2>6, <2>7, JobSteps, Moves
<1> QED BY <1>2, <1>3, <1>4

LEMMA OffersKept ==
    ASSUME RecordInv, WorkersHonest, BidsAreOffers, [Next]_vars
    PROVE  BidsAreOffers'
<1>1. IInv /\ HistoriesGrow
  BY HistorySteps DEF RecordInv
<1> SUFFICES ASSUME NEW a \in Ids, a \notin spoilt', NEW v \in Values, bids'[a][v] # NoUser
             PROVE  /\ start'[a] # NoStart
                    /\ bids'[a][v] # start'[a].owner
                    /\ start'[a].value < v
  BY DEF BidsAreOffers
<1>2. a \notin spoilt /\ (start[a] # NoStart => start'[a] = start[a])
  BY <1>1, StartKept DEF HistoriesGrow
<1>3. CASE bids'[a][v] = bids[a][v]
  BY <1>2, <1>3 DEF BidsAreOffers
<1>4. CASE bids'[a][v] # bids[a][v]
  <2>1. PICK w \in Workers : WriteBid(w)
    BY <1>1, <1>4, BidSteps
  <2>2. /\ a = snap[w].id /\ a # NoId /\ v = req[w].value /\ bids'[a][v] = req[w].user
        /\ pc[w] = "bidWrite" /\ spoilt' = Touched(w)
    BY <1>1, <1>4, <2>1 DEF WriteBid, Step, IInv, ServerTypeOK, FilesTypeOK
  <2>3. req[w] \notin unread
    BY <2>2 DEF Touched
  <2>4. a = req[w].id /\ start[a] # NoStart
    BY <2>2, <2>3 DEF RecordInv, RequestsAtHand, RequestAtHand, AfterGet
  <2>5. req[w].user # start[a].owner /\ start[a].value < req[w].value
    BY <1>2, <2>2, <2>3, <2>4 DEF WorkersHonest, ReadTrue
  <2> QED BY <1>2, <2>2, <2>4, <2>5
<1> QED BY <1>3, <1>4

\* An END file needs an auction, and stands for its deadline or its owner.
LEMMA EndsKept ==
    ASSUME RecordInv, WorkersHonest, EndsHaveStarts, EndIsJustified, [Next]_vars
    PROVE  EndsHaveStarts' /\ EndIsJustified'
<1>1. IInv /\ IInv' /\ Grows /\ HistoriesGrow
  BY NextPreserves, GrowSteps, HistorySteps DEF RecordInv
<1> SUFFICES ASSUME NEW a \in Ids, a \notin spoilt', end'[a] # "none"
             PROVE  /\ start'[a] # NoStart
                    /\ end'[a] = "expired" => now' >= start'[a].opened + start'[a].duration
                    /\ end'[a] = "closed" =>
                         \E r \in Requests : /\ r.op = "close" /\ r.id = a
                                             /\ r.user = start'[a].owner
                                             /\ answer'[r] # "unsent"
  BY DEF EndsHaveStarts, EndIsJustified
<1>2. a \notin spoilt /\ (start[a] # NoStart => start'[a] = start[a])
  BY <1>1, StartKept DEF HistoriesGrow
<1>3. start[a] # NoStart => /\ now \in Nat /\ now' \in Nat
                            /\ start[a].opened \in Nat /\ start[a].duration \in Nat
  BY <1>1 DEF IInv, ServerTypeOK, ProcessTypeOK, FilesTypeOK, Starts, Times
<1>4. CASE end[a] # "none"
  BY <1>1, <1>2, <1>3, <1>4 DEF Grows, EndsHaveStarts, EndIsJustified
<1>5. CASE end'[a] = "expired" /\ start[a] # NoStart /\ DeadlinePassed(a)
  BY <1>1, <1>2, <1>3, <1>5 DEF DeadlinePassed, Grows
<1>6. ASSUME NEW w \in Workers, end'[a] = "closed", CloseAuction(w), snap[w].id = a,
             snap[w].owner = req[w].user
      PROVE  /\ start'[a] # NoStart
             /\ \E r \in Requests : /\ r.op = "close" /\ r.id = a
                                    /\ r.user = start'[a].owner
                                    /\ answer'[r] # "unsent"
  <2>1. /\ pc[w] = "closeEnd" /\ spoilt' = Touched(w) /\ req[w] \in Requests /\ a # NoId
    BY <1>1, <1>6, NoneAssumption, BoundAssumption
       DEF CloseAuction, IInv, JobsInOrder, JobOK, Ids
  <2>2. req[w] \notin unread
    BY <1>6, <2>1 DEF Touched
  <2>3. /\ req[w].op = "close" /\ req[w].id = a /\ start[a] # NoStart
        /\ answer[req[w]] # "unsent"
    BY <1>6, <2>1, <2>2 DEF RecordInv, RequestsAtHand, RequestAtHand, AfterGet, ClosePcs
  <2>4. req[w].user = start[a].owner
    BY <1>2, <1>6, <2>1, <2>2, <2>3 DEF WorkersHonest, ReadTrue, AfterGet
  <2> QED BY <1>1, <1>2, <2>1, <2>3, <2>4 DEF Grows
<1> QED BY <1>1, <1>4, <1>5, <1>6, EndCauses

LEMMA LateBidsKept ==
    ASSUME RecordInv, WorkersHonest, LateBidsWereSent, LateBidsRefused, [Next]_vars
    PROVE  LateBidsWereSent' /\ LateBidsRefused'
<1>1. IInv /\ IInv' /\ Grows /\ HistoriesGrow
  BY NextPreserves, GrowSteps, HistorySteps DEF RecordInv
<1>2. \A r \in late' : r \in Requests
  BY <1>1 DEF IInv, ServerTypeOK, HistoryTypeOK
<1>3. ASSUME NEW r \in late', r \notin late
      PROVE  answer'[r] = "inService"
  <2>1. PICK w \in Workers : Receive(w, r)
    BY <1>1, <1>3, LateSteps
  <2> QED BY <1>1, <1>2, <2>1 DEF Receive, IInv, ServerTypeOK, RepliesTypeOK
<1>4. ASSUME NEW r \in late' \ unread', r.id \notin spoilt', answer'[r] = "ACC"
      PROVE  FALSE
  <2>1. r \in Requests /\ r \in late \ unread /\ r.id \notin spoilt
    BY <1>1, <1>2, <1>3, <1>4 DEF HistoriesGrow
  <2>2. answer[r] # "ACC"
    BY <2>1 DEF LateBidsRefused
  <2>3. PICK w \in Workers : BidEntry(w) /\ req[w] = r
    BY <1>1, <1>4, <2>1, <2>2, ReplySteps
  <2> QED BY <2>1, <2>3 DEF BidEntry, WorkersHonest, LateBidStopped
<1>5. LateBidsWereSent'
  BY <1>1, <1>2, <1>3 DEF LateBidsWereSent, Grows
<1> QED BY <1>4, <1>5 DEF LateBidsRefused

LEMMA TradePreserved == TradeInv /\ [Next]_vars => TradeInv'
<1> SUFFICES ASSUME TradeInv, [Next]_vars PROVE TradeInv'
  OBVIOUS
<1> USE DEF TradeInv
<1>1. RecordInv'
  BY RecordPreserved
<1>2. WorkersHonest'
  BY ReadTrueKept, LateBidStoppedKept DEF WorkersHonest
<1>3. BidsAreOffers'
  BY OffersKept
<1>4. EndsHaveStarts' /\ EndIsJustified'
  BY EndsKept
<1>5. LateBidsWereSent' /\ LateBidsRefused'
  BY LateBidsKept
<1> QED BY <1>1, <1>2, <1>3, <1>4, <1>5

LEMMA TradeInvariance == Spec => []TradeInv
BY InitTradeInv, TradePreserved, PTL DEF Spec

\* An auction ends at its deadline or by a close of its owner's.
THEOREM EndIsJustifiedHolds == Spec => []EndIsJustified
<1>1. TradeInv => EndIsJustified
  BY DEF TradeInv
<1> QED BY <1>1, TradeInvariance, PTL

\* No bid that arrives when its auction is over is accepted, whoever was to
\* notice the end.
THEOREM LateBidsRefusedHolds == Spec => []LateBidsRefused
<1>1. TradeInv => LateBidsRefused
  BY DEF TradeInv
<1> QED BY <1>1, TradeInvariance, PTL

-----------------------------------------------------------------------------
(* The third part: the server implements the auction house.                *)

\* The lot that the house sees in a START file, the offers on it, and when it
\* is over; of a spoilt one it sees nothing.
Lot(a) == IF a \in spoilt \/ start[a] = NoStart THEN NoStart
          ELSE [owner |-> start[a].owner, value |-> start[a].value]

OffersOn(a) == IF a \in spoilt THEN [v \in Values |-> NoUser] ELSE bids[a]

Done(a) == a \notin spoilt /\ end[a] # "none" /\ BidsSettled(a)

Lots == [a \in Ids |-> Lot(a)]
Offers == [a \in Ids |-> OffersOn(a)]
Dones == [a \in Ids |-> Done(a)]

houseVars == <<Lots, Offers, Dones, spoilt>>

\* The steps of the house in these terms.
LEMMA HousePutUp ==
    ASSUME NEW a \in Ids, NEW u \in Users, NEW v \in Values, a \notin spoilt,
           Lots[a] = NoStart, Lots' = [Lots EXCEPT ![a] = [owner |-> u, value |-> v]],
           UNCHANGED <<Offers, Dones, spoilt>>
    PROVE  House!HNext
<1>1. House!PutUp(a)
  BY Zenon DEF House!PutUp, Lots, Lot, Offers, OffersOn, Dones, Done
<1> QED BY <1>1 DEF House!HNext

LEMMA HouseOffer ==
    ASSUME NEW a \in Ids, NEW u \in Users, NEW v \in Values,
           Lots[a] # NoStart, ~Dones[a], u # Lots[a].owner, v > Lots[a].value,
           Offers' = [Offers EXCEPT ![a][v] = u], UNCHANGED <<Lots, Dones, spoilt>>
    PROVE  House!HNext
<1>1. House!Offer(a, u, v)
  BY Zenon DEF House!Offer, House!Admissible, Lots, Lot, Offers, OffersOn, Dones, Done
<1> QED BY <1>1 DEF House!HNext

LEMMA HouseWithdraw ==
    ASSUME NEW a \in Ids, spoilt' = spoilt \cup {a},
           Lots' = [Lots EXCEPT ![a] = NoStart],
           Offers' = [Offers EXCEPT ![a] = [v \in Values |-> NoUser]],
           Dones' = [Dones EXCEPT ![a] = FALSE]
    PROVE  House!HNext
<1>1. House!Withdraw(a)
  BY Zenon DEF House!Withdraw, House!NoOffers, Lots, Lot, Offers, OffersOn, Dones, Done
<1> QED BY <1>1 DEF House!HNext

LEMMA HouseFinish ==
    ASSUME NEW done \in SUBSET Ids, done # {},
           \A a \in done : Lots[a] # NoStart /\ ~Dones[a],
           Dones' = [a \in Ids |-> Dones[a] \/ a \in done],
           UNCHANGED <<Lots, Offers, spoilt>>
    PROVE  House!HNext
<1>1. House!Finish(done)
  BY Zenon DEF House!Finish, Lots, Lot, Offers, OffersOn, Dones, Done
<1> QED BY <1>1 DEF House!HNext

\* A worker comes to write a bid past the look for the END file only, and to
\* enter it in the user's list by having written it.
LEMMA BidPath ==
    ASSUME RecordInv, [Next]_vars, NEW w \in Workers, pc'[w] \in {"bidWrite", "bidEntry"}
    PROVE  /\ snap'[w] = snap[w]
           /\ \/ pc[w] \in {"bidWrite", "bidEntry"}
              \/ pc[w] = "bidActive" /\ AuctionIsActive(snap[w].id)
<1>1. ASSUME NEW r \in Requests, Receive(w, r)
      PROVE  pc'[w] \notin {"bidWrite", "bidEntry"}
  <2>1. First(r.op) \in {"readCount", "closeGet", "assetGet", "bidGet"}
    BY RequestFields DEF First, Ops
  <2> QED BY <1>1, <2>1 DEF Receive, RecordInv, IInv, ServerTypeOK, JobsTypeOK
<1> QED BY <1>1, JobSteps, Moves
        DEF RecordInv, Job, Crash, OpenPcs, GetMoves, BidMoves

\* A lot that is over stays over, or is spoilt: no step brings another bid.
LEMMA DoneStays ==
    ASSUME RecordInv, [Next]_vars, NEW a \in Ids, a \notin spoilt', Done(a)
    PROVE  Done(a)'
<1>1. end'[a] # "none"
  BY GrowSteps DEF Grows, Done, RecordInv
<1>2. a # NoId
  BY NoneAssumption, BoundAssumption DEF Ids
<1>3. ASSUME NEW w \in Workers, pc'[w] \in {"bidWrite", "bidEntry"}
      PROVE  snap'[w].id # a
  BY <1>2, <1>3, BidPath DEF Done, BidsSettled, AuctionIsActive
<1> QED BY <1>1, <1>3 DEF Done, BidsSettled

\* A step that spoils an auction, and touches no other, withdraws it.
LEMMA WithdrawStep ==
    ASSUME NEW a \in Ids, spoilt' = spoilt \cup {a},
           \A b \in Ids \ {a} : /\ start'[b] = start[b] /\ bids'[b] = bids[b]
                                /\ Done(b)' = Done(b)
    PROVE  House!HNext
<1>1. Lots' = [Lots EXCEPT ![a] = NoStart]
  <2>1. \A b \in Ids : Lot(b)' = IF b = a THEN NoStart ELSE Lot(b)
    BY DEF Lot
  <2> QED BY <2>1 DEF Lots
<1>2. Offers' = [Offers EXCEPT ![a] = [v \in Values |-> NoUser]]
  <2>1. \A b \in Ids : OffersOn(b)' = IF b = a THEN [v \in Values |-> NoUser] ELSE OffersOn(b)
    BY DEF OffersOn
  <2> QED BY <2>1 DEF Offers
<1>3. Dones' = [Dones EXCEPT ![a] = FALSE]
  <2>1. \A b \in Ids : Done(b)' = IF b = a THEN FALSE ELSE Done(b)
    <3>1. Done(a)' = FALSE
      BY DEF Done
    <3> QED BY <3>1
  <2> QED BY <2>1 DEF Dones
<1> QED BY <1>1, <1>2, <1>3, HouseWithdraw

\* WriteStart puts up a lot, or takes one down by writing over its START.
LEMMA PutUpStep ==
    ASSUME RecordInv, [Next]_vars, NEW w \in Workers, WriteStart(w),
           start' # start \/ spoilt' # spoilt
    PROVE  [House!HNext]_houseVars
<1>1. IInv
  BY DEF RecordInv
<1>2. PICK u \in Users, v \in Values, s \in Starts :
        /\ num[w] \in Ids /\ s.owner = u /\ s.value = v
        /\ start' = [start EXCEPT ![num[w]] = s]
        /\ spoilt' = IF start[num[w]] = NoStart THEN spoilt ELSE spoilt \cup {num[w]}
  BY <1>1, StartWritten
<1>3. s # NoStart
  BY <1>2, NoneAssumption DEF Starts
<1>4. bids' = bids /\ end' = end
  BY DEF WriteStart
<1>5. \A a \in Ids : BidsSettled(a)' = BidsSettled(a)
  BY <1>1 DEF WriteStart, Step, Then, BidsSettled, IInv, ServerTypeOK, JobsTypeOK
<1>6. \A a \in Ids \ {num[w]} : start'[a] = start[a]
  BY <1>1, <1>2 DEF IInv, ServerTypeOK, FilesTypeOK
<1>7. CASE start[num[w]] # NoStart
  <2>1. \A b \in Ids \ {num[w]} : Done(b)' = Done(b)
    BY <1>2, <1>4, <1>5, <1>7 DEF Done
  <2> QED BY <1>2, <1>4, <1>6, <1>7, <2>1, WithdrawStep
<1>8. CASE start[num[w]] = NoStart
  <2>1. spoilt' = spoilt
    BY <1>2, <1>8
  <2>2. \A a \in Ids : Done(a)' = Done(a) /\ OffersOn(a)' = OffersOn(a)
    BY <1>4, <1>5, <2>1 DEF Done, OffersOn
  <2>3. Dones' = Dones /\ Offers' = Offers
    BY <2>2 DEF Dones, Offers
  <2>4. CASE num[w] \in spoilt
    <3>1. \A a \in Ids : Lot(a)' = Lot(a)
      BY <1>6, <2>1, <2>4 DEF Lot
    <3>2. Lots' = Lots
      BY <3>1 DEF Lots
    <3> QED BY <2>1, <2>3, <3>2 DEF houseVars
  <2>5. CASE num[w] \notin spoilt
    <3>1. start'[num[w]] = s
      BY <1>1, <1>2 DEF IInv, ServerTypeOK, FilesTypeOK
    <3>2. \A a \in Ids : Lot(a)' = IF a = num[w] THEN [owner |-> u, value |-> v] ELSE Lot(a)
      BY <1>2, <1>3, <1>6, <2>1, <2>5, <3>1 DEF Lot
    <3>3. Lots' = [Lots EXCEPT ![num[w]] = [owner |-> u, value |-> v]]
      BY <3>2 DEF Lots
    <3>4. Lots[num[w]] = NoStart
      BY <1>2, <1>8 DEF Lots, Lot
    <3> QED BY <1>2, <2>1, <2>3, <2>5, <3>3, <3>4, HousePutUp
  <2> QED BY <2>4, <2>5
<1> QED BY <1>7, <1>8

\* WriteBid makes an offer that the house admits: the checks still hold, and
\* the lot is not over while the bid is under way.  Or it withdraws the lot
\* that a worker has bid on without having read it.
LEMMA OfferStep ==
    ASSUME TradeInv, [Next]_vars, NEW w \in Workers, WriteBid(w),
           bids' # bids \/ spoilt' # spoilt
    PROVE  [House!HNext]_houseVars
<1> DEFINE a == snap[w].id
<1> DEFINE r == req[w]
<1>1. IInv /\ RecordInv
  BY DEF TradeInv, RecordInv
<1>2. /\ pc[w] = "bidWrite" /\ pc' = [pc EXCEPT ![w] = "bidEntry"]
      /\ bids' = [bids EXCEPT ![a][r.value] = r.user] /\ spoilt' = Touched(w)
      /\ a # NoId /\ UNCHANGED <<start, end, snap>>
  BY DEF WriteBid, Step
<1>3. /\ r \in Requests /\ r.user \in Users /\ r.value \in Values /\ a \in Ids
  BY <1>1, <1>2, RequestFields DEF IInv, ServerTypeOK, JobsTypeOK, Snapshots, JobsInOrder, JobOK
<1>4. \A b \in Ids : BidsSettled(b)' = BidsSettled(b)
  BY <1>1, <1>2 DEF BidsSettled, IInv, ServerTypeOK, JobsTypeOK
<1>5. \A b \in Ids \ {a} : bids'[b] = bids[b]
  BY <1>1, <1>2 DEF IInv, ServerTypeOK, FilesTypeOK
<1>6. CASE r \in unread
  <2>1. spoilt' = spoilt \cup {a}
    BY <1>2, <1>6 DEF Touched
  <2>2. \A b \in Ids \ {a} : Done(b)' = Done(b)
    BY <1>2, <1>4, <2>1 DEF Done
  <2> QED BY <1>2, <1>3, <1>5, <2>1, <2>2, WithdrawStep
<1>7. CASE r \notin unread
  <2>1. spoilt' = spoilt
    BY <1>2, <1>7 DEF Touched
  <2>2. \A b \in Ids : Done(b)' = Done(b) /\ Lot(b)' = Lot(b)
    BY <1>2, <1>4, <2>1 DEF Done, Lot
  <2>3. Lots' = Lots /\ Dones' = Dones
    BY <2>2 DEF Lots, Dones
  <2>4. CASE a \in spoilt
    <3>1. \A b \in Ids : OffersOn(b)' = OffersOn(b)
      BY <1>5, <2>1, <2>4 DEF OffersOn
    <3>2. Offers' = Offers
      BY <3>1 DEF Offers
    <3> QED BY <2>1, <2>3, <3>2 DEF houseVars
  <2>5. CASE a \notin spoilt
    <3>1. a = r.id /\ start[a] # NoStart
      BY <1>1, <1>2, <1>7 DEF RecordInv, RequestsAtHand, RequestAtHand, AfterGet
    <3>2. r.user # start[a].owner /\ start[a].value < r.value
      BY <1>2, <1>7, <2>5, <3>1 DEF TradeInv, WorkersHonest, ReadTrue
    <3>3. ~Dones[a]
      BY <1>2, <1>3 DEF Dones, Done, BidsSettled
    <3>4. Lots[a] = [owner |-> start[a].owner, value |-> start[a].value]
      BY <1>3, <2>5, <3>1 DEF Lots, Lot
    <3>5. start[a].owner \in Users /\ start[a].value \in Values
      BY <1>1, <1>3, <3>1 DEF IInv, ServerTypeOK, FilesTypeOK, Starts
    <3>6. Lots[a] # NoStart
      BY <3>4, <3>5, NoneAssumption
    <3>7. r.user # Lots[a].owner /\ r.value > Lots[a].value
      BY <1>3, <3>2, <3>4, <3>5, ValueAssumption
    <3>8. bids'[a] = [bids[a] EXCEPT ![r.value] = r.user]
      BY <1>1, <1>2, <1>3 DEF IInv, ServerTypeOK, FilesTypeOK
    <3>9. \A b \in Ids : OffersOn(b)' = IF b = a THEN [OffersOn(a) EXCEPT ![r.value] = r.user]
                                       ELSE OffersOn(b)
      BY <1>5, <2>1, <2>5, <3>8 DEF OffersOn
    <3>10. Offers' = [Offers EXCEPT ![a][r.value] = r.user]
      <4> HIDE DEF a, r
      <4> QED BY <1>3, <3>9 DEF Offers
    <3> QED BY <1>3, <2>1, <2>3, <3>3, <3>6, <3>7, <3>10, HouseOffer
  <2> QED BY <2>4, <2>5
<1> QED BY <1>6, <1>7

\* A worker that closes an auction without having read it withdraws the lot.
LEMMA CloseStep ==
    ASSUME TradeInv, [Next]_vars, NEW w \in Workers, CloseAuction(w), spoilt' # spoilt
    PROVE  House!HNext
<1> DEFINE a == snap[w].id
<1>1. IInv
  BY DEF TradeInv, RecordInv
<1>2. /\ a \in Ids /\ spoilt' = spoilt \cup {a} /\ end' \in {end, Closed(a)}
      /\ UNCHANGED <<start, bids>> /\ Answer(w, "OK") /\ pc[w] = "closeEnd"
  BY <1>1 DEF CloseAuction, SaveEnd, Touched, IInv, ServerTypeOK, JobsTypeOK, Snapshots
<1>3. \A b \in Ids \ {a} : end'[b] = end[b]
  BY <1>1, <1>2 DEF Closed, IInv, ServerTypeOK, FilesTypeOK
<1>4. \A b \in Ids : BidsSettled(b)' = BidsSettled(b)
  BY <1>1, <1>2 DEF BidsSettled, Answer, IInv, ServerTypeOK, JobsTypeOK
<1>5. \A b \in Ids \ {a} : Done(b)' = Done(b)
  BY <1>2, <1>3, <1>4 DEF Done
<1> QED BY <1>2, <1>5, WithdrawStep

\* Every other step leaves the house alone or finishes lots: the one whose END
\* file or last bid it deals with, or in a crash all those with an END file.
LEMMA FinishStep ==
    ASSUME TradeInv, [Next]_vars, UNCHANGED <<start, bids, spoilt>>
    PROVE  [House!HNext]_houseVars
<1>1. IInv /\ RecordInv /\ TradeInv'
  BY TradePreserved DEF TradeInv, RecordInv
<1>2. Lots' = Lots /\ Offers' = Offers
  BY DEF Lots, Lot, Offers, OffersOn
<1> DEFINE done == {a \in Ids : Done(a)' /\ ~Done(a)}
<1>3. \A a \in Ids : Done(a) => Done(a)'
  BY <1>1, DoneStays DEF Done
<1>4. \A a \in Ids : Done(a)' \in BOOLEAN /\ Done(a) \in BOOLEAN
  BY DEF Done
<1>5. \A a \in Ids : Done(a)' = (Done(a) \/ a \in done)
  BY <1>3, <1>4
<1>6. CASE done = {}
  <2>1. \A a \in Ids : Done(a)' = Done(a)
    BY <1>4, <1>5, <1>6
  <2> QED BY <1>2, <2>1 DEF Dones, houseVars
<1>7. CASE done # {}
  <2>1. Dones' = [a \in Ids |-> Dones[a] \/ a \in done]
    BY <1>5 DEF Dones
  <2>2. ASSUME NEW a \in done
        PROVE  Lots[a] # NoStart /\ ~Dones[a]
    <3>1. a \in Ids /\ ~Done(a) /\ end'[a] # "none" /\ a \notin spoilt
      BY DEF Done
    <3>2. start[a] # NoStart
      BY <1>1, <3>1 DEF TradeInv, EndsHaveStarts
    <3>3. start[a].owner \in Users /\ start[a].value \in Values
      BY <1>1, <3>1, <3>2 DEF IInv, ServerTypeOK, FilesTypeOK, Starts
    <3>4. Lots[a] = [owner |-> start[a].owner, value |-> start[a].value]
      BY <3>1, <3>2 DEF Lots, Lot
    <3> QED BY <3>1, <3>3, <3>4, NoneAssumption DEF Dones
  <2>3. done \in SUBSET Ids
    OBVIOUS
  <2> HIDE DEF done
  <2> QED BY <1>2, <1>7, <2>1, <2>2, <2>3, HouseFinish
<1> QED BY <1>6, <1>7

\* Only these steps spoil an auction.
LEMMA SpoilSteps ==
    ASSUME IInv, [Next]_vars
    PROVE  \/ spoilt' = spoilt
           \/ \E w \in Workers : WriteStart(w) \/ WriteBid(w) \/ CloseAuction(w)
<1>1. ASSUME NEW w \in Workers, WorkerStep(w), ~(WriteStart(w) \/ WriteBid(w) \/ CloseAuction(w))
      PROVE  spoilt' = spoilt
  <2> USE DEF historyVars
  <2>1. CASE \/ \E r \in Requests : Receive(w, r)
             \/ ReadCount(w) \/ WriteCount(w)
             \/ CheckLogin(w, "openLogin", "openPass") \/ OpenPassword(w)
             \/ Host(w) \/ MakeDirectory(w) \/ MakeBidsDirectory(w) \/ OpenReply(w)
    BY <2>1 DEF Receive, ReadCount, WriteCount, CheckLogin, OpenPassword, Host,
       MakeDirectory, MakeBidsDirectory, OpenReply
  <2>2. CASE Reads(w) \/ ShowAsset(w)
    BY <2>2 DEF Reads, GetAuction, ShowAsset
  <2>3. CASE CheckLogin(w, "bidLogin", "bidPass") \/ BidChecks(w) \/ BidActive(w) \/ BidEntry(w)
    BY <2>3 DEF CheckLogin, BidChecks, BidActive, BidEntry
  <2> QED BY <1>1, <2>1, <2>2, <2>3 DEF WorkerStep, Reads
<1>2. CASE UdpStep
  BY <1>2 DEF UdpStep, AccountRequest, HandleLogin, HandleLogout, HandleUnregister,
     SecondFile, Refresh, historyVars
<1>3. CASE \/ Tick \/ Shutdown \/ EveryoneLeft \/ Restart \/ Crash \/ UNCHANGED vars
           \/ \E u \in Users : LogOneOut(u)
  BY <1>3 DEF Tick, Shutdown, EveryoneLeft, LogOneOut, Restart, Crash, Boot, historyVars, vars
<1> QED BY <1>1, <1>2, <1>3 DEF Next

LEMMA HouseStep ==
    ASSUME TradeInv, [Next]_vars
    PROVE  [House!HNext]_(House!hvars)
<1>1. IInv /\ RecordInv
  BY DEF TradeInv, RecordInv
<1>2. [House!HNext]_houseVars
  <2>1. CASE UNCHANGED <<start, bids, spoilt>>
    BY <2>1, FinishStep
  <2>2. ASSUME NEW w \in Workers, WriteStart(w), ~UNCHANGED <<start, bids, spoilt>>
        PROVE  [House!HNext]_houseVars
    BY <1>1, <2>2, PutUpStep DEF WriteStart
  <2>3. ASSUME NEW w \in Workers, WriteBid(w), ~UNCHANGED <<start, bids, spoilt>>
        PROVE  [House!HNext]_houseVars
    BY <2>3, OfferStep DEF WriteBid
  <2>4. ASSUME NEW w \in Workers, CloseAuction(w), ~UNCHANGED <<start, bids, spoilt>>
        PROVE  [House!HNext]_houseVars
    BY <2>4, CloseStep DEF CloseAuction
  <2> QED BY <1>1, <2>1, <2>2, <2>3, <2>4, StartSteps, BidSteps, SpoilSteps
<1> QED BY Zenon, <1>2
        DEF House!hvars, houseVars, Lots, Lot, Offers, OffersOn, Dones, Done

LEMMA InitHouse == Init => House!HInit
<1> SUFFICES ASSUME Init PROVE House!HInit
  OBVIOUS
<1>1. /\ Lots = [a \in Ids |-> NoStart]
      /\ Offers = [a \in Ids |-> [v \in Values |-> NoUser]]
  BY DEF Init, Lots, Lot, Offers, OffersOn
<1>2. \A a \in Ids : Done(a) = FALSE
  BY DEF Init, Done
<1>3. Dones = [a \in Ids |-> FALSE] /\ spoilt = {}
  BY <1>2 DEF Init, Dones
<1> QED BY Zenon, <1>1, <1>3
        DEF House!HInit, House!NoOffers, Lots, Lot, Offers, OffersOn, Dones, Done

\* With any number of workers, whatever fails or dies, the server is an auction
\* house: each lot is put up once, offers are made by others than its owner and
\* above its start value, a lot that is over stays as it is, and one that is
\* withdrawn never comes back.
THEOREM HouseImplemented == Spec => ImplementsHouse
<1>1. TradeInv /\ [Next]_vars => [House!HNext]_(House!hvars)
  BY HouseStep
<1> QED BY <1>1, TradeInvariance, InitHouse, PTL DEF Spec, ImplementsHouse, House!HouseSpec
=============================================================================
