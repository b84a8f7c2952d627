------------------------ MODULE AuctionServer_proofs ------------------------
(***************************************************************************)
(* Proofs about AuctionServer, for any users, workers, requests, ids and   *)
(* bounds, with crashes and restarts at any point.  The inductive          *)
(* invariant IInv adds to the properties how far each open request has     *)
(* come: what the sections behind a worker have put on disk, as long as it *)
(* met no file that could not be made, and the first of the two files of a *)
(* request that creates or removes an account.                             *)
(***************************************************************************)
EXTENDS AuctionServer, FiniteSetTheorems, WellFoundedInduction, TLAPS

\* What is on disk of the auction that worker w opens.
JobOK(w) ==
    /\ pc[w] # "idle" => req[w] \in Requests
    /\ pc[w] \in OpenPcs => req[w].op = "open"
    /\ pc[w] = "writeCount" => num[w] > 0
    /\ pc[w] \in OpenPcs \ {"readCount", "writeCount"} => num[w] \in Ids
    /\ req[w] \notin failed =>
        /\ pc[w] \in {"mkdir", "startFile", "bidsFolder", "openReply"} =>
            num[w] \in hosted[req[w].user]
        /\ pc[w] \in {"startFile", "bidsFolder", "openReply"} => made[num[w]]
        /\ pc[w] \in {"bidsFolder", "openReply"} => start[num[w]] # NoStart
        /\ pc[w] = "openReply" => bidsDir[num[w]]

JobsInOrder == \A w \in Workers : JobOK(w)

\* Between two files of a request of the UDP thread.
AccountsInOrder ==
    /\ udpPc # "idle" => udpUser \in Users
    /\ udpPc = "sign" => UserRegistered(udpUser) \/ udpUser \in keyless
    /\ udpPc = "erase" => ~UserLoggedIn(udpUser)

\* A history forgets nothing.
HistoriesGrow ==
    /\ late \subseteq late' /\ failed \subseteq failed'
    /\ unread \subseteq unread' /\ spoilt \subseteq spoilt'
    /\ HistoryTypeOK'

IInv ==
    /\ ServerTypeOK
    /\ JobsInOrder
    /\ AccountsInOrder
    /\ SessionsHaveAccounts
    /\ HostedBeforeStart
    /\ AnnouncedIsComplete

\* What the constants' assumptions say of a request.
LEMMA RequestFields ==
    ASSUME NEW r \in Requests
    PROVE  /\ r \in RequestType
           /\ r.op \in Ops
           /\ r.user \in Users
           /\ r.id \in Ids
           /\ r.value \in Values
           /\ r.duration \in Nat
           /\ r # NoRequest
BY RequestAssumption, NoneAssumption DEF RequestType

LEMMA InitIInv == Init => IInv
<1> SUFFICES ASSUME Init PROVE IInv
  OBVIOUS
<1> USE DEF Init, AccountsInit
<1>1. AccountsTypeOK /\ FilesTypeOK
  BY DEF AccountsTypeOK, FilesTypeOK
<1>2. ProcessTypeOK
  BY BoundAssumption DEF ProcessTypeOK, Times
<1>3. JobsTypeOK
  BY BoundAssumption DEF JobsTypeOK, Pcs, Times, Snapshots, NoSnapshot
<1>4. RepliesTypeOK /\ HistoryTypeOK
  BY DEF RepliesTypeOK, Statuses, HistoryTypeOK
<1>5. JobsInOrder
  BY DEF JobsInOrder, JobOK, OpenPcs
<1>6. AccountsInOrder /\ SessionsHaveAccounts /\ HostedBeforeStart
  BY DEF AccountsInOrder, SessionsHaveAccounts, UserLoggedIn, HostedBeforeStart
<1>7. AnnouncedIsComplete
  BY DEF AnnouncedIsComplete, Announced
<1> QED BY <1>1, <1>2, <1>3, <1>4, <1>5, <1>6, <1>7 DEF IInv, ServerTypeOK

-----------------------------------------------------------------------------
(* The ways in which a worker leaves a step.                               *)

LEMMA HistoriesKept ==
    ASSUME IInv, UNCHANGED historyVars
    PROVE  HistoriesGrow
BY DEF IInv, ServerTypeOK, HistoryTypeOK, HistoriesGrow, historyVars

\* A request of a worker that meets a bad file, or reads none, is a request,
\* and what it spoils is an auction.
LEMMA WorkerHistories ==
    ASSUME IInv, NEW w \in Workers, WorkerStep(w)
    PROVE  HistoriesGrow
<1> USE DEF IInv, ServerTypeOK, HistoryTypeOK, HistoriesGrow, Step
<1>1. pc[w] # "idle" => req[w] \in Requests
  BY DEF JobsInOrder, JobOK
<1>2. pc[w] \in OpenPcs \ {"readCount", "writeCount"} => num[w] \in Ids
  BY DEF JobsInOrder, JobOK
<1>3. Touched(w) \in SUBSET Ids /\ spoilt \subseteq Touched(w)
  BY DEF Touched, JobsTypeOK, Snapshots
<1>4. Fails(w) /\ pc[w] # "idle" => failed \subseteq failed' /\ failed' \in SUBSET Requests
  BY <1>1 DEF Fails
<1>5. CASE \E r \in Requests : Receive(w, r)
  BY <1>5 DEF Receive
<1>6. CASE \/ ReadCount(w) \/ WriteCount(w)
           \/ CheckLogin(w, "openLogin", "openPass") \/ OpenPassword(w) \/ OpenReply(w)
           \/ CheckLogin(w, "bidLogin", "bidPass") \/ BidChecks(w) \/ BidActive(w)
  BY <1>6, HistoriesKept
     DEF ReadCount, WriteCount, CheckLogin, OpenPassword, OpenReply, BidChecks, BidActive
<1>7. CASE Host(w) \/ MakeDirectory(w) \/ MakeBidsDirectory(w) \/ BidEntry(w)
  BY <1>4, <1>7 DEF Host, MakeDirectory, MakeBidsDirectory, BidEntry
<1>8. CASE WriteStart(w)
  BY <1>2, <1>4, <1>8 DEF WriteStart, OpenPcs
<1>9. CASE \/ GetAuction(w, "closeGet", "closeEnd", "EAU")
           \/ GetAuction(w, "assetGet", "assetShow", "NOK")
           \/ GetAuction(w, "bidGet", "bidLogin", "NOK")
  BY <1>1, <1>4, <1>9 DEF GetAuction, ReadAuction
<1>10. CASE CloseAuction(w) \/ WriteBid(w)
  BY <1>3, <1>4, <1>10 DEF CloseAuction, WriteBid, SaveEnd
<1>11. CASE ShowAsset(w)
  BY <1>4, <1>11 DEF ShowAsset, SaveEnd
<1> QED BY <1>5, <1>6, <1>7, <1>8, <1>9, <1>10, <1>11 DEF WorkerStep

\* Nothing but a change to an account, to an auction's files or to the ids
\* given out bears on the properties of the files.
LEMMA FilesUnchanged ==
    ASSUME IInv, HistoriesGrow, UNCHANGED <<accountVars, hosted, made, start, bidsDir, given>>
    PROVE  /\ AccountsInOrder' /\ SessionsHaveAccounts'
           /\ HostedBeforeStart' /\ AnnouncedIsComplete'
BY DEF IInv, HistoriesGrow, accountVars, AccountsInOrder, SessionsHaveAccounts, UserLoggedIn,
       UserRegistered, HostedBeforeStart, AnnouncedIsComplete, Announced

LEMMA AnnouncedIds ==
    ASSUME IInv
    PROVE  Announced \subseteq Ids
BY DEF IInv, ServerTypeOK, RepliesTypeOK, Announced

\* A worker that answers has nothing left to promise.
LEMMA AnswerPreserves ==
    ASSUME IInv, HistoriesGrow, NEW w \in Workers, NEW s \in Statuses, Answer(w, s),
           pc[w] # "idle", UNCHANGED <<hosted, made, start, bidsDir>>
    PROVE  JobsTypeOK' /\ JobsInOrder' /\ answer' \in [Requests -> Statuses]
<1> USE DEF IInv, ServerTypeOK, HistoriesGrow, Answer
<1>1. JobsTypeOK'
  BY BoundAssumption DEF JobsTypeOK, Pcs, Times, Snapshots, NoSnapshot
<1>2. JobsInOrder'
  BY DEF JobsTypeOK, JobsInOrder, JobOK, OpenPcs
<1>3. answer' \in [Requests -> Statuses]
  BY DEF JobsInOrder, JobOK, RepliesTypeOK
<1> QED BY <1>1, <1>2, <1>3

\* The places at which a worker has nothing on disk to rely on.
FreePcs == ClosePcs \cup AssetPcs \cup BidPcs

\* Going on to such a place, with at most the snapshot changed.
LEMMA GoOnPreserves ==
    ASSUME IInv, HistoriesGrow, NEW w \in Workers, NEW from, NEW to \in FreePcs, from # "idle",
           Step(w, from, to), UNCHANGED <<req, num, opened, hosted, made, start, bidsDir>>,
           snap' \in [Workers -> Snapshots]
    PROVE  JobsTypeOK' /\ JobsInOrder'
<1> USE DEF IInv, ServerTypeOK, HistoriesGrow, Step, FreePcs, ClosePcs, AssetPcs, BidPcs
<1>1. JobsTypeOK'
  BY DEF JobsTypeOK, Pcs
<1>2. JobsInOrder'
  BY DEF JobsTypeOK, JobsInOrder, JobOK, OpenPcs
<1> QED BY <1>1, <1>2

-----------------------------------------------------------------------------
(* The steps of an open request.                                           *)

LEMMA ReceivePreserves ==
    ASSUME IInv, HistoriesGrow, NEW w \in Workers, NEW r \in Requests, Receive(w, r)
    PROVE  IInv'
<1> USE DEF Receive, IInv, ServerTypeOK, HistoriesGrow, fileVars, processVars
<1>1. AccountsTypeOK' /\ FilesTypeOK' /\ ProcessTypeOK'
  BY DEF AccountsTypeOK, accountVars, FilesTypeOK, ProcessTypeOK
<1>2. /\ First(r.op) \in {"readCount", "closeGet", "assetGet", "bidGet"}
      /\ First(r.op) = "readCount" => r.op = "open"
  BY RequestFields DEF First, Ops
<1>3. JobsTypeOK'
  BY <1>2 DEF JobsTypeOK, Pcs, OpenPcs, ClosePcs, AssetPcs, BidPcs
<1>4. JobsInOrder'
  BY <1>2 DEF JobsInOrder, JobOK, JobsTypeOK, OpenPcs
<1>5. RepliesTypeOK' /\ HistoryTypeOK'
  BY DEF RepliesTypeOK, Statuses
<1> QED BY <1>1, <1>3, <1>4, <1>5, FilesUnchanged

\* The counter's value becomes the number of the auction; WriteCount lets no
\* number pass that is not an id.
LEMMA CountPreserves ==
    ASSUME IInv, HistoriesGrow, NEW w \in Workers, ReadCount(w) \/ WriteCount(w)
    PROVE  IInv'
<1> USE DEF IInv, ServerTypeOK, HistoriesGrow, fileVars, replyVars
<1>1. CASE ReadCount(w)
  <2> USE <1>1 DEF ReadCount, Step, processVars
  <2>1. AccountsTypeOK' /\ FilesTypeOK' /\ ProcessTypeOK' /\ RepliesTypeOK'
    BY DEF AccountsTypeOK, accountVars, FilesTypeOK, ProcessTypeOK, RepliesTypeOK
  <2>2. JobsTypeOK'
    BY DEF JobsTypeOK, ProcessTypeOK, Pcs, OpenPcs
  <2>3. JobsInOrder'
    BY DEF JobsInOrder, JobOK, JobsTypeOK, ProcessTypeOK, OpenPcs
  <2> QED BY <2>1, <2>2, <2>3, FilesUnchanged
<1>2. CASE WriteCount(w)
  <2> USE <1>2 DEF WriteCount, IdTooLarge, NextCount
  <2>1. AccountsTypeOK' /\ FilesTypeOK'
    BY DEF AccountsTypeOK, accountVars, FilesTypeOK
  <2>2. ProcessTypeOK'
    BY DEF ProcessTypeOK, JobsTypeOK
  <2>3. AccountsInOrder' /\ SessionsHaveAccounts' /\ HostedBeforeStart' /\ AnnouncedIsComplete'
    BY FilesUnchanged
  <2>4. CASE num[w] > MaxId
    <3>1. JobsTypeOK' /\ JobsInOrder' /\ answer' \in [Requests -> Statuses]
      BY <2>4, AnswerPreserves DEF Statuses
    <3>2. RepliesTypeOK'
      BY <3>1 DEF RepliesTypeOK
    <3> QED BY <2>1, <2>2, <2>3, <3>1, <3>2
  <2>5. CASE ~(num[w] > MaxId)
    <3>1. JobsTypeOK' /\ RepliesTypeOK'
      BY <2>5 DEF Step, JobsTypeOK, Pcs, OpenPcs, RepliesTypeOK
    <3>2. num[w] \in Ids
      BY <2>5, BoundAssumption DEF JobsInOrder, JobOK, JobsTypeOK, Ids
    <3>3. JobsInOrder'
      BY <2>5, <3>2 DEF Step, JobsTypeOK, JobsInOrder, JobOK, OpenPcs
    <3> QED BY <2>1, <2>2, <2>3, <3>1, <3>3
  <2> QED BY <2>4, <2>5
<1> QED BY <1>1, <1>2

\* The checks that openAuction makes before it writes anything.
LEMMA OpenChecksPreserve ==
    ASSUME IInv, HistoriesGrow, NEW w \in Workers,
           CheckLogin(w, "openLogin", "openPass") \/ OpenPassword(w)
    PROVE  IInv'
<1> USE DEF IInv, ServerTypeOK, HistoriesGrow, fileVars, processVars, CheckLogin,
            OpenPassword, Then
<1>1. AccountsTypeOK' /\ FilesTypeOK' /\ ProcessTypeOK'
  BY DEF AccountsTypeOK, accountVars, FilesTypeOK, ProcessTypeOK
<1>2. AccountsInOrder' /\ SessionsHaveAccounts' /\ HostedBeforeStart' /\ AnnouncedIsComplete'
  BY FilesUnchanged
<1>3. CASE \E s \in {"NLG", "NOK"} : Answer(w, s)
  <2>1. JobsTypeOK' /\ JobsInOrder' /\ answer' \in [Requests -> Statuses]
    BY <1>3, AnswerPreserves DEF Statuses
  <2>2. RepliesTypeOK'
    BY <2>1 DEF RepliesTypeOK
  <2> QED BY <1>1, <1>2, <2>1, <2>2
<1>4. CASE /\ \/ Step(w, "openLogin", "openPass")
              \/ Step(w, "openPass", "host")
           /\ UNCHANGED <<req, num, opened, snap, answer>>
  <2>1. JobsTypeOK' /\ RepliesTypeOK'
    BY <1>4 DEF Step, JobsTypeOK, Pcs, OpenPcs, RepliesTypeOK
  <2>2. JobsInOrder'
    BY <1>4 DEF Step, JobsTypeOK, JobsInOrder, JobOK, OpenPcs
  <2> QED BY <1>1, <1>2, <2>1, <2>2
<1> QED BY <1>3, <1>4

\* Each section of openAuction puts its file on disk, or is set down as failed,
\* and takes none away, so that it leaves every other worker's promise as it
\* was.
LEMMA OpenFilesPreserve ==
    ASSUME IInv, HistoriesGrow, NEW w \in Workers,
           Host(w) \/ MakeDirectory(w) \/ WriteStart(w) \/ MakeBidsDirectory(w)
    PROVE  IInv'
<1> USE DEF IInv, ServerTypeOK, HistoriesGrow, processVars, replyVars, Then, Step
<1>1. /\ req[w] \in Requests
      /\ num[w] \in Ids
      /\ req[w].user \in Users
      /\ req[w].op = "open"
      /\ [owner |-> req[w].user, value |-> req[w].value, opened |-> opened[w],
          duration |-> req[w].duration] \in Starts
  BY RequestFields DEF Host, MakeDirectory, WriteStart, MakeBidsDirectory,
                       JobsInOrder, JobOK, JobsTypeOK, OpenPcs, Starts
<1>2. NoStart \notin Starts
  BY NoneAssumption DEF Starts
<1>3. /\ AccountsTypeOK' /\ ProcessTypeOK' /\ RepliesTypeOK'
      /\ AccountsInOrder' /\ SessionsHaveAccounts'
  BY DEF Host, MakeDirectory, WriteStart, MakeBidsDirectory, AccountsTypeOK,
         accountVars, ProcessTypeOK, RepliesTypeOK,
         AccountsInOrder, SessionsHaveAccounts,
         UserLoggedIn, UserRegistered
<1>4. FilesTypeOK'
  <2>1. CASE Host(w)
    <3>1. hosted[req[w].user] \cup {num[w]} \in SUBSET Ids
      BY <1>1 DEF FilesTypeOK
    <3>2. hosted' \in [Users -> SUBSET Ids]
      BY <1>1, <2>1, <3>1 DEF Host, FilesTypeOK, Fails
    <3> QED BY <2>1, <3>2 DEF Host, FilesTypeOK
  <2>2. CASE MakeDirectory(w)
    BY <2>2 DEF MakeDirectory, FilesTypeOK
  <2>3. CASE WriteStart(w)
    BY <1>1, <2>3 DEF WriteStart, FilesTypeOK
  <2>4. CASE MakeBidsDirectory(w)
    BY <2>4 DEF MakeBidsDirectory, FilesTypeOK
  <2> QED BY <2>1, <2>2, <2>3, <2>4
<1>5. JobsTypeOK'
  BY DEF Host, MakeDirectory, WriteStart, MakeBidsDirectory, JobsTypeOK, Pcs, OpenPcs
<1>6. CASE Host(w)
  <2>1. \A u \in Users : hosted[u] \subseteq hosted'[u]
    BY <1>1, <1>6 DEF Host, FilesTypeOK
  <2>2. JobsInOrder'
    BY <1>1, <1>6, <2>1, RequestFields DEF Host, Fails, JobsInOrder, JobOK, JobsTypeOK,
       FilesTypeOK, OpenPcs
  <2>3. HostedBeforeStart' /\ AnnouncedIsComplete'
    BY <1>6, <2>1 DEF Host, HostedBeforeStart, AnnouncedIsComplete, Announced,
       FilesTypeOK, Starts
  <2> QED BY <1>3, <1>4, <1>5, <2>2, <2>3
<1>7. CASE MakeDirectory(w)
  <2>1. JobsInOrder'
    BY <1>1, <1>7 DEF MakeDirectory, Fails, JobsInOrder, JobOK, JobsTypeOK, FilesTypeOK, OpenPcs
  <2>2. HostedBeforeStart'
    BY <1>7 DEF MakeDirectory, HostedBeforeStart
  <2>3. \A a \in Ids : made[a] => made'[a]
    BY <1>7 DEF MakeDirectory, FilesTypeOK
  <2>4. AnnouncedIsComplete'
    BY <1>7, <2>3, AnnouncedIds DEF MakeDirectory, AnnouncedIsComplete, Announced
  <2> QED BY <1>3, <1>4, <1>5, <2>1, <2>2, <2>4
<1>8. CASE WriteStart(w)
  <2>1. num[w] \in hosted[req[w].user] \/ req[w] \in failed
    BY <1>8 DEF WriteStart, JobsInOrder, JobOK
  <2>2. JobsInOrder'
    BY <1>1, <1>2, <1>8 DEF WriteStart, Fails, JobsInOrder, JobOK, JobsTypeOK, FilesTypeOK,
       OpenPcs
  <2>3. \A a \in Ids : \/ start'[a] = start[a]
                       \/ a = num[w] /\ start'[a] # NoStart /\ start'[a].owner = req[w].user
    BY <1>1, <1>2, <1>8 DEF WriteStart, FilesTypeOK
  <2>4. HostedBeforeStart'
    BY <1>1, <1>8, <2>1, <2>3 DEF WriteStart, HostedBeforeStart
  <2>5. AnnouncedIsComplete'
    BY <1>8, <2>3, AnnouncedIds DEF WriteStart, AnnouncedIsComplete, Announced
  <2> QED BY <1>3, <1>4, <1>5, <2>2, <2>4, <2>5
<1>9. CASE MakeBidsDirectory(w)
  <2>1. JobsInOrder'
    BY <1>1, <1>9 DEF MakeBidsDirectory, Fails, JobsInOrder, JobOK, JobsTypeOK, FilesTypeOK,
       OpenPcs
  <2>2. HostedBeforeStart'
    BY <1>9 DEF MakeBidsDirectory, HostedBeforeStart
  <2>3. \A a \in Ids : bidsDir[a] => bidsDir'[a]
    BY <1>9 DEF MakeBidsDirectory, FilesTypeOK
  <2>4. AnnouncedIsComplete'
    BY <1>9, <2>3, AnnouncedIds DEF MakeBidsDirectory, AnnouncedIsComplete, Announced
  <2> QED BY <1>3, <1>4, <1>5, <2>1, <2>2, <2>4
<1> QED BY <1>6, <1>7, <1>8, <1>9

\* The id is given out when everything it stands for is on disk, or could not
\* be put there.
LEMMA OpenReplyPreserves ==
    ASSUME IInv, HistoriesGrow, NEW w \in Workers, OpenReply(w)
    PROVE  IInv'
<1> USE DEF IInv, ServerTypeOK, HistoriesGrow, fileVars, processVars, OpenReply
<1>1. AccountsTypeOK' /\ FilesTypeOK' /\ ProcessTypeOK'
  BY DEF AccountsTypeOK, accountVars, FilesTypeOK, ProcessTypeOK
<1>2. JobsTypeOK' /\ JobsInOrder' /\ answer' \in [Requests -> Statuses]
  BY AnswerPreserves DEF Statuses
<1>3. /\ num[w] \in Ids /\ req[w] \in Requests
      /\ \/ req[w] \in failed
         \/ made[num[w]] /\ start[num[w]] # NoStart /\ bidsDir[num[w]]
  BY DEF JobsInOrder, JobOK, OpenPcs
<1>4. RepliesTypeOK'
  BY <1>2, <1>3 DEF RepliesTypeOK
<1>5. AccountsInOrder' /\ SessionsHaveAccounts' /\ HostedBeforeStart'
  BY DEF AccountsInOrder, SessionsHaveAccounts, UserLoggedIn, UserRegistered, accountVars, HostedBeforeStart
<1>6. AnnouncedIsComplete'
  BY <1>3 DEF AnnouncedIsComplete, Announced, RepliesTypeOK, historyVars
<1> QED BY <1>1, <1>2, <1>4, <1>5, <1>6

-----------------------------------------------------------------------------
(* The steps of close, show_asset and bid requests: of the files they write  *)
(* only END, a bid and a BIDDED entry.                                       *)

\* What UpdateAuction and closeAuction make of the END files.
LEMMA EndFiles ==
    ASSUME IInv, NEW a \in Ids \cup {NoId}, end' \in {end, Updated(a), Closed(a)}
    PROVE  /\ end' \in [Ids -> {"none", "expired", "closed"}]
           /\ \A b \in Ids : end[b] # "none" => end'[b] = end[b]
BY NoneAssumption DEF Updated, Closed, IInv, ServerTypeOK, FilesTypeOK

\* Naturals are well founded, in the form in which WFMin can use it.
LEMMA LessIsWellFounded == IsWellFoundedOn({ss \in Nat \X Nat : ss[1] < ss[2]}, Nat)
BY NatLessThanWellFounded DEF OpToRel

\* Max is what its name says on any set of bid values: the value that is the
\* least below the largest of them all.
LEMMA MaxIsGreatest ==
    ASSUME NEW S \in SUBSET Values, S # {}
    PROVE  Max(S) \in S /\ \A v \in S : v <= Max(S)
<1> DEFINE Less == {ss \in Nat \X Nat : ss[1] < ss[2]}
<1>1. PICK m \in Values : \A v \in Values : v <= m
  BY ValueAssumption
<1> DEFINE Room == {m - v : v \in S}
<1>2. Room \subseteq Nat /\ Room # {}
  <2>1. \A v \in S : m - v \in Nat
    BY <1>1, ValueAssumption
  <2> QED BY <2>1
<1>3. \E x \in Room : \A y \in Room : <<y, x>> \notin Less
  <2> HIDE DEF Room
  <2> QED BY <1>2, LessIsWellFounded, WFMin
<1>4. PICK x \in Room : \A y \in Room : ~(y < x)
  BY <1>2, <1>3
<1>5. PICK g \in S : x = m - g
  OBVIOUS
<1>6. ASSUME NEW v \in S
      PROVE  g >= v
  <2>1. ~(m - v < m - g)
    BY <1>4, <1>5
  <2>2. v \in Nat /\ g \in Nat /\ m \in Nat
    BY ValueAssumption
  <2> QED BY <2>1, <2>2
<1>7. Max(S) \in S /\ \A v \in S : Max(S) >= v
  BY <1>6 DEF Max
<1>8. \A v \in S : v \in Nat
  BY ValueAssumption
<1> QED BY <1>7, <1>8

\* What getAuction reads of an auction fits an AuctionData.
LEMMA ReadFits ==
    ASSUME IInv, NEW a \in Ids, start[a] # NoStart
    PROVE  [id |-> a, owner |-> start[a].owner, highest |-> HighestBid(a)] \in Snapshots
<1>1. start[a].owner \in Users /\ start[a].value \in Values
  BY DEF IInv, ServerTypeOK, FilesTypeOK, Starts
<1>2. BidValues(a) # {} => Max(BidValues(a)) \in Values
  <2>1. BidValues(a) \in SUBSET Values
    BY DEF BidValues
  <2> QED BY <2>1, MaxIsGreatest
<1>3. HighestBid(a) \in Values
  BY <1>1, <1>2 DEF HighestBid
<1> QED BY <1>1, <1>3 DEF Snapshots

LEMMA GetAuctionPreserves ==
    ASSUME IInv, HistoriesGrow, NEW w \in Workers, NEW from \in FreePcs, NEW to \in FreePcs,
           NEW missing \in Statuses, GetAuction(w, from, to, missing)
    PROVE  IInv'
<1> DEFINE a == req[w].id
<1> USE DEF IInv, ServerTypeOK, HistoriesGrow, GetAuction, processVars
<1>1. AccountsTypeOK' /\ ProcessTypeOK'
  BY DEF AccountsTypeOK, accountVars, ProcessTypeOK
<1>2. AccountsInOrder' /\ SessionsHaveAccounts' /\ HostedBeforeStart' /\ AnnouncedIsComplete'
  BY FilesUnchanged
<1>3. from # "idle"
  BY DEF FreePcs, ClosePcs, AssetPcs, BidPcs
<1>4. CASE start[a] = NoStart
  <2>1. JobsTypeOK' /\ JobsInOrder' /\ answer' \in [Requests -> Statuses]
    BY <1>3, <1>4, AnswerPreserves
  <2>2. FilesTypeOK' /\ RepliesTypeOK'
    BY <1>4, <2>1 DEF FilesTypeOK, RepliesTypeOK
  <2> QED BY <1>1, <1>2, <2>1, <2>2
<1>5. CASE start[a] # NoStart
  <2>1. a \in Ids
    BY <1>3, <1>5, RequestFields DEF Step, JobsInOrder, JobOK
  <2>2. snap' \in [Workers -> Snapshots]
    BY <1>5, <2>1, ReadFits, GarbageAssumption DEF JobsTypeOK, ReadAuction
  <2>3. JobsTypeOK' /\ JobsInOrder'
    BY <1>3, <1>5, <2>2, GoOnPreserves
  <2>4. end' \in [Ids -> {"none", "expired", "closed"}]
    BY <1>5, <2>1, EndFiles DEF ReadAuction
  <2>5. FilesTypeOK' /\ RepliesTypeOK'
    BY <1>5, <2>4 DEF FilesTypeOK, RepliesTypeOK
  <2> QED BY <1>1, <1>2, <2>3, <2>5
<1> QED BY <1>4, <1>5

\* The second halves of close and show_asset: END, and the answer.
LEMMA EndAndAnswerPreserve ==
    ASSUME IInv, HistoriesGrow, NEW w \in Workers, CloseAuction(w) \/ ShowAsset(w)
    PROVE  IInv'
<1> USE DEF IInv, ServerTypeOK, HistoriesGrow, CloseAuction, ShowAsset, processVars
<1>1. AccountsTypeOK' /\ ProcessTypeOK'
  BY DEF AccountsTypeOK, accountVars, ProcessTypeOK
<1>2. AccountsInOrder' /\ SessionsHaveAccounts' /\ HostedBeforeStart' /\ AnnouncedIsComplete'
  BY FilesUnchanged
<1>3. PICK s \in {"OK", "EOW", "none"} : Answer(w, s)
  OBVIOUS
<1>4. JobsTypeOK' /\ JobsInOrder' /\ answer' \in [Requests -> Statuses]
  BY <1>3, AnswerPreserves DEF Statuses
<1>5. RepliesTypeOK'
  BY <1>4 DEF RepliesTypeOK
<1>6. snap[w].id \in Ids \cup {NoId}
  BY DEF JobsTypeOK, Snapshots
<1>7. end' \in [Ids -> {"none", "expired", "closed"}]
  BY <1>6, EndFiles DEF FilesTypeOK, SaveEnd
<1>8. FilesTypeOK'
  BY <1>7 DEF FilesTypeOK
<1> QED BY <1>1, <1>2, <1>4, <1>5, <1>8

\* The checks of a bid change nothing.
LEMMA BidChecksPreserve ==
    ASSUME IInv, HistoriesGrow, NEW w \in Workers,
           CheckLogin(w, "bidLogin", "bidPass") \/ BidChecks(w) \/ BidActive(w)
    PROVE  IInv'
<1> USE DEF IInv, ServerTypeOK, HistoriesGrow, fileVars, processVars, CheckLogin, BidChecks, BidActive
<1>1. AccountsTypeOK' /\ FilesTypeOK' /\ ProcessTypeOK'
  BY DEF AccountsTypeOK, accountVars, FilesTypeOK, ProcessTypeOK
<1>2. AccountsInOrder' /\ SessionsHaveAccounts' /\ HostedBeforeStart' /\ AnnouncedIsComplete'
  BY FilesUnchanged
<1>3. CASE \E s \in {"NLG", "NOK", "ILG", "REF"} : Answer(w, s)
  <2>1. JobsTypeOK' /\ JobsInOrder' /\ answer' \in [Requests -> Statuses]
    BY <1>3, AnswerPreserves DEF Statuses
  <2>2. RepliesTypeOK'
    BY <2>1 DEF RepliesTypeOK
  <2> QED BY <1>1, <1>2, <2>1, <2>2
<1>4. CASE /\ \/ Step(w, "bidLogin", "bidPass")
              \/ Step(w, "bidPass", "bidActive")
              \/ Step(w, "bidActive", "bidWrite")
           /\ UNCHANGED <<req, num, opened, snap, answer>>
  <2>1. JobsTypeOK' /\ JobsInOrder'
    BY <1>4, GoOnPreserves DEF FreePcs, BidPcs, JobsTypeOK
  <2>2. RepliesTypeOK'
    BY <1>4 DEF RepliesTypeOK
  <2> QED BY <1>1, <1>2, <2>1, <2>2
<1>5. CASE CheckLogin(w, "bidLogin", "bidPass")
  BY <1>3, <1>4, <1>5
<1>6. CASE BidChecks(w)
  BY <1>3, <1>4, <1>6
<1>7. CASE BidActive(w)
  BY <1>3, <1>4, <1>7
<1> QED BY <1>5, <1>6, <1>7

LEMMA BidFilesPreserve ==
    ASSUME IInv, HistoriesGrow, NEW w \in Workers, WriteBid(w) \/ BidEntry(w)
    PROVE  IInv'
<1> USE DEF IInv, ServerTypeOK, HistoriesGrow, processVars, WriteBid, BidEntry
<1>1. AccountsTypeOK' /\ ProcessTypeOK'
  BY DEF AccountsTypeOK, accountVars, ProcessTypeOK
<1>2. AccountsInOrder' /\ SessionsHaveAccounts' /\ HostedBeforeStart' /\ AnnouncedIsComplete'
  BY FilesUnchanged DEF replyVars
<1>3. req[w] \in Requests /\ req[w].user \in Users /\ req[w].value \in Values
  BY RequestFields DEF Step, JobsInOrder, JobOK
<1>4. snap[w].id \in Ids \cup {NoId}
  BY DEF JobsTypeOK, Snapshots
<1>5. CASE WriteBid(w)
  <2>1. JobsTypeOK' /\ JobsInOrder'
    BY <1>5, GoOnPreserves DEF FreePcs, BidPcs, JobsTypeOK
  <2>2. bids' \in [Ids -> [Values -> Users \cup {NoUser}]]
    <3>1. CASE UNCHANGED bids
      BY <3>1 DEF FilesTypeOK
    <3>2. CASE /\ snap[w].id # NoId
               /\ bids' = [bids EXCEPT ![snap[w].id][req[w].value] = req[w].user]
      BY <1>3, <1>4, <3>2 DEF FilesTypeOK
    <3> QED BY <1>5, <3>1, <3>2
  <2>3. FilesTypeOK' /\ RepliesTypeOK'
    BY <1>5, <2>2 DEF FilesTypeOK, RepliesTypeOK, replyVars
  <2> QED BY <1>1, <1>2, <2>1, <2>3
<1>6. CASE BidEntry(w)
  <2>1. JobsTypeOK' /\ JobsInOrder' /\ answer' \in [Requests -> Statuses]
    BY <1>6, AnswerPreserves DEF Statuses
  <2>2. bidded[req[w].user] \cup {snap[w].id} \in SUBSET (Ids \cup {NoId})
    BY <1>3, <1>4 DEF FilesTypeOK
  <2>3. bidded' \in [Users -> SUBSET (Ids \cup {NoId})]
    BY <1>3, <1>6, <2>2 DEF FilesTypeOK
  <2>4. FilesTypeOK' /\ RepliesTypeOK'
    BY <1>6, <2>1, <2>3 DEF FilesTypeOK, RepliesTypeOK
  <2> QED BY <1>1, <1>2, <2>1, <2>4
<1> QED BY <1>5, <1>6

-----------------------------------------------------------------------------
(* The UDP thread, the clock and the process.                              *)

\* What the UDP thread and the way out of main do to the accounts.
AccountStep ==
    \/ \E u \in Users : \/ \E p \in Passwords : Register(u, p) \/ LogIn(u, p)
                       \/ RegisterUnsaved(u) \/ LogOut(u) \/ Unregister(u)
    \/ SignUp \/ SignUpUnsaved \/ Erase

\* A login file is created only after the password file, if that can be
\* created, and removed before.
LEMMA AccountStepPreserves ==
    ASSUME IInv, AccountStep
    PROVE  AccountsTypeOK' /\ AccountsInOrder' /\ SessionsHaveAccounts'
<1> USE DEF IInv, ServerTypeOK, AccountsTypeOK, AccountsInOrder, SessionsHaveAccounts,
            UserLoggedIn, UserRegistered, SetPass, SetSession, GoOnWith, Over
<1>1. ASSUME NEW u \in Users, NEW p \in Passwords, Register(u, p)
      PROVE  AccountsTypeOK' /\ AccountsInOrder' /\ SessionsHaveAccounts'
  BY <1>1, PassAssumption DEF Register
<1>2. ASSUME NEW u \in Users,
             (\E p \in Passwords : LogIn(u, p)) \/ LogOut(u) \/ Unregister(u) \/ RegisterUnsaved(u)
      PROVE  AccountsTypeOK' /\ AccountsInOrder' /\ SessionsHaveAccounts'
  BY <1>2 DEF LogIn, LogOut, Unregister, RegisterUnsaved
<1>3. CASE SignUp \/ SignUpUnsaved \/ Erase
  BY <1>3 DEF SignUp, SignUpUnsaved, Erase
<1> QED BY <1>1, <1>2, <1>3 DEF AccountStep

LEMMA UdpPreserves ==
    ASSUME IInv, UdpStep
    PROVE  IInv'
<1> USE DEF IInv, ServerTypeOK, fileVars, processVars, jobVars, replyVars, historyVars
<1>1. CASE AccountStep /\ UNCHANGED <<fileVars, processVars, jobVars, replyVars, historyVars>>
  <2>1. AccountsTypeOK' /\ AccountsInOrder' /\ SessionsHaveAccounts'
    BY <1>1, AccountStepPreserves
  <2>2. FilesTypeOK' /\ ProcessTypeOK' /\ JobsTypeOK' /\ RepliesTypeOK' /\ HistoryTypeOK'
    BY <1>1 DEF FilesTypeOK, ProcessTypeOK, JobsTypeOK, RepliesTypeOK, HistoryTypeOK
  <2>3. JobsInOrder' /\ HostedBeforeStart' /\ AnnouncedIsComplete'
    BY <1>1 DEF JobsInOrder, JobOK, HostedBeforeStart, AnnouncedIsComplete, Announced
  <2> QED BY <2>1, <2>2, <2>3
<1>2. ASSUME NEW a \in Ids, Refresh(a)
      PROVE  IInv'
  <2> USE <1>2 DEF Refresh
  <2>1. AccountsTypeOK' /\ ProcessTypeOK' /\ JobsTypeOK' /\ RepliesTypeOK' /\ HistoryTypeOK'
    BY DEF AccountsTypeOK, accountVars, ProcessTypeOK, JobsTypeOK, RepliesTypeOK, HistoryTypeOK
  <2>2. FilesTypeOK'
    BY EndFiles DEF FilesTypeOK
  <2>3. JobsInOrder'
    BY DEF JobsInOrder, JobOK
  <2> QED BY <2>1, <2>2, <2>3, HistoriesKept, FilesUnchanged
<1>3. CASE \E l \in Logins : HandleLogin(l[1], l[2])
  <2>1. PICK l \in Logins : HandleLogin(l[1], l[2])
    BY <1>3
  <2>2. l[1] \in Users /\ l[2] \in Passwords
    BY LoginAssumption
  <2> QED BY <1>1, <2>1, <2>2 DEF HandleLogin, AccountStep
<1>4. CASE SecondFile \/ \E u \in Leavers : HandleLogout(u) \/ HandleUnregister(u)
  BY <1>1, <1>4, UserAssumption DEF SecondFile, HandleLogout, HandleUnregister, AccountStep
<1> QED BY <1>2, <1>3, <1>4 DEF UdpStep, AccountRequest

\* The counter that a process starts with is positive.
LEMMA CountIsPositive ==
    ASSUME IInv
    PROVE  AuctionsCount \in Nat \ {0}
<1>1. IsFiniteSet(Ids)
  BY BoundAssumption, FS_Interval DEF Ids
<1>2. Cardinality({a \in Ids : made[a]}) \in Nat
  BY <1>1, FS_Subset, FS_CardinalityType
<1> QED BY <1>2 DEF AuctionsCount

LEMMA ProcessPreserves ==
    ASSUME IInv, \/ Tick \/ Shutdown \/ EveryoneLeft \/ Restart \/ Crash
                 \/ \E u \in Users : LogOneOut(u)
    PROVE  IInv'
<1> USE DEF IInv, ServerTypeOK, fileVars, jobVars, replyVars, historyVars
<1>1. CASE Tick \/ Shutdown \/ EveryoneLeft \/ Restart
  <2> USE <1>1 DEF Tick, Shutdown, EveryoneLeft, Restart, Boot
  <2>1. AccountsTypeOK' /\ FilesTypeOK' /\ JobsTypeOK' /\ RepliesTypeOK' /\ HistoryTypeOK'
    BY DEF AccountsTypeOK, accountVars, FilesTypeOK, JobsTypeOK, RepliesTypeOK, HistoryTypeOK
  <2>2. ProcessTypeOK'
    BY CountIsPositive, BoundAssumption DEF ProcessTypeOK, Times
  <2>3. JobsInOrder'
    BY DEF JobsInOrder, JobOK
  <2> QED BY <2>1, <2>2, <2>3, HistoriesKept, FilesUnchanged
<1>2. ASSUME NEW u \in Users, LogOneOut(u)
      PROVE  IInv'
  <2> USE <1>2 DEF LogOneOut, SetSession
  <2>1. FilesTypeOK' /\ ProcessTypeOK' /\ JobsTypeOK' /\ RepliesTypeOK' /\ HistoryTypeOK'
    BY DEF FilesTypeOK, processVars, ProcessTypeOK, JobsTypeOK, RepliesTypeOK, HistoryTypeOK
  <2>2. AccountsTypeOK' /\ AccountsInOrder' /\ SessionsHaveAccounts'
    BY DEF AccountsTypeOK, AccountsInOrder, SessionsHaveAccounts, UserLoggedIn, UserRegistered
  <2>3. JobsInOrder' /\ HostedBeforeStart' /\ AnnouncedIsComplete'
    BY DEF JobsInOrder, JobOK, HostedBeforeStart, AnnouncedIsComplete, Announced
  <2> QED BY <2>1, <2>2, <2>3
<1>3. CASE Crash
  <2> USE <1>3 DEF Crash, Boot, Over, GoOnWith
  <2>1. AccountsTypeOK' /\ AccountsInOrder' /\ SessionsHaveAccounts'
    BY DEF AccountsTypeOK, AccountsInOrder, SessionsHaveAccounts, UserLoggedIn, UserRegistered
  <2>2. FilesTypeOK'
    BY DEF FilesTypeOK
  <2>3. ProcessTypeOK'
    BY CountIsPositive DEF ProcessTypeOK
  <2>4. JobsTypeOK'
    BY BoundAssumption DEF JobsTypeOK, Pcs, Times, Snapshots, NoSnapshot
  <2>5. RepliesTypeOK' /\ HistoryTypeOK'
    BY DEF RepliesTypeOK, Statuses, HistoryTypeOK
  <2>6. JobsInOrder'
    BY DEF JobsInOrder, JobOK, OpenPcs
  <2>7. HostedBeforeStart' /\ AnnouncedIsComplete'
    BY DEF HostedBeforeStart, AnnouncedIsComplete, Announced
  <2> QED BY <2>1, <2>2, <2>3, <2>4, <2>5, <2>6, <2>7
<1> QED BY <1>1, <1>2, <1>3

-----------------------------------------------------------------------------
(* The theorems.                                                           *)

LEMMA WorkerPreserves ==
    ASSUME IInv, NEW w \in Workers, WorkerStep(w)
    PROVE  IInv'
<1>0. HistoriesGrow
  BY WorkerHistories
<1>1. \A pcs \in {"closeGet", "closeEnd", "assetGet", "assetShow", "bidGet", "bidLogin"} :
        pcs \in FreePcs
  BY DEF FreePcs, ClosePcs, AssetPcs, BidPcs
<1>2. "EAU" \in Statuses /\ "NOK" \in Statuses
  BY DEF Statuses
<1>3. CASE \E r \in Requests : Receive(w, r)
  BY <1>3, <1>0, ReceivePreserves
<1>4. CASE ReadCount(w) \/ WriteCount(w)
  BY <1>4, <1>0, CountPreserves
<1>5. CASE CheckLogin(w, "openLogin", "openPass") \/ OpenPassword(w)
  BY <1>5, <1>0, OpenChecksPreserve
<1>6. CASE Host(w) \/ MakeDirectory(w) \/ WriteStart(w) \/ MakeBidsDirectory(w)
  BY <1>6, <1>0, OpenFilesPreserve
<1>7. CASE OpenReply(w)
  BY <1>7, <1>0, OpenReplyPreserves
<1>8. CASE GetAuction(w, "closeGet", "closeEnd", "EAU")
  BY <1>1, <1>2, <1>8, <1>0, GetAuctionPreserves
<1>9. CASE GetAuction(w, "assetGet", "assetShow", "NOK")
  BY <1>1, <1>2, <1>9, <1>0, GetAuctionPreserves
<1>10. CASE GetAuction(w, "bidGet", "bidLogin", "NOK")
  BY <1>1, <1>2, <1>10, <1>0, GetAuctionPreserves
<1>11. CASE CloseAuction(w) \/ ShowAsset(w)
  BY <1>11, <1>0, EndAndAnswerPreserve
<1>12. CASE CheckLogin(w, "bidLogin", "bidPass") \/ BidChecks(w) \/ BidActive(w)
  BY <1>12, <1>0, BidChecksPreserve
<1>13. CASE WriteBid(w) \/ BidEntry(w)
  BY <1>13, <1>0, BidFilesPreserve
<1> QED BY <1>3, <1>4, <1>5, <1>6, <1>7, <1>8, <1>9, <1>10, <1>11, <1>12, <1>13
           DEF WorkerStep

\* Every step, and every stuttering step, preserves the invariant.
LEMMA NextPreserves == IInv /\ [Next]_vars => IInv'
<1> SUFFICES ASSUME IInv, [Next]_vars PROVE IInv'
  OBVIOUS
<1>1. CASE UNCHANGED vars
  <2> USE <1>1 DEF vars, IInv, ServerTypeOK, fileVars, processVars, jobVars, replyVars, historyVars
  <2>1. ServerTypeOK'
    BY DEF AccountsTypeOK, accountVars, FilesTypeOK, ProcessTypeOK, JobsTypeOK,
           RepliesTypeOK, HistoryTypeOK
  <2>2. JobsInOrder'
    BY DEF JobsInOrder, JobOK
  <2> QED BY <2>1, <2>2, HistoriesKept, FilesUnchanged
<1>2. CASE Next
  BY <1>2, WorkerPreserves, UdpPreserves, ProcessPreserves DEF Next
<1> QED BY <1>1, <1>2

THEOREM Invariance == Spec => []IInv
BY InitIInv, NextPreserves, PTL DEF Spec

\* The state stays well typed: no worker ever handles an id past MaxId, and no
\* file is written for one.
THEOREM TypeCorrect == Spec => []ServerTypeOK
<1>1. IInv => ServerTypeOK
  BY DEF IInv
<1> QED BY <1>1, Invariance, PTL

\* Nobody is logged in without an account, unless its file could not be made.
THEOREM SessionsHaveAccountsHolds == Spec => []SessionsHaveAccounts
<1>1. IInv => SessionsHaveAccounts
  BY DEF IInv
<1> QED BY <1>1, Invariance, PTL

\* myauctions finds every auction that has a START file, whenever the process
\* dies, but for owners who met a file that could not be made.
THEOREM HostedBeforeStartHolds == Spec => []HostedBeforeStart
<1>1. IInv => HostedBeforeStart
  BY DEF IInv
<1> QED BY <1>1, Invariance, PTL

\* An id that a reply gave out names an auction that is wholly on disk, if its
\* files could be made.
THEOREM AnnouncedIsCompleteHolds == Spec => []AnnouncedIsComplete
<1>1. IInv => AnnouncedIsComplete
  BY DEF IInv
<1> QED BY <1>1, Invariance, PTL

-----------------------------------------------------------------------------
(* What no step does.                                                      *)

\* A step leaves the END files alone, updates one, or closes one.
LEMMA EndSteps ==
    ASSUME IInv, [Next]_vars
    PROVE  end' = end \/ \E a \in Ids \cup {NoId} : end' \in {end, Updated(a), Closed(a)}
<1>1. ASSUME NEW w \in Workers, WorkerStep(w)
      PROVE  end' = end \/ \E a \in Ids \cup {NoId} : end' \in {end, Updated(a), Closed(a)}
  <2> USE DEF IInv, ServerTypeOK
  <2>1. snap[w].id \in Ids \cup {NoId}
    BY DEF JobsTypeOK, Snapshots
  <2>2. pc[w] # "idle" => req[w].id \in Ids
    BY RequestFields DEF JobsInOrder, JobOK
  <2>3. CASE \/ GetAuction(w, "closeGet", "closeEnd", "EAU")
             \/ GetAuction(w, "assetGet", "assetShow", "NOK")
             \/ GetAuction(w, "bidGet", "bidLogin", "NOK")
    BY <2>2, <2>3 DEF GetAuction, ReadAuction, Step
  <2>4. CASE CloseAuction(w) \/ ShowAsset(w)
    BY <2>1, <2>4 DEF CloseAuction, ShowAsset, SaveEnd
  <2>5. CASE \/ \E r \in Requests : Receive(w, r)
             \/ ReadCount(w) \/ WriteCount(w)
             \/ CheckLogin(w, "openLogin", "openPass") \/ OpenPassword(w)
             \/ Host(w) \/ MakeDirectory(w) \/ WriteStart(w) \/ MakeBidsDirectory(w)
             \/ OpenReply(w)
    BY <2>5 DEF Receive, ReadCount, WriteCount, CheckLogin, OpenPassword, Host,
       MakeDirectory, WriteStart, MakeBidsDirectory, OpenReply, fileVars
  <2>6. CASE \/ CheckLogin(w, "bidLogin", "bidPass") \/ BidChecks(w)
             \/ BidActive(w) \/ WriteBid(w) \/ BidEntry(w)
    BY <2>6 DEF CheckLogin, BidChecks, BidActive, WriteBid, BidEntry, fileVars
  <2> QED BY <1>1, <2>3, <2>4, <2>5, <2>6 DEF WorkerStep
<1>2. CASE UdpStep
  BY <1>2 DEF UdpStep, AccountRequest, HandleLogin, HandleLogout, HandleUnregister, SecondFile, Refresh, fileVars
<1>3. CASE \/ Tick \/ Shutdown \/ EveryoneLeft \/ Restart \/ Crash \/ UNCHANGED vars
            \/ \E u \in Users : LogOneOut(u)
  BY <1>3 DEF Tick, Shutdown, EveryoneLeft, LogOneOut, Restart, Crash, Boot, fileVars, vars
<1> QED BY <1>1, <1>2, <1>3 DEF Next

\* A close and an expiry never overwrite one another.
THEOREM EndWrittenOnceHolds == Spec => EndWrittenOnce
<1>1. IInv /\ [Next]_vars => [\A a \in Ids : end[a] # "none" => end'[a] = end[a]]_vars
  BY EndSteps, EndFiles
<1> QED BY <1>1, Invariance, PTL DEF Spec, EndWrittenOnce

\* WriteBid is the only step that changes bids, and only for an auction that
\* has a bid in flight; BidActive, the only way to be in flight, needs that
\* there is no END file.
LEMMA SettledStep ==
    ASSUME IInv, [Next]_vars, NEW a \in Ids, end[a] # "none", NoBidInFlight(a)
    PROVE  bids'[a] = bids[a] /\ NoBidInFlight(a)'
<1> USE DEF NoBidInFlight, IInv, ServerTypeOK, JobsTypeOK
<1>1. a # NoId
  BY NoneAssumption, BoundAssumption DEF Ids
<1>2. ASSUME NEW w \in Workers, WorkerStep(w)
      PROVE  bids'[a] = bids[a] /\ NoBidInFlight(a)'
  <2>1. CASE WriteBid(w)
    BY <2>1 DEF WriteBid, Step, FilesTypeOK
  <2>2. CASE BidActive(w)
    BY <1>1, <2>2 DEF BidActive, AuctionIsActive, Step, Answer, fileVars
  <2>3. CASE \/ \E r \in Requests : Receive(w, r)
             \/ ReadCount(w) \/ WriteCount(w)
             \/ CheckLogin(w, "openLogin", "openPass") \/ OpenPassword(w)
    <3>1. ASSUME NEW r \in Requests, Receive(w, r)
          PROVE  bids' = bids /\ pc'[w] # "bidWrite" /\ UNCHANGED snap
                 /\ \A v \in Workers \ {w} : pc'[v] = pc[v]
      <4>1. First(r.op) \in {"readCount", "closeGet", "assetGet", "bidGet"}
        BY RequestFields DEF First, Ops
      <4> QED BY <3>1, <4>1 DEF Receive, fileVars
    <3>2. CASE \E r \in Requests : Receive(w, r)
      BY <3>1, <3>2
    <3>3. CASE ReadCount(w) \/ WriteCount(w)
      BY <3>3 DEF ReadCount, WriteCount, Step, Answer, fileVars
    <3>4. CASE CheckLogin(w, "openLogin", "openPass") \/ OpenPassword(w)
      BY <3>4 DEF CheckLogin, OpenPassword, Then, Step, Answer, fileVars
    <3> QED BY <2>3, <3>2, <3>3, <3>4
  <2>4. CASE \/ Host(w) \/ MakeDirectory(w) \/ WriteStart(w) \/ MakeBidsDirectory(w)
             \/ OpenReply(w)
    BY <2>4 DEF Host, MakeDirectory, WriteStart, MakeBidsDirectory, OpenReply,
       Then, Step, Answer, fileVars
  <2>5. CASE \/ GetAuction(w, "closeGet", "closeEnd", "EAU")
             \/ GetAuction(w, "assetGet", "assetShow", "NOK")
             \/ GetAuction(w, "bidGet", "bidLogin", "NOK")
    BY <2>5 DEF GetAuction, ReadAuction, Step, Answer
  <2>6. CASE CloseAuction(w) \/ ShowAsset(w) \/ BidEntry(w)
    BY <2>6 DEF CloseAuction, ShowAsset, BidEntry, Answer
  <2>7. CASE CheckLogin(w, "bidLogin", "bidPass") \/ BidChecks(w)
    <3>1. /\ bids' = bids
          /\ \/ \E s \in Statuses : Answer(w, s)
             \/ /\ Step(w, "bidLogin", "bidPass") \/ Step(w, "bidPass", "bidActive")
                /\ UNCHANGED snap
      BY <2>7 DEF CheckLogin, BidChecks, fileVars, Statuses
    <3> QED BY <3>1 DEF Step, Answer
  <2> QED BY <1>2, <2>1, <2>2, <2>3, <2>4, <2>5, <2>6, <2>7 DEF WorkerStep
<1>3. CASE UdpStep
  BY <1>3 DEF UdpStep, AccountRequest, HandleLogin, HandleLogout, HandleUnregister, SecondFile, Refresh,
     fileVars, jobVars
<1>4. CASE \/ Tick \/ Shutdown \/ EveryoneLeft \/ Restart \/ UNCHANGED vars
            \/ \E u \in Users : LogOneOut(u)
  BY <1>4 DEF Tick, Shutdown, EveryoneLeft, LogOneOut, Restart, Boot, fileVars, jobVars, vars
<1>5. CASE Crash
  BY <1>5 DEF Crash, Boot, fileVars
<1> QED BY <1>2, <1>3, <1>4, <1>5 DEF Next

\* Once an auction has ended and the bids in flight are written, its bids are
\* final, through every crash and restart.
THEOREM SettledIsFinalHolds == Spec => SettledIsFinal
<1>1. IInv /\ [Next]_vars =>
        [\A a \in Ids : end[a] # "none" /\ NoBidInFlight(a) =>
            bids'[a] = bids[a] /\ NoBidInFlight(a)']_vars
  BY SettledStep
<1> QED BY <1>1, Invariance, PTL DEF Spec, SettledIsFinal
=============================================================================
