-------------------------- MODULE Listings_proofs --------------------------
(***************************************************************************)
(* Proofs about what the server lists, for any users, workers, requests,   *)
(* ids and bounds, with workers, the clock, crashes and restarts between   *)
(* any two turns of a loop.  The first part shows that a server that lists *)
(* is an AuctionServer, so that all theorems about that one hold of it.    *)
(***************************************************************************)
EXTENDS Listings, AuctionHouse_proofs

\* While the UDP thread serves a listing it does nothing else.
Serving == ask # NoAsk => phase = "up" /\ udpPc = "idle"

\* The workers touch neither the process nor the accounts.
LEMMA WorkersLeaveAlone ==
    ASSUME NEW w \in Workers, WorkerStep(w)
    PROVE  UNCHANGED <<phase, boots, accountVars>>
<1> USE DEF processVars
<1>1. CASE \/ \E r \in Requests : Receive(w, r)
           \/ ReadCount(w) \/ WriteCount(w)
           \/ CheckLogin(w, "openLogin", "openPass") \/ OpenPassword(w)
           \/ CheckLogin(w, "bidLogin", "bidPass") \/ BidChecks(w) \/ BidActive(w)
  BY <1>1 DEF Receive, ReadCount, WriteCount, CheckLogin, OpenPassword, BidChecks, BidActive
<1>2. CASE Host(w) \/ MakeDirectory(w) \/ WriteStart(w) \/ MakeBidsDirectory(w) \/ OpenReply(w)
  BY <1>2 DEF Host, MakeDirectory, WriteStart, MakeBidsDirectory, OpenReply
<1>3. CASE \/ GetAuction(w, "closeGet", "closeEnd", "EAU") \/ CloseAuction(w)
           \/ GetAuction(w, "assetGet", "assetShow", "NOK") \/ ShowAsset(w)
           \/ GetAuction(w, "bidGet", "bidLogin", "NOK")
  BY <1>3 DEF GetAuction, CloseAuction, ShowAsset
<1>4. CASE WriteBid(w) \/ BidEntry(w)
  BY <1>4 DEF WriteBid, BidEntry
<1> QED BY <1>1, <1>2, <1>3, <1>4 DEF WorkerStep

LEMMA ServingPreserved == Serving /\ [LNext]_lvars => Serving'
<1> SUFFICES ASSUME Serving, [LNext]_lvars PROVE Serving'
  OBVIOUS
<1> USE DEF Serving
<1>1. CASE UNCHANGED <<phase, udpPc, ask>>
  BY <1>1
<1>2. ASSUME NEW w \in Workers, WorkerStep(w), UNCHANGED listingVars
      PROVE  UNCHANGED <<phase, udpPc, ask>>
  BY <1>2, WorkersLeaveAlone DEF accountVars, listingVars
<1>3. CASE Tick /\ UNCHANGED listingVars
  BY <1>3 DEF Tick, accountVars, listingVars
<1>4. CASE ask = NoAsk /\ UNCHANGED listingVars
  BY <1>4 DEF listingVars
<1>5. CASE \E q \in Asks : ReceiveAsk(q)
  BY <1>5 DEF ReceiveAsk, vars, processVars, accountVars
<1>6. CASE \E a \in Ids \cup {NoId} : Look(a)
  BY <1>6 DEF Look, accountVars, processVars
<1>7. CASE Quiet
  BY <1>7 DEF Quiet
<1>8. CASE UNCHANGED lvars
  BY <1>8 DEF lvars, vars, accountVars, processVars, listingVars
<1> QED BY <1>1, <1>2, <1>3, <1>4, <1>5, <1>6, <1>7, <1>8 DEF LNext, ListingStep, Tell

\* What a turn of a loop does to the files is to look at the clock, or nothing.
LEMMA LookEnds ==
    ASSUME NEW a, Look(a)
    PROVE  end' \in {end, Updated(a)}
BY DEF Look, See, Miss

\* A turn of a loop over auctions is a Refresh of the auction that it comes to,
\* or leaves the server alone.
LEMMA LookRefreshes ==
    ASSUME Serving, NEW a \in Ids \cup {NoId}, Look(a)
    PROVE  [Next]_vars
<1>1. CASE a \in Ids /\ end' = Updated(a)
  <2>1. phase = "up" /\ udpPc = "idle"
    BY DEF Serving, Look
  <2>2. Refresh(a)
    BY <1>1, <2>1 DEF Look, Refresh
  <2> QED BY <1>1, <2>2 DEF Next, UdpStep
<1>2. CASE end' = end
  BY <1>2 DEF Look, vars, fileVars, processVars, jobVars, replyVars, historyVars
<1>3. CASE a = NoId
  BY <1>2, <1>3, LookEnds DEF Updated
<1> QED BY <1>1, <1>2, <1>3, LookEnds

\* The steps of the server, by what they do to a listing.
LEMMA ListingCases ==
    ASSUME Serving, [LNext]_lvars
    PROVE  /\ [Next]_vars
           /\ \/ UNCHANGED listingVars
              \/ \E q \in Asks : ReceiveAsk(q)
              \/ \E a \in Ids \cup {NoId} : Look(a)
              \/ Tell
              \/ Crash /\ Quiet
<1>1. CASE ListingStep
  BY <1>1, LookRefreshes DEF ListingStep, ReceiveAsk, Tell
<1>2. CASE UNCHANGED lvars
  BY <1>2 DEF lvars
<1>3. CASE /\ \/ \E w \in Workers : WorkerStep(w)
              \/ Tick \/ AccountRequest \/ Shutdown \/ EveryoneLeft \/ Restart
              \/ \E u \in Users : LogOneOut(u)
           /\ UNCHANGED listingVars
  BY <1>3 DEF Next, UdpStep
<1>4. CASE Crash /\ Quiet
  BY <1>4 DEF Next
<1> QED BY <1>1, <1>2, <1>3, <1>4 DEF LNext

\* The server that lists takes the steps of AuctionServer or leaves its state
\* alone: whatever holds of AuctionServer holds of it, refinements included.
THEOREM ListingServerIsServer == LSpec => Spec
<1>1. LInit => Init /\ Serving
  BY DEF LInit, Serving
<1>2. Serving /\ [LNext]_lvars => [Next]_vars
  BY ListingCases
<1> QED BY <1>1, <1>2, ServingPreserved, PTL DEF LSpec, Spec

-----------------------------------------------------------------------------
(* The second part: a loop comes to an auction once, and lists what it     *)
(* came to.                                                                *)

TurnsInOrder ==
    /\ ask # NoAsk /\ ask.kind = "record" => due \subseteq Ids
    /\ due \cap seen = {}
    /\ listing \subseteq seen \X BOOLEAN

LInv == IInv /\ Serving /\ ListingTypeOK /\ TurnsInOrder

\* The fields of a request for a listing.
LEMMA AskFields ==
    ASSUME NEW q \in Asks
    PROVE  q \in AskType /\ q # NoAsk /\ q.kind \in Kinds /\ q.user \in Users /\ q.id \in Ids
BY AskAssumption DEF AskType

LEMMA InitLInv == LInit => LInv
<1> SUFFICES ASSUME LInit PROVE LInv
  OBVIOUS
<1>1. IInv
  BY InitIInv DEF LInit
<1>2. Serving /\ ListingTypeOK /\ TurnsInOrder
  BY <1>1 DEF LInit, Serving, ListingTypeOK, TurnsInOrder, IInv
<1> QED BY <1>1, <1>2 DEF LInv

\* The directories hold auctions, and BIDDED perhaps an entry of an auction
\* that was never read.
LEMMA EntriesAreIds ==
    ASSUME IInv, NEW q \in AskType
    PROVE  /\ Entries(q) \subseteq Ids \cup {NoId}
           /\ q.kind = "record" => Entries(q) \subseteq Ids
<1> USE DEF IInv, ServerTypeOK, FilesTypeOK
<1>1. q.kind \in Kinds /\ q.user \in Users /\ q.id \in Ids
  BY DEF AskType
<1>2. hosted[q.user] \subseteq Ids /\ bidded[q.user] \subseteq Ids \cup {NoId}
  BY <1>1
<1> QED BY <1>1, <1>2 DEF Entries, Kinds

\* What a turn of the loop comes to, and what it may list of it: what UpdateAuction
\* found, or, of an auction that could not be read, that it is active.
LEMMA LookTurn ==
    ASSUME LInv, NEW a \in Ids \cup {NoId}, Look(a)
    PROVE  /\ a \notin seen
           /\ \/ listing' = listing /\ (a \in garbled' \/ ~Readable(a))
              \/ /\ a \in Ids /\ Readable(a) /\ end' = Updated(a)
                 /\ listing' = listing \cup {<<a, ActiveNow(a)>>}
              \/ a \in Ids /\ a \in garbled' /\ listing' = listing \cup {<<a, TRUE>>}
           /\ garbled \subseteq garbled' /\ garbled' \subseteq garbled \cup {a}
<1> USE DEF LInv
<1>1. a \notin seen /\ (ask.kind = "record" => a \in Ids)
  BY DEF Look, TurnsInOrder
<1>2. CASE See(a) /\ Readable(a)
  <2>1. a \in Ids
    BY <1>2 DEF Readable
  <2> QED BY <1>1, <1>2, <2>1 DEF See, Shown
<1>3. CASE See(a) /\ ~Readable(a)
  BY <1>1, <1>3 DEF See, Shown
<1>4. CASE Miss(a)
  BY <1>1, <1>4 DEF Miss
<1> QED BY <1>2, <1>3, <1>4 DEF Look

LEMMA LInvPreserved == LInv /\ [LNext]_lvars => LInv'
<1> SUFFICES ASSUME LInv, [LNext]_lvars PROVE LInv'
  OBVIOUS
<1> USE DEF LInv
<1>1. IInv' /\ Serving'
  BY ListingCases, NextPreserves, ServingPreserved
<1>2. ServerTypeOK'
  BY <1>1 DEF IInv
<1>3. CASE UNCHANGED listingVars
  BY <1>1, <1>2, <1>3 DEF listingVars, ListingTypeOK, TurnsInOrder
<1>4. ASSUME NEW q \in Asks, ReceiveAsk(q)
      PROVE  LInv'
  <2>1. q \in AskType
    BY AskFields
  <2>2. /\ ask' = q /\ due' = Entries(q) /\ seen' = {} /\ listing' = {} /\ garbled' = {}
        /\ wasOver' \subseteq Ids /\ wasKnown' = Known(q)
    BY <1>4 DEF ReceiveAsk
  <2>3. Known(q) \subseteq Ids
    <3>1. \A r \in Requests : given[r] \in Ids \cup {NoId} /\ r.id \in Ids
      BY RequestFields DEF IInv, ServerTypeOK, RepliesTypeOK
    <3>2. q.kind \in Kinds
      BY <2>1 DEF AskType
    <3> QED BY <3>1, <3>2 DEF Known, Announced, Answered, Kinds
  <2>4. ListingTypeOK' /\ TurnsInOrder'
    BY <1>2, <2>1, <2>2, <2>3, EntriesAreIds DEF ListingTypeOK, TurnsInOrder
  <2> QED BY <1>1, <2>4
<1>5. ASSUME NEW a \in Ids \cup {NoId}, Look(a)
      PROVE  LInv'
  <2>1. /\ due' = due \ {a} /\ seen' = seen \cup {a}
        /\ UNCHANGED <<ask, wasOver, wasKnown>>
    BY <1>5 DEF Look
  <2>2. /\ listing' = listing \/ (a \in Ids /\ \E f \in BOOLEAN : listing' = listing \cup {<<a, f>>})
        /\ garbled' \subseteq garbled \cup {a}
    <3>1. ActiveNow(a) \in BOOLEAN
      BY DEF ActiveNow
    <3> QED BY <1>5, <3>1, LookTurn
  <2>3. listing' \subseteq Ids \X BOOLEAN /\ listing' \subseteq seen' \X BOOLEAN
    BY <2>1, <2>2 DEF ListingTypeOK, TurnsInOrder
  <2>4. ListingTypeOK'
    BY <1>2, <2>1, <2>2, <2>3 DEF ListingTypeOK
  <2>5. TurnsInOrder'
    BY <2>1, <2>3 DEF TurnsInOrder
  <2> QED BY <1>1, <2>4, <2>5
<1>6. CASE Quiet
  BY <1>1, <1>2, <1>6 DEF Quiet, ListingTypeOK, TurnsInOrder
<1> QED BY <1>3, <1>4, <1>5, <1>6, ListingCases DEF Tell

LEMMA LInvariance == LSpec => []LInv
  BY InitLInv, LInvPreserved, PTL DEF LSpec

\* TYPE: what is listed are auctions with a flag, whatever is written meanwhile.
THEOREM ListingTypeCorrect == LSpec => []ListingTypeOK
<1>1. LInv => ListingTypeOK
  BY DEF LInv
<1> QED BY <1>1, LInvariance, PTL

-----------------------------------------------------------------------------
(* The third part: what is listed is true.                                 *)

\* An auction that was over stays over while the loop goes on.
WasOverStill == \A a \in wasOver \ spoilt : IsOver(a)

ShownInv == LInv /\ WasOverStill /\ ShownIsTrue

LEMMA InitShownInv == LInit => ShownInv
  BY InitLInv DEF LInit, ShownInv, WasOverStill, ShownIsTrue

LEMMA ShownPreserved == ShownInv /\ [LNext]_lvars => ShownInv'
<1> SUFFICES ASSUME ShownInv, [LNext]_lvars PROVE ShownInv'
  OBVIOUS
<1> USE DEF ShownInv
<1>1. LInv' /\ IInv /\ [Next]_vars
  BY LInvPreserved, ListingCases DEF LInv
<1>2. spoilt \subseteq spoilt'
  BY <1>1, HistorySteps DEF HistoriesGrow
<1>3. /\ \A a \in Ids \ spoilt' : IsOver(a) => IsOver(a)'
      /\ \A a \in Ids : end[a] # "none" => end'[a] # "none"
  BY <1>1, OverStays, GrowSteps DEF Grows
<1>4. wasOver \subseteq Ids
  BY DEF LInv, ListingTypeOK
<1>5. CASE UNCHANGED listingVars
  BY <1>1, <1>2, <1>3, <1>4, <1>5 DEF listingVars, WasOverStill, ShownIsTrue
<1>6. ASSUME NEW q \in Asks, ReceiveAsk(q)
      PROVE  ShownInv'
  <2>1. listing' = {} /\ wasOver' = {a \in Ids : IsOver(a)}
    BY <1>6 DEF ReceiveAsk
  <2>2. WasOverStill'
    BY <1>3, <2>1 DEF WasOverStill
  <2> QED BY <1>1, <2>1, <2>2 DEF ShownIsTrue
<1>7. ASSUME NEW a \in Ids \cup {NoId}, Look(a)
      PROVE  ShownInv'
  <2>1. UNCHANGED <<wasOver, spoilt>>
    BY <1>7 DEF Look, historyVars
  <2>2. WasOverStill'
    BY <1>3, <1>4, <2>1 DEF WasOverStill
  <2>3. a \notin seen /\ listing \subseteq seen \X BOOLEAN /\ garbled \subseteq garbled'
    BY <1>7, LookTurn DEF LInv, TurnsInOrder
  <2>4. ASSUME NEW b \in Ids, NEW f \in BOOLEAN, b # a
        PROVE  <<b, f>> \in listing' <=> <<b, f>> \in listing
    <3>1. \/ listing' = listing
          \/ \E g \in BOOLEAN : listing' = listing \cup {<<a, g>>}
      <4>1. ActiveNow(a) \in BOOLEAN
        BY DEF ActiveNow
      <4> QED BY <1>7, <4>1, LookTurn
    <3>2. \A g \in BOOLEAN : <<b, f>> # <<a, g>>
      BY <2>4
    <3> QED BY <3>1, <3>2
  <2>5. \A f \in BOOLEAN : <<a, f>> \notin listing
    BY <2>3
  <2>6. ASSUME a \in Ids
        PROVE  /\ <<a, FALSE>> \in listing' => end'[a] # "none" /\ <<a, TRUE>> \notin listing'
               /\ <<a, TRUE>> \in listing' /\ a \in wasOver \ spoilt => a \in garbled'
    <3>1. CASE listing' = listing
      BY <2>5, <3>1
    <3>2. CASE a \in garbled' /\ listing' = listing \cup {<<a, TRUE>>}
      BY <2>5, <3>2
    <3>3. CASE end' = Updated(a) /\ listing' = listing \cup {<<a, ActiveNow(a)>>}
      <4>1. ASSUME a \in wasOver \ spoilt
            PROVE  Updated(a)[a] # "none"
        <5>1. IsOver(a) /\ a # NoId
          BY <2>6, <4>1, NoneAssumption, BoundAssumption DEF WasOverStill, Ids
        <5> QED BY <1>1, <2>6, <5>1 DEF Updated, IsOver, IInv, ServerTypeOK, FilesTypeOK
      <4> QED BY <2>5, <3>3, <4>1 DEF ActiveNow
    <3> QED BY <1>7, <3>1, <3>2, <3>3, LookTurn
  <2>7. ShownIsTrue'
    <3> SUFFICES ASSUME NEW b \in Ids
                 PROVE  /\ <<b, FALSE>> \in listing' =>
                             end'[b] # "none" /\ <<b, TRUE>> \notin listing'
                        /\ <<b, TRUE>> \in listing' /\ b \in wasOver' \ spoilt' => b \in garbled'
      BY DEF ShownIsTrue
    <3>1. CASE b = a
      BY <2>1, <2>6, <3>1
    <3>2. CASE b # a
      <4>1. /\ <<b, FALSE>> \in listing' <=> <<b, FALSE>> \in listing
            /\ <<b, TRUE>> \in listing' <=> <<b, TRUE>> \in listing
        BY <2>4, <3>2
      <4> QED BY <1>3, <2>1, <2>3, <4>1 DEF ShownIsTrue
    <3> QED BY <3>1, <3>2
  <2> QED BY <1>1, <2>2, <2>7
<1>8. CASE Quiet
  BY <1>1, <1>8 DEF Quiet, WasOverStill, ShownIsTrue
<1> QED BY <1>5, <1>6, <1>7, <1>8, <1>1, ListingCases DEF Tell, LInv

\* SAFETY: what a listing says of an auction is true, with any number of workers
\* and processes, and whatever files cannot be opened, but for what ShownIsTrue
\* names.
THEOREM ShownIsTrueHolds == LSpec => []ShownIsTrue
<1>1. ShownInv => ShownIsTrue
  BY DEF ShownInv
<1> QED BY <1>1, InitShownInv, ShownPreserved, PTL DEF LSpec
-----------------------------------------------------------------------------
(* The fourth part: what its client knows of is listed.                    *)

\* An auction whose id was given out is among those of the user who opened it.
GivenIsHosted ==
    \A r \in Requests \ failed : given[r] # NoId => given[r] \in hosted[r.user]

\* A bid was accepted for an auction that has its START file.
AcceptedHasStart == \A r \in Answered("bid", "ACC") : start[r.id] # NoStart

\* What the client knew of is listed or still to come, and has its START file.
KnownIsComing ==
    /\ wasKnown \subseteq due \cup garbled \cup {l[1] : l \in listing}
    /\ \A a \in wasKnown : start[a] # NoStart

KnownInv == RecordInv /\ LInv /\ GivenIsHosted /\ AcceptedHasStart /\ KnownIsComing

LEMMA InitKnownInv == LInit => KnownInv
<1> SUFFICES ASSUME LInit PROVE KnownInv
  OBVIOUS
<1>1. RecordInv /\ LInv
  BY InitRecordInv, InitLInv DEF LInit
<1>2. GivenIsHosted /\ AcceptedHasStart /\ KnownIsComing
  BY DEF LInit, Init, GivenIsHosted, AcceptedHasStart, Answered, KnownIsComing
<1> QED BY <1>1, <1>2 DEF KnownInv

\* No step takes an entry out of a HOSTED directory, and only the reply to an
\* open request gives an id out.
LEMMA HostedSteps ==
    ASSUME IInv, [Next]_vars
    PROVE  /\ \A u \in Users : hosted[u] \subseteq hosted'[u]
           /\ given' = given \/ \E w \in Workers : OpenReply(w)
<1>1. ASSUME NEW w \in Workers, Host(w)
      PROVE  given' = given /\ \A u \in Users : hosted[u] \subseteq hosted'[u]
  BY <1>1 DEF Host, replyVars, IInv, ServerTypeOK, FilesTypeOK
<1>2. ASSUME NEW w \in Workers, WorkerStep(w), ~Host(w)
      PROVE  hosted' = hosted
  BY <1>2, QuietSteps DEF Reads, WorkerStep, MakeDirectory, WriteStart, MakeBidsDirectory,
     WriteBid, BidEntry
<1>3. ASSUME NEW w \in Workers, WorkerStep(w), ~OpenReply(w)
      PROVE  given' = given
  <2> USE DEF replyVars
  <2>1. CASE \/ \E r \in Requests : Receive(w, r)
             \/ ReadCount(w) \/ WriteCount(w)
             \/ CheckLogin(w, "openLogin", "openPass") \/ OpenPassword(w)
             \/ CheckLogin(w, "bidLogin", "bidPass") \/ BidChecks(w) \/ BidActive(w)
    BY <2>1 DEF Receive, ReadCount, WriteCount, CheckLogin, OpenPassword, BidChecks, BidActive
  <2>2. CASE \/ Host(w) \/ MakeDirectory(w) \/ WriteStart(w) \/ MakeBidsDirectory(w)
             \/ WriteBid(w) \/ BidEntry(w)
    BY <2>2 DEF Host, MakeDirectory, WriteStart, MakeBidsDirectory, WriteBid, BidEntry
  <2>3. CASE \/ GetAuction(w, "closeGet", "closeEnd", "EAU") \/ CloseAuction(w)
             \/ GetAuction(w, "assetGet", "assetShow", "NOK") \/ ShowAsset(w)
             \/ GetAuction(w, "bidGet", "bidLogin", "NOK")
    BY <2>3 DEF GetAuction, CloseAuction, ShowAsset
  <2> QED BY <1>3, <2>1, <2>2, <2>3 DEF WorkerStep
<1>4. CASE UdpStep
  BY <1>4 DEF UdpStep, AccountRequest, HandleLogin, HandleLogout, HandleUnregister,
     SecondFile, Refresh, fileVars, replyVars
<1>5. CASE \/ Tick \/ Shutdown \/ EveryoneLeft \/ Restart \/ Crash \/ UNCHANGED vars
           \/ \E u \in Users : LogOneOut(u)
  BY <1>5 DEF Tick, Shutdown, EveryoneLeft, LogOneOut, Restart, Crash, Boot, fileVars,
     replyVars, vars
<1> QED BY <1>1, <1>2, <1>3, <1>4, <1>5 DEF Next

LEMMA GivenIsHostedKept ==
    ASSUME IInv, [Next]_vars, GivenIsHosted
    PROVE  GivenIsHosted'
<1> SUFFICES ASSUME NEW r \in Requests, r \notin failed', given'[r] # NoId
             PROVE  given'[r] \in hosted'[r.user]
  BY DEF GivenIsHosted
<1>1. /\ r.user \in Users /\ \A u \in Users : hosted[u] \subseteq hosted'[u]
      /\ r \notin failed
  BY RequestFields, HostedSteps, HistorySteps DEF HistoriesGrow
<1>2. CASE given'[r] = given[r]
  BY <1>1, <1>2 DEF GivenIsHosted
<1>3. ASSUME NEW w \in Workers, OpenReply(w), given'[r] # given[r]
      PROVE  given'[r] \in hosted'[r.user]
  <2>1. r = req[w] /\ given'[r] = num[w] /\ pc[w] = "openReply"
    BY <1>3 DEF OpenReply, IInv, ServerTypeOK, RepliesTypeOK
  <2>2. num[w] \in hosted[req[w].user]
    BY <1>1, <2>1 DEF IInv, JobsInOrder, JobOK
  <2> QED BY <1>1, <2>1, <2>2
<1> QED BY <1>2, <1>3, HostedSteps

LEMMA AcceptedHasStartKept ==
    ASSUME RecordInv, [Next]_vars, AcceptedHasStart
    PROVE  AcceptedHasStart'
<1> SUFFICES ASSUME NEW r \in Requests \ (unread' \cup failed'), r.op = "bid", answer'[r] = "ACC"
             PROVE  start'[r.id] # NoStart
  BY DEF AcceptedHasStart, Answered
<1>1. IInv /\ r.id \in Ids /\ r \notin unread \cup failed
  BY RequestFields, HistorySteps DEF RecordInv, HistoriesGrow
<1>2. start[r.id] # NoStart
  <2>1. CASE answer[r] = "ACC"
    BY <1>1, <2>1 DEF AcceptedHasStart, Answered
  <2>2. CASE answer[r] # "ACC"
    <3>1. PICK w \in Workers : BidEntry(w) /\ req[w] = r
      BY <1>1, <2>2, ReplySteps
    <3>2. pc[w] \in AfterGet
      BY <3>1 DEF BidEntry, AfterGet
    <3> QED BY <1>1, <3>1, <3>2 DEF RecordInv, RequestsAtHand, RequestAtHand
  <2> QED BY <2>1, <2>2
<1> QED BY <1>1, <1>2, GrowSteps DEF Grows

\* Every auction that the client of a listing knows of has its entry in the
\* directory that the loop goes through.
LEMMA KnownHasEntry ==
    ASSUME RecordInv, GivenIsHosted, AcceptedHasStart, NEW q \in AskType, NEW a \in Known(q)
    PROVE  a \in Entries(q) /\ start[a] # NoStart
<1>1. q.kind \in Kinds /\ q.user \in Users /\ q.id \in Ids
  BY DEF AskType
<1>2. \A r \in Requests \ failed : given[r] # NoId =>
        /\ given[r] \in Ids /\ made[given[r]] /\ start[given[r]] # NoStart
        /\ given[r] \in hosted[r.user]
  BY DEF RecordInv, IInv, AnnouncedIsComplete, Announced, GivenIsHosted, ServerTypeOK, RepliesTypeOK
<1>3. CASE q.kind = "list"
  BY <1>2, <1>3 DEF Known, Entries, Announced
<1>4. CASE q.kind = "myauctions"
  BY <1>2, <1>4 DEF Known, Entries
<1>5. CASE q.kind = "mybids"
  <2>1. PICK r \in Answered("bid", "ACC") : a = r.id /\ r.user = q.user /\ q.user \notin Padded
    BY <1>5 DEF Known
  <2>2. a \in bidded[q.user] /\ start[a] # NoStart
    BY <2>1 DEF RecordInv, AcceptedIsListed, AcceptedHasStart
  <2> QED BY <1>5, <2>2 DEF Entries
<1>6. CASE q.kind = "record"
  BY <1>2, <1>6 DEF Known, Entries, Announced
<1> QED BY <1>1, <1>3, <1>4, <1>5, <1>6 DEF Kinds

LEMMA KnownPreserved == KnownInv /\ [LNext]_lvars => KnownInv'
<1> SUFFICES ASSUME KnownInv, [LNext]_lvars PROVE KnownInv'
  OBVIOUS
<1> USE DEF KnownInv
<1>1. LInv' /\ [Next]_vars /\ Serving /\ IInv
  BY LInvPreserved, ListingCases DEF LInv
<1>2. RecordInv' /\ GivenIsHosted' /\ AcceptedHasStart'
  BY <1>1, RecordPreserved, GivenIsHostedKept, AcceptedHasStartKept
<1>3. \A a \in Ids : start[a] # NoStart => start'[a] # NoStart
  BY <1>1, GrowSteps DEF Grows
<1>4. wasKnown \subseteq Ids
  BY DEF LInv, ListingTypeOK
<1>5. CASE UNCHANGED listingVars
  BY <1>1, <1>2, <1>3, <1>4, <1>5 DEF listingVars, KnownIsComing
<1>6. ASSUME NEW q \in Asks, ReceiveAsk(q)
      PROVE  KnownIsComing'
  <2>1. /\ due' = Entries(q) /\ wasKnown' = Known(q) /\ UNCHANGED start
    BY <1>6 DEF ReceiveAsk, vars, fileVars
  <2>2. \A a \in Known(q) : a \in Entries(q) /\ start[a] # NoStart
    BY AskFields, KnownHasEntry
  <2> QED BY <2>1, <2>2 DEF KnownIsComing
<1>7. ASSUME NEW a \in Ids \cup {NoId}, Look(a)
      PROVE  KnownIsComing'
  <2>1. /\ due' = due \ {a}
        /\ UNCHANGED <<start, wasKnown>>
    BY <1>7 DEF Look
  <2>2. listing \subseteq listing' /\ garbled \subseteq garbled'
    BY <1>7, LookTurn
  <2>3. ASSUME a \in wasKnown
        PROVE  a \in garbled' \/ \E l \in listing' : l[1] = a
    <3>1. a # NoId
      <4>1. NoId \notin Ids
        BY NoneAssumption, BoundAssumption DEF Ids
      <4> QED BY <1>4, <2>3, <4>1
    <3>2. Readable(a)
      BY <2>3, <3>1 DEF Readable, KnownIsComing
    <3>3. <<a, TRUE>>[1] = a /\ <<a, ActiveNow(a)>>[1] = a
      OBVIOUS
    <3> QED BY <1>7, <3>2, <3>3, LookTurn
  <2>4. wasKnown' \subseteq due' \cup garbled' \cup {l[1] : l \in listing'}
    BY <2>1, <2>2, <2>3 DEF KnownIsComing
  <2> QED BY <2>1, <2>4 DEF KnownIsComing
<1>8. CASE Quiet
  BY <1>1, <1>2, <1>8 DEF Quiet, KnownIsComing
<1> QED BY <1>1, <1>2, <1>5, <1>6, <1>7, <1>8, ListingCases DEF Tell

\* ACTION: a reply leaves out no auction that its client knew of when it asked,
\* whatever the workers wrote since, and however often the server had died, but
\* for those that it could not read.
THEOREM KnownIsListedHolds == LSpec => KnownIsListed
<1>1. KnownInv /\ [LNext]_lvars => KnownInv'
  BY KnownPreserved
<1>2. KnownInv /\ [LNext]_lvars =>
        [ask # NoAsk /\ ask' = NoAsk /\ boots' = boots =>
            wasKnown \subseteq garbled \cup {l[1] : l \in listing}]_lvars
  <2> SUFFICES ASSUME KnownInv, [LNext]_lvars, ask # NoAsk, ask' = NoAsk, boots' = boots
               PROVE  wasKnown \subseteq garbled \cup {l[1] : l \in listing}
    OBVIOUS
  <2>1. Serving /\ boots \in Nat
    BY DEF KnownInv, LInv, IInv, ServerTypeOK, ProcessTypeOK
  <2>2. ~Crash
    BY <2>1 DEF Crash, Boot
  <2>3. \A q \in Asks : ~ReceiveAsk(q)
    BY DEF ReceiveAsk
  <2>4. \A a \in Ids \cup {NoId} : ~Look(a)
    BY DEF Look
  <2>5. Tell
    BY <2>1, <2>2, <2>3, <2>4, ListingCases DEF listingVars
  <2> QED BY <2>5 DEF Tell, ListedAll, KnownInv, KnownIsComing
<1> QED BY <1>1, <1>2, InitKnownInv, PTL DEF LSpec, KnownIsListed
=============================================================================
