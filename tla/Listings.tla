------------------------------ MODULE Listings ------------------------------
(***************************************************************************)
(* What the server tells about its auctions: list, myauctions, mybids and  *)
(* show_record.  The UDP thread goes through a directory, or looks at one  *)
(* auction, while the workers and the clock of AuctionServer go on; each   *)
(* auction is looked at under its mutex, the directory under none.         *)
(***************************************************************************)
EXTENDS AuctionServer

CONSTANTS
    Asks,           \* the listings that clients ask for, any number of times
    NoAsk

Kinds == {"list", "myauctions", "mybids", "record"}

\* A request; list needs no field, show_record the id, the others the user.
AskType == [kind : Kinds, user : Users, id : Ids]

ASSUME AskAssumption == Asks \subseteq AskType /\ NoAsk \notin AskType

VARIABLES
    ask,        \* the request that the UDP thread serves
    due,        \* entries its directory_iterator has yet to come to
    seen,       \* entries it has come to
    listing,    \* auctionList, or the auction that show_record has read
    garbled,    \* history: entries of which a file could not be read or made
    wasOver,    \* history: auctions that were over when it was received
    wasKnown    \* history: auctions that its client knew of by then

listingVars == <<ask, due, seen, listing, garbled, wasOver, wasKnown>>
lvars == <<vars, listingVars>>

Quiet ==
    /\ ask' = NoAsk
    /\ due' = {} /\ seen' = {} /\ listing' = {} /\ garbled' = {}
    /\ wasOver' = {} /\ wasKnown' = {}

LInit ==
    /\ Init
    /\ ask = NoAsk
    /\ due = {} /\ seen = {} /\ listing = {} /\ garbled = {}
    /\ wasOver = {} /\ wasKnown = {}

\* Mutation: the two directories of a user are swapped.
EntriesSwapped(q) ==
    CASE q.kind = "list" -> {a \in Ids : made[a]}
      [] q.kind = "myauctions" -> bidded[q.user]
      [] q.kind = "mybids" -> hosted[q.user]
      [] q.kind = "record" -> {q.id}

\* The directory that a request goes through; show_record looks for one START.
Entries(q) ==
    CASE q.kind = "list" -> {a \in Ids : made[a]}
      [] q.kind = "myauctions" -> hosted[q.user]
      [] q.kind = "mybids" -> bidded[q.user]
      [] q.kind = "record" -> IF start[q.id] = NoStart THEN {} ELSE {q.id}

\* What the client may expect to see, by the answers that were given: every
\* auction, the user's own, those he has bid on, as far as their files could be
\* made.  The code looks for the bids of a padded id where they are not.
Known(q) ==
    CASE q.kind = "list" -> Announced
      [] q.kind = "myauctions" ->
            {given[r] : r \in {s \in Requests \ failed : s.user = q.user}} \ {NoId}
      [] q.kind = "mybids" ->
            {r.id : r \in {s \in Answered("bid", "ACC") :
                                s.user = q.user /\ q.user \notin Padded}}
      [] q.kind = "record" -> Announced \cap {q.id}

\* listMyAuctions asks for a login, the others do not.
Allowed(q) == q.kind \in {"myauctions", "mybids"} => UserLoggedIn(q.user)

\* A request without a login is answered NLG and nothing is looked at.
ReceiveAsk(q) ==
    /\ phase = "up" /\ udpPc = "idle" /\ ask = NoAsk
    /\ Allowed(q)
    /\ ask' = q
    /\ due' = Entries(q)
    /\ seen' = {}
    /\ listing' = {}
    /\ garbled' = {}
    /\ wasOver' = {a \in Ids : IsOver(a)}
    /\ wasKnown' = Known(q)
    /\ UNCHANGED vars

\* Mutation: the END file is looked for before the auction is updated.
ActiveBefore(a) == end[a] = "none"

\* auctionIsActive after UpdateAuction.
ActiveNow(a) == Updated(a)[a] = "none"

\* UpdateAuction throws for an auction without START and END, inside
\* safeLockAuction: the auction is left out.
Readable(a) == a # NoId /\ (start[a] # NoStart \/ end[a] # "none")

Shown(a) == IF Readable(a) THEN {<<a, ActiveNow(a)>>} ELSE {}

\* The auction is looked at and goes into the listing.
See(a) ==
    /\ ask.kind = "record" => bidsDir[a]
    /\ listing' = listing \cup Shown(a)
    /\ end' = Updated(a)
    /\ UNCHANGED garbled

\* The auction has no BIDS directory, or a file of it cannot be opened, and
\* safeLockAuction swallows the exception: a list leaves the auction out;
\* show_record shows an AuctionData that was not filled, whose empty endTime
\* makes it active.
Miss(a) ==
    /\ IF ask.kind = "record"
       THEN /\ listing' = listing \cup {<<a, TRUE>>}
            /\ end' \in {end, Updated(a)}
       ELSE UNCHANGED <<listing, end>>
    /\ garbled' = garbled \cup {a}

\* One turn of the loop.  The iterator comes to every entry that was there when
\* it was opened, and may come to those made since.
Look(a) ==
    /\ ask # NoAsk
    /\ a \in due \/ (ask.kind # "record" /\ a \in Entries(ask) \ seen)
    /\ due' = due \ {a}
    /\ seen' = seen \cup {a}
    /\ See(a) \/ Miss(a)
    /\ UNCHANGED <<accountVars, hosted, bidded, made, start, bidsDir, bids,
                   processVars, jobVars, replyVars, historyVars, ask, wasOver, wasKnown>>

ListedAll == due = {}

\* The reply is sent: the listing in order, or NOK for an empty one.
Tell ==
    /\ ask # NoAsk /\ ListedAll
    /\ Quiet
    /\ UNCHANGED vars

ListingStep ==
    \/ \E q \in Asks : ReceiveAsk(q)
    \/ \E a \in Ids \cup {NoId} : Look(a)
    \/ Tell

\* The UDP thread serves one request at a time, and is the one that leaves the
\* loop of main.
LNext ==
    \/ /\ \/ \E w \in Workers : WorkerStep(w)
          \/ Tick
          \/ /\ ask = NoAsk
             /\ \/ AccountRequest \/ Shutdown \/ EveryoneLeft \/ Restart
                \/ \E u \in Users : LogOneOut(u)
       /\ UNCHANGED listingVars
    \/ ListingStep
    \/ Crash /\ Quiet

LSpec == LInit /\ [][LNext]_lvars

-----------------------------------------------------------------------------
(* Properties.                                                             *)

ListingTypeOK ==
    /\ ServerTypeOK
    /\ ask \in AskType \cup {NoAsk}
    /\ due \in SUBSET (Ids \cup {NoId})
    /\ seen \in SUBSET (Ids \cup {NoId})
    /\ listing \in SUBSET (Ids \X BOOLEAN)
    /\ garbled \in SUBSET (Ids \cup {NoId})
    /\ wasOver \in SUBSET Ids
    /\ wasKnown \in SUBSET Ids

\* SAFETY: what a listing says of an auction is true: one that is shown as ended
\* has its END file, one that was over when the request arrived, whether or not
\* anybody had noticed, is not shown as active, and none is shown both ways.
\* The exceptions are an auction whose START is written over meanwhile, and the
\* record of one that has no BIDS directory or a file that cannot be opened: it
\* may be shown as active when it is over.
ShownIsTrue ==
    \A a \in Ids :
        /\ <<a, FALSE>> \in listing => end[a] # "none" /\ <<a, TRUE>> \notin listing
        /\ <<a, TRUE>> \in listing /\ a \in wasOver \ spoilt => a \in garbled

\* ACTION: when the reply goes out, every auction that its client knew of when
\* it asked is in it, though workers may have been writing files all along, but
\* for those of which a file cannot be opened.
KnownIsListed ==
    [][ask # NoAsk /\ ask' = NoAsk /\ boots' = boots =>
        wasKnown \subseteq garbled \cup {l[1] : l \in listing}]_lvars
=============================================================================
