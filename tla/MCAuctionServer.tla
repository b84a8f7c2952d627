-------------------------- MODULE MCAuctionServer --------------------------
(***************************************************************************)
(* Small instances of AuctionServer.  Each scenario fixes the requests     *)
(* that clients send, each of them at most once, in any order and on any   *)
(* worker; a run of several scenarios takes up each of them by itself.     *)
(***************************************************************************)
EXTENDS AuctionServer, TLC

CONSTANTS w1, w2, ana, rui, eva, p, q

Open(u, pw, v, d, t) ==
    [op |-> "open", user |-> u, pw |-> pw, id |-> 1, value |-> v, duration |-> d, tag |-> t]
Close(u, a, t) ==
    [op |-> "close", user |-> u, pw |-> p, id |-> a, value |-> 1, duration |-> 0, tag |-> t]
Asset(a, t) ==
    [op |-> "asset", user |-> ana, pw |-> p, id |-> a, value |-> 1, duration |-> 0, tag |-> t]
Bid(u, pw, a, v, t) ==
    [op |-> "bid", user |-> u, pw |-> pw, id |-> a, value |-> v, duration |-> 0, tag |-> t]

\* Which worker is which makes no difference to the safety properties.
WorkerSymmetry == Permutations(Workers)

MCUsers == {ana, rui}
ThreeUsers == {ana, rui, eva}
MCValues == 1 .. 2
LoginsAna == {<<ana, p>>}
LoginsP == {<<ana, p>>, <<rui, p>>}
LoginsThree == LoginsP \cup {<<eva, p>>}
\* eva may have another password than the one she trades with.
LoginsPQ == LoginsThree \cup {<<eva, q>>}

\* The number of an auction or of none, whose owner seems to be ana or nobody.
MCGarbage == [id : {1, NoId}, owner : {ana, NoUser}, highest : {0}]

\* One auction that starts at 1 and lasts a second, rui's bid on it, and ana's
\* close, all at any moment, also while it is being opened.
OneAuction == {Open(ana, p, 1, 1, 0), Bid(rui, p, 1, 2, 0), Close(ana, 1, 0)}

\* Two opens, of which one gets the id or both get the same; rui bids on the
\* auction, which may be his own, and ana tries to close it.
TwoAuctions == OneAuction \cup {Open(rui, p, 1, 1, 0)}

\* rui and eva bid the same.
EqualBids == {Open(ana, p, 1, 1, 0), Bid(rui, p, 1, 2, 0), Bid(eva, p, 1, 2, 0)}

\* Everybody who may write an END file: a close, a request for the asset, which
\* updates the auction twice, and the UDP thread.
Endings == {Open(ana, p, 1, 1, 0), Close(ana, 1, 0), Asset(1, 0)}

\* Two auctions are opened at any moment.
TwoOpens == {Open(ana, p, 1, 1, 0), Open(rui, p, 1, 1, 0)}

\* Eva, who comes and goes, opens one of them.
EvaOpens == {Open(ana, p, 1, 1, 0), Open(eva, p, 1, 1, 0)}

\* rui, who is not logged in, uses up an id; ana opens two auctions.
ThreeOpens ==
    {Open(rui, p, 1, 1, 0), Open(ana, p, 1, 1, 0), Open(ana, p, 2, 1, 1)}

\* Two auctions that end by themselves, and bids on one.
ListedRequests ==
    {Open(ana, p, 1, 1, 0), Open(rui, p, 2, 1, 0), Bid(rui, p, 1, 2, 0)}

HouseRequests == TwoAuctions \cup EqualBids
FilesRequests == EvaOpens \cup Endings \cup OneAuction

\* The scenario: only these requests have been sent, by these users.
Only(requests, users) ==
    /\ \A r \in Requests : answer[r] # "unsent" => r \in requests
    /\ \A u \in Users \ users : pass[u] = NoPass /\ u \notin keyless

\* CONSTRAINT: trade without failures, or equal bids with them, whenever that is.
HouseScenarios ==
    \/ Only(TwoAuctions, {ana, rui}) /\ failed = {}
    \/ Only(EqualBids, {ana, rui, eva}) /\ now = 0

\* CONSTRAINT: accounts that come and go under their auctions, or any ending
\* of an auction, or one auction with a bid.
FilesScenarios ==
    \/ Only(EvaOpens, {ana, eva}) /\ now = 0
    \/ Only(Endings, {ana}) /\ keyless = {}
    \/ Only(OneAuction, {ana, rui}) /\ keyless = {}
=============================================================================
