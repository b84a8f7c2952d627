---------------------------- MODULE AuctionHouse ----------------------------
(***************************************************************************)
(* What the server promises the people who trade on it, with no files,     *)
(* threads or crashes: a lot is put up once, offers on it come from others *)
(* than its owner and are above its start value, and when it is over it    *)
(* stays as it is.  A lot may be withdrawn, for ever.                      *)
(***************************************************************************)
EXTENDS Naturals

CONSTANTS
    Lots,       \* the auction ids
    People,
    Amounts,
    Nobody,     \* no offer of this amount
    NoLot       \* not put up

VARIABLES
    lot,        \* the lots put up: owner and start value
    offers,     \* offers[a][v]: who offered v for a
    over,       \* the lots that take no more offers
    withdrawn   \* the lots that are not traded any more

hvars == <<lot, offers, over, withdrawn>>

NoOffers == [v \in Amounts |-> Nobody]

HInit ==
    /\ lot = [a \in Lots |-> NoLot]
    /\ offers = [a \in Lots |-> NoOffers]
    /\ over = [a \in Lots |-> FALSE]
    /\ withdrawn = {}

PutUp(a) ==
    /\ a \notin withdrawn /\ lot[a] = NoLot
    /\ \E u \in People, v \in Amounts :
        lot' = [lot EXCEPT ![a] = [owner |-> u, value |-> v]]
    /\ UNCHANGED <<offers, over, withdrawn>>

\* An offer above the start value by someone else than the owner.
Admissible(a, u, v) ==
    /\ lot[a] # NoLot /\ ~over[a]
    /\ u # lot[a].owner
    /\ v > lot[a].value

Offer(a, u, v) ==
    /\ Admissible(a, u, v)
    /\ offers' = [offers EXCEPT ![a][v] = u]
    /\ UNCHANGED <<lot, over, withdrawn>>

\* One lot is over, or several at once: when the server dies, every bid that
\* was still under way is gone.
Finish(done) ==
    /\ done # {}
    /\ \A a \in done : lot[a] # NoLot /\ ~over[a]
    /\ over' = [a \in Lots |-> over[a] \/ a \in done]
    /\ UNCHANGED <<lot, offers, withdrawn>>

\* Nothing is left of the lot, and it is not put up again.
Withdraw(a) ==
    /\ withdrawn' = withdrawn \cup {a}
    /\ lot' = [lot EXCEPT ![a] = NoLot]
    /\ offers' = [offers EXCEPT ![a] = NoOffers]
    /\ over' = [over EXCEPT ![a] = FALSE]

HNext ==
    \/ \E a \in Lots :
        \/ PutUp(a)
        \/ \E u \in People, v \in Amounts : Offer(a, u, v)
        \/ Withdraw(a)
    \/ \E done \in SUBSET Lots : Finish(done)

HouseSpec == HInit /\ [][HNext]_hvars
=============================================================================
