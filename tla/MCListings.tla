----------------------------- MODULE MCListings -----------------------------
(***************************************************************************)
(* Two auctions that end by themselves: clients also ask for listings, as  *)
(* often as they like, and the server may die meanwhile.                   *)
(***************************************************************************)
EXTENDS MCAuctionServer, Listings

Ask(k, u, a) == [kind |-> k, user |-> u, id |-> a]

MCAsks ==
    {Ask("list", ana, 1), Ask("myauctions", ana, 1), Ask("mybids", rui, 1), Ask("record", ana, 1)}
=============================================================================
