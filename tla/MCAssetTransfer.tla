-------------------------- MODULE MCAssetTransfer --------------------------
(***************************************************************************)
(* Uploads of one name, of two chunks, one and none, for auctions with two *)
(* ids, and a request for the asset of the first id.                       *)
(***************************************************************************)
EXTENDS AssetTransfer

Upload(k) == [name |-> "photo", size |-> k, tag |-> 0]

MCUploads == {Upload(k) : k \in 0 .. 2}
MCDownloads == {[of |-> 1, tag |-> 0]}

\* CONSTRAINT: three uploads to one process, or two and the download.
MCScenarios ==
    \/ boots = 1 /\ \A d \in Downloads : sas[d] = "unsent"
    \/ stage[Upload(0)] = "unsent"
=============================================================================
