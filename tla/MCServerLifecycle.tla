------------------------- MODULE MCServerLifecycle -------------------------
(***************************************************************************)
(* A small instance of ServerLifecycle: two workers and three connections  *)
(* are enough for a full pool, a refusal, a hand-over to a worker on its   *)
(* way back to sleep, and a stop or an exit at any point of these.         *)
(***************************************************************************)
EXTENDS ServerLifecycle

CONSTANTS c1, c2, c3

MCConns == {c1, c2, c3}
=============================================================================
