------------------------------- MODULE MCWire -------------------------------
(***************************************************************************)
(* One value for each type of field, and two where a packet has several    *)
(* fields of one type; a record of up to three bids of which two are       *)
(* shown.                                                                  *)
(***************************************************************************)
EXTENDS Wire

MCTexts ==
    [user |-> {"ana"}, word |-> {"p", "q"}, auction |-> {"001", "002"}, int |-> {"10", "20"},
     file |-> {"photo"}, size |-> {0, 2}, date |-> {"today"}, state |-> {"0"}]
=============================================================================
