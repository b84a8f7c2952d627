-------------------------- MODULE MCClientSession --------------------------
(***************************************************************************)
(* Small instances of ClientSession: two clients that log in as the same   *)
(* user, with the same password or with different ones.                    *)
(***************************************************************************)
EXTENDS ClientSession

CONSTANTS c1, c2, p, q

MCClients == {c1, c2}
MCPasswords == {p, q}
=============================================================================
