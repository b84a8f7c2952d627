------------------------- MODULE ConnectionService -------------------------
(***************************************************************************)
(* What the TCP side of the auction server promises its clients, with no   *)
(* threads, locks or condition variables: a connection is taken into one   *)
(* of Capacity slots, answered once, and its slot is then given back; a    *)
(* connection is turned away only when every slot is taken.  WorkerPool    *)
(* is shown to implement this specification.                               *)
(***************************************************************************)
EXTENDS Naturals, FiniteSets

CONSTANTS
    Conns,      \* the connections clients make
    Capacity    \* how many are handled at once (TCP_WORKER_POOL_SIZE), at least one

VARIABLES
    status,     \* what has become of each connection
    stopping    \* the server has been told, or has decided, to stop

svars == <<status, stopping>>

Statuses == {"pending", "open", "answered", "released", "turnedAway"}

STypeOK ==
    /\ status \in [Conns -> Statuses]
    /\ stopping \in BOOLEAN

\* The connections that occupy a slot.
Slots == {c \in Conns : status[c] \in {"open", "answered"}}

SInit ==
    /\ status = [c \in Conns |-> "pending"]
    /\ stopping = FALSE

Move(c, from, to) ==
    /\ status[c] = from
    /\ status' = [status EXCEPT ![c] = to]

Open(c) ==
    /\ Cardinality(Slots) < Capacity
    /\ Move(c, "pending", "open")
    /\ UNCHANGED stopping

\* The connection is served and closed; its slot is still taken.
Answer(c) == Move(c, "open", "answered") /\ UNCHANGED stopping

Release(c) == Move(c, "answered", "released") /\ UNCHANGED stopping

\* A refusal may also be the last straw after which the server stops.
TurnAway(c) ==
    /\ Cardinality(Slots) = Capacity
    /\ Move(c, "pending", "turnedAway")
    /\ stopping' \in {stopping, TRUE}

Stop == stopping' = TRUE /\ UNCHANGED status

SNext ==
    \/ \E c \in Conns : Open(c) \/ Answer(c) \/ Release(c) \/ TurnAway(c)
    \/ Stop

SSpec == SInit /\ [][SNext]_svars
=============================================================================
