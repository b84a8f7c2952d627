-------------------------- MODULE ServerLifecycle --------------------------
(***************************************************************************)
(* The server process around its worker pool: the main thread, which       *)
(* serves UDP and counts its own failures, the signals, and the end of the *)
(* process, ordered (main has joined the thread of main_tcp) or sudden (a  *)
(* second signal calls exit) (src/Server/server.cpp, src/common/common.cpp).*)
(*                                                                         *)
(* The threads of the pool take the steps of WorkerPool for as long as the *)
(* process lives.                                                          *)
(***************************************************************************)
EXTENDS WorkerPool

VARIABLES
    mainPc,         \* where the main thread is, or how the process ended
    udpTrial        \* ex_trial of main

mainVars == <<mainPc, udpTrial>>
lvars == <<vars, mainVars>>

\* "loop": serves UDP packets; "joining": everyone is logged out, waits for
\* tcp_thread; "ended": main has returned; "killed": exit was called.
MainPcs == {"loop", "joining", "ended", "killed"}

Over == mainPc \in {"ended", "killed"}

LInit ==
    /\ Init
    /\ mainPc = "loop"
    /\ udpTrial = 0

\* A step of the thread of main_tcp or of a worker.
ThreadStep(step) == ~Over /\ step /\ UNCHANGED mainVars

\* A packet was handled, whatever its handler threw, or recvfrom timed out.
UdpRound ==
    /\ mainPc = "loop"
    /\ udpTrial' = 0
    /\ UNCHANGED <<vars, mainPc>>

\* recvfrom fails; the RetryMax-th time in a row the server stops.
UdpRoundThrows ==
    /\ mainPc = "loop"
    /\ ~stop
    /\ udpTrial' = udpTrial + 1
    /\ IF udpTrial + 1 >= RetryMax THEN RequestStop ELSE UNCHANGED vars
    /\ UNCHANGED mainPc

\* main leaves its loop, logs everyone out and waits for the TCP server; its
\* counter is not looked at again.
LeaveLoop ==
    /\ mainPc = "loop"
    /\ stop
    /\ mainPc' = "joining"
    /\ udpTrial' = 0
    /\ UNCHANGED vars

\* Mutation: main waits for the loop of main_tcp, not for its thread.
JoinLoop ==
    /\ mainPc = "joining"
    /\ tcpPc \in {"destroy", "end"}
    /\ mainPc' = "ended"
    /\ UNCHANGED <<vars, udpTrial>>

JoinTcp ==
    /\ mainPc = "joining"
    /\ tcpPc = "end"
    /\ mainPc' = "ended"
    /\ UNCHANGED <<vars, udpTrial>>

\* terminate_signal_handler: the first signal asks for a stop; when the server
\* is stopping already the process exits at once.
Signal ==
    /\ ~Over
    /\ IF stop
       THEN mainPc' = "killed" /\ UNCHANGED <<vars, udpTrial>>
       ELSE RequestStop /\ UNCHANGED mainVars

MainStep == LeaveLoop \/ JoinTcp

\* Nothing is left of the process.
Gone == Over /\ UNCHANGED lvars

LNext ==
    \/ ThreadStep(PoolStep)
    \/ UdpRound \/ UdpRoundThrows
    \/ MainStep
    \/ Signal
    \/ Gone

LSpec == LInit /\ [][LNext]_lvars

\* The threads of the pool as in WorkerPool; the main thread is scheduled, and
\* recvfrom returns within its receive timeout.
LFairness ==
    /\ \A i \in Workers : WF_lvars(ThreadStep(WorkerStep(i)))
    /\ WF_lvars(ThreadStep(TcpStep))
    /\ WF_lvars(MainStep)

LFairSpec == LSpec /\ LFairness

-----------------------------------------------------------------------------
(* Properties.                                                             *)

LifecycleTypeOK ==
    /\ TypeOK
    /\ mainPc \in MainPcs
    /\ udpTrial \in 0 .. RetryMax

\* SAFETY: main returns, and with it the state that the workers refer to goes
\* away, only when every worker thread has ended and serves nobody.
JoinedBeforeEnd ==
    mainPc = "ended" =>
        /\ \A i \in Workers : pc[i] = "done"
        /\ \A c \in Conns : conn[c] # "serving"

\* LIVENESS: once is_shutting_down is set the process ends, without a further
\* signal.
StopEnds == stop ~> Over

\* A client has been accepted, and has neither been turned away nor served by
\* a worker that is free again.
Waiting(c) ==
    \/ conn[c] \in {"accepted", "delegated", "serving", "leaked"}
    \/ ClientView(c) = "answered"

\* LIVENESS: nobody waits for ever.  A client whose connection was accepted (a
\* connection is accepted once) is served or turned away, or sees it closed
\* with the process, also when it was accepted after the stop or dropped by a
\* worker that stops.  The one exception is a connection whose receive timeout
\* could not be set.
NobodyLeftHanging == <>[](\A c \in Conns : Waiting(c) => Over)
=============================================================================
