---------------------------- MODULE WorkerPool ----------------------------
(***************************************************************************)
(* The TCP side of the auction server: the thread of main_tcp accepts      *)
(* connections and delegates each to one of a fixed pool of worker         *)
(* threads; a worker serves one connection at a time, closes it and frees  *)
(* itself (src/Server/worker_pool.cpp, src/Server/server.cpp).             *)
(*                                                                         *)
(* Worker i owns a mutex and a condition variable; the pool owns the mutex *)
(* busy_threads_lock.  A section that takes a mutex, reads and writes      *)
(* without waiting and releases it is one action; a mutex held across      *)
(* several steps is given by the program counters (Locked, PoolLocked).    *)
(***************************************************************************)
EXTENDS Integers, FiniteSets

CONSTANTS
    PoolSize,       \* TCP_WORKER_POOL_SIZE
    Conns,          \* connections that clients may make
    NoConn,         \* the initial tcp_socket_fd, -1
    RetryMax,       \* EXCEPTION_RETRY_MAX
    MaxErrors       \* bound: how many times accept() may fail

ASSUME PoolAssumption == PoolSize \in Nat \ {0}
ASSUME RetryAssumption == RetryMax \in Nat \ {0} /\ MaxErrors \in Nat
ASSUME ConnAssumption == NoConn \notin Conns

Workers == 0 .. PoolSize - 1

VARIABLES
    pc,             \* where each worker thread is in Worker::execute
    toExecute,      \* Worker::to_execute
    shutdown,       \* Worker::shutdown
    fd,             \* Worker::tcp_socket_fd
    busy,           \* WorkerPool::busy_threads
    tcpPc,          \* where the accepting thread is in main_tcp
    target,         \* the worker it delegates to, or destroys
    current,        \* the connection it has just accepted
    exTrial,        \* ex_trial of main_tcp
    stop,           \* the global is_shutting_down
    conn,           \* what has become of each connection
    asked,          \* history: something else than the failing accept loop
                    \* set is_shutting_down: a signal, the UDP thread, listen()
    failures        \* history: rounds of the accept loop that threw

workerVars == <<pc, toExecute, shutdown, fd, busy>>
tcpVars == <<tcpPc, target, current, exTrial>>
vars == <<workerVars, tcpVars, stop, conn, asked, failures>>

\* "head": reads the loop condition; "lock": about to take its mutex;
\* "wait": blocked on the condition variable; "serve": in the packet handler;
\* "free": in freeWorker; "unlock": about to release its mutex.
WorkerPcs == {"head", "lock", "wait", "serve", "free", "unlock", "done"}

TcpPcs == {"listen", "loop", "accept", "taken", "handover", "destroy", "join", "end"}

\* "leaked": accepted after is_shutting_down was set, not closed; "abandoned":
\* its receive timeout could not be set, not closed either.
ConnStates == {"backlog", "accepted", "delegated", "serving", "served",
               "refused", "leaked", "abandoned"}

\* Worker i's mutex is held by its own thread.
Locked(i) == pc[i] \in {"serve", "free", "unlock"}

\* busy_threads_lock is held by the accepting thread.
PoolLocked == tcpPc = "handover"

Init ==
    /\ pc = [i \in Workers |-> "head"]
    /\ toExecute = [i \in Workers |-> FALSE]
    /\ shutdown = [i \in Workers |-> FALSE]
    /\ fd = [i \in Workers |-> NoConn]
    /\ busy = [i \in Workers |-> FALSE]
    /\ tcpPc = "listen"
    /\ target = 0
    /\ current = NoConn
    /\ exTrial = 0
    /\ stop = FALSE
    /\ conn = [c \in Conns |-> "backlog"]
    /\ asked = FALSE
    /\ failures = 0

-----------------------------------------------------------------------------
(* The worker threads.                                                     *)

GoTo(i, label) == pc' = [pc EXCEPT ![i] = label]

\* while (!shutdown): the flag is read without the mutex.
LoopHead(i) ==
    /\ pc[i] = "head"
    /\ GoTo(i, IF shutdown[i] THEN "done" ELSE "lock")
    /\ UNCHANGED <<toExecute, shutdown, fd, busy, tcpVars, stop, conn, asked, failures>>

\* The mutex is taken and the wait condition evaluated.
Sleep(i) ==
    /\ pc[i] = "lock"
    /\ ~toExecute[i] /\ ~shutdown[i]
    /\ GoTo(i, "wait")
    /\ UNCHANGED <<toExecute, shutdown, fd, busy, tcpVars, stop, conn, asked, failures>>

\* A worker told to shut down returns, even when it has a connection to serve.
Quit(i) ==
    /\ pc[i] = "lock"
    /\ shutdown[i]
    /\ GoTo(i, "done")
    /\ UNCHANGED <<toExecute, shutdown, fd, busy, tcpVars, stop, conn, asked, failures>>

Begin(i) ==
    /\ pc[i] = "lock"
    /\ toExecute[i] /\ ~shutdown[i]
    /\ GoTo(i, "serve")
    /\ conn' = [conn EXCEPT ![fd[i]] = "serving"]
    /\ UNCHANGED <<toExecute, shutdown, fd, busy, tcpVars, stop, asked, failures>>

\* cond.wait may return without a notification.
SpuriousWakeup(i) ==
    /\ pc[i] = "wait"
    /\ GoTo(i, "lock")
    /\ UNCHANGED <<toExecute, shutdown, fd, busy, tcpVars, stop, conn, asked, failures>>

\* Mutation: the worker declares itself available before freeWorker.
FinishAndFree(i) ==
    /\ pc[i] = "serve"
    /\ GoTo(i, "free")
    /\ conn' = [conn EXCEPT ![fd[i]] = "served"]
    /\ toExecute' = [toExecute EXCEPT ![i] = FALSE]
    /\ busy' = [busy EXCEPT ![i] = FALSE]
    /\ UNCHANGED <<shutdown, fd, tcpVars, stop, asked, failures>>

\* The handler returns or throws; every catch leads to close(fd).
Finish(i) ==
    /\ pc[i] = "serve"
    /\ GoTo(i, "free")
    /\ conn' = [conn EXCEPT ![fd[i]] = "served"]
    /\ toExecute' = [toExecute EXCEPT ![i] = FALSE]
    /\ UNCHANGED <<shutdown, fd, busy, tcpVars, stop, asked, failures>>

\* freeWorker needs the pool's mutex while the worker's own one is held.
FreeWorker(i) ==
    /\ pc[i] = "free"
    /\ ~PoolLocked
    /\ busy' = [busy EXCEPT ![i] = FALSE]
    /\ GoTo(i, "unlock")
    /\ UNCHANGED <<toExecute, shutdown, fd, tcpVars, stop, conn, asked, failures>>

Unlock(i) ==
    /\ pc[i] = "unlock"
    /\ GoTo(i, "head")
    /\ UNCHANGED <<toExecute, shutdown, fd, busy, tcpVars, stop, conn, asked, failures>>

WorkerStep(i) ==
    \/ LoopHead(i) \/ Sleep(i) \/ Quit(i) \/ Begin(i)
    \/ Finish(i) \/ FreeWorker(i) \/ Unlock(i)

-----------------------------------------------------------------------------
(* The accepting thread.                                                   *)

\* Mutation: the notification is forgotten.
NotifyNobody(i) == pc' = pc

\* notify_one: a worker that is not waiting does not notice.
Notify(i) == pc' = [pc EXCEPT ![i] = IF @ = "wait" THEN "lock" ELSE @]

\* Mutation: the destruction of the pool starts past the end of the array.
PastLastWorker == PoolSize

\* Workers are destroyed in the reverse order of their construction.
LastWorker == PoolSize - 1

Listen ==
    /\ tcpPc = "listen"
    /\ tcpPc' = "loop"
    /\ UNCHANGED <<workerVars, target, current, exTrial, stop, conn, asked, failures>>

\* listen() fails: main_tcp stops the server and returns, so ~WorkerPool runs.
ListenFails ==
    /\ tcpPc = "listen"
    /\ stop' = TRUE
    /\ asked' = TRUE
    /\ tcpPc' = "destroy"
    /\ target' = LastWorker
    /\ UNCHANGED <<workerVars, current, exTrial, conn, failures>>

\* while (!is_shutting_down); on leaving, ~WorkerPool runs.
TcpLoop ==
    /\ tcpPc = "loop"
    /\ IF stop
       THEN tcpPc' = "destroy" /\ target' = LastWorker
       ELSE tcpPc' = "accept" /\ UNCHANGED target
    /\ UNCHANGED <<workerVars, current, exTrial, stop, conn, asked, failures>>

\* accept() times out, or returns after is_shutting_down was set: no exception.
AcceptTimeout ==
    /\ tcpPc = "accept"
    /\ tcpPc' = "loop"
    /\ exTrial' = 0
    /\ UNCHANGED <<workerVars, target, current, stop, conn, asked, failures>>

Accept(c) ==
    /\ tcpPc = "accept"
    /\ conn[c] = "backlog"
    /\ IF stop
       THEN /\ conn' = [conn EXCEPT ![c] = "leaked"]
            /\ tcpPc' = "loop"
            /\ exTrial' = 0
            /\ UNCHANGED current
       ELSE /\ conn' = [conn EXCEPT ![c] = "accepted"]
            /\ tcpPc' = "taken"
            /\ current' = c
            /\ UNCHANGED exTrial
    /\ UNCHANGED <<workerVars, target, stop, asked, failures>>

\* The loop catches an exception; the RetryMax-th in a row stops the server.
RoundThrows ==
    /\ exTrial' = exTrial + 1
    /\ stop' = (stop \/ exTrial + 1 >= RetryMax)
    /\ failures' = failures + 1
    /\ tcpPc' = "loop"

AcceptError ==
    /\ tcpPc = "accept"
    /\ ~stop
    /\ failures < MaxErrors
    /\ RoundThrows
    /\ UNCHANGED <<workerVars, target, current, conn, asked>>

\* setsockopt() fails on the new connection, which nobody closes.
OptionFails(c) ==
    /\ tcpPc = "accept"
    /\ ~stop
    /\ failures < MaxErrors
    /\ conn[c] = "backlog"
    /\ conn' = [conn EXCEPT ![c] = "abandoned"]
    /\ RoundThrows
    /\ UNCHANGED <<workerVars, target, current, asked>>

\* Mutations: busy_threads is not consulted; the last worker is never tried.
IdleAnyWorker == Workers
IdleButLast == {i \in 0 .. PoolSize - 2 : ~busy[i]}

\* The workers that delegateConnection regards as available.
Idle == {i \in Workers : ~busy[i]}

\* delegateConnection takes busy_threads_lock and finds the first idle worker.
PickWorker ==
    /\ tcpPc = "taken"
    /\ Idle # {}
    /\ target' \in {i \in Idle : \A j \in Idle : i <= j}
    /\ tcpPc' = "handover"
    /\ UNCHANGED <<workerVars, current, exTrial, stop, conn, asked, failures>>

\* NoWorkersAvailableException: the connection is closed and the round fails.
Refuse ==
    /\ tcpPc = "taken"
    /\ Idle = {}
    /\ conn' = [conn EXCEPT ![current] = "refused"]
    /\ RoundThrows
    /\ UNCHANGED <<workerVars, target, current, asked>>

\* The worker's mutex is needed while busy_threads_lock is held.
HandOver ==
    /\ tcpPc = "handover"
    /\ ~Locked(target)
    /\ busy' = [busy EXCEPT ![target] = TRUE]
    /\ fd' = [fd EXCEPT ![target] = current]
    /\ toExecute' = [toExecute EXCEPT ![target] = TRUE]
    /\ Notify(target)
    /\ conn' = [conn EXCEPT ![current] = "delegated"]
    /\ exTrial' = 0
    /\ tcpPc' = "loop"
    /\ UNCHANGED <<shutdown, target, current, stop, asked, failures>>

\* ~Worker: tells the worker to stop, then waits for its thread.
TellWorker ==
    /\ tcpPc = "destroy"
    /\ ~Locked(target)
    /\ shutdown' = [shutdown EXCEPT ![target] = TRUE]
    /\ Notify(target)
    /\ tcpPc' = "join"
    /\ UNCHANGED <<toExecute, fd, busy, target, current, exTrial, stop, conn, asked, failures>>

JoinWorker ==
    /\ tcpPc = "join"
    /\ pc[target] = "done"
    /\ IF target = 0
       THEN tcpPc' = "end" /\ UNCHANGED target
       ELSE tcpPc' = "destroy" /\ target' = target - 1
    /\ UNCHANGED <<workerVars, current, exTrial, stop, conn, asked, failures>>

TcpStep ==
    \/ Listen \/ ListenFails
    \/ TcpLoop \/ AcceptTimeout \/ AcceptError \/ PickWorker \/ Refuse
    \/ HandOver \/ TellWorker \/ JoinWorker
    \/ \E c \in Conns : Accept(c) \/ OptionFails(c)

PoolStep ==
    \/ \E i \in Workers : WorkerStep(i) \/ SpuriousWakeup(i)
    \/ TcpStep

\* The signal handler, or the UDP thread giving up, sets is_shutting_down.
RequestStop ==
    /\ ~stop
    /\ stop' = TRUE
    /\ asked' = TRUE
    /\ UNCHANGED <<workerVars, tcpVars, conn, failures>>

\* main_tcp has returned: nothing is left to do.
Ended == tcpPc = "end" /\ UNCHANGED vars

Next ==
    \/ PoolStep
    \/ RequestStop
    \/ Ended

Spec == Init /\ [][Next]_vars

-----------------------------------------------------------------------------
(* Properties.                                                             *)

TypeOK ==
    /\ pc \in [Workers -> WorkerPcs]
    /\ toExecute \in [Workers -> BOOLEAN]
    /\ shutdown \in [Workers -> BOOLEAN]
    /\ fd \in [Workers -> Conns \cup {NoConn}]
    /\ busy \in [Workers -> BOOLEAN]
    /\ tcpPc \in TcpPcs
    /\ target \in Workers
    /\ current \in Conns \cup {NoConn}
    /\ exTrial \in Nat
    /\ stop \in BOOLEAN
    /\ conn \in [Conns -> ConnStates]
    /\ asked \in BOOLEAN
    /\ failures \in Nat

\* SAFETY: a worker never sleeps on its condition variable while it has a
\* connection to serve or has been told to stop (the notification that
\* delegateConnection or ~Worker sends is never lost).
NoLostWakeup ==
    \A i \in Workers : pc[i] = "wait" => ~toExecute[i] /\ ~shutdown[i]

\* SAFETY: the accepting thread, holding busy_threads_lock, never waits for
\* the mutex of a worker that itself waits for busy_threads_lock in
\* freeWorker: the two locks are taken in both orders, and never deadlock.
NoDeadlyEmbrace ==
    tcpPc = "handover" => pc[target] # "free"

\* SAFETY: a connection that has been delegated and not yet served is in the
\* hands of exactly one worker, which has no other: a delegation never
\* overwrites an earlier one.
OneWorkerPerConnection ==
    \A c \in Conns :
        conn[c] \in {"delegated", "serving"} =>
            /\ \E i \in Workers : fd[i] = c /\ toExecute[i]
            /\ \A i, j \in Workers : fd[i] = c /\ fd[j] = c => i = j

\* SAFETY: the accept loop gives up by itself only after RetryMax rounds failed.
StaysUp == stop /\ ~asked => failures >= RetryMax

\* SAFETY: when the TCP server has shut down, no connection that it accepted
\* is left without having been served.
ExistingConnectionsFinish ==
    tcpPc = "end" =>
        \A c \in Conns : conn[c] \notin {"accepted", "delegated", "serving"}

\* A connection as its client sees it.
ClientView(c) ==
    CASE conn[c] \in {"backlog", "accepted", "leaked", "abandoned"} -> "pending"
      [] conn[c] \in {"delegated", "serving"} -> "open"
      [] conn[c] = "refused" -> "turnedAway"
      [] conn[c] = "served" ->
            IF \E i \in Workers : fd[i] = c /\ pc[i] = "free"
            THEN "answered" ELSE "released"

Service == INSTANCE ConnectionService WITH
    Capacity <- PoolSize,
    status <- [c \in Conns |-> ClientView(c)],
    stopping <- stop

\* REFINEMENT: the pool of threads implements ConnectionService.
ImplementsService == Service!SSpec
=============================================================================
