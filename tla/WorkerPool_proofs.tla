------------------------- MODULE WorkerPool_proofs -------------------------
(***************************************************************************)
(* Proofs about WorkerPool, for every size of the pool and every set of    *)
(* connections.  The inductive invariant IInv adds to the properties how   *)
(* busy_threads, to_execute and the position of a worker relate, and where *)
(* a connection is while a worker still knows its descriptor.  With it     *)
(* every step of the pool is a step, or no step, of ConnectionService.     *)
(***************************************************************************)
EXTENDS WorkerPool, FiniteSetTheorems, FunctionTheorems, TLAPS

\* busy_threads[i] is set exactly while worker i has a connection, or has
\* closed it and is on its way to clear the flag.
BusyMatches ==
    \A i \in Workers :
        /\ busy[i] <=> (toExecute[i] \/ pc[i] = "free")
        /\ pc[i] = "serve" => toExecute[i]
        /\ pc[i] = "free" => ~toExecute[i]

\* The connection in the accepting thread's hands is known to no worker.
InHand ==
    /\ tcpPc \in {"taken", "handover"} => current \in Conns /\ conn[current] = "accepted"
    /\ tcpPc = "handover" => ~busy[target]

\* A descriptor stays with the one worker it was given to.
Descriptors ==
    /\ \A i \in Workers :
        fd[i] # NoConn => conn[fd[i]] \in {"delegated", "serving", "served"}
    /\ \A i \in Workers :
        toExecute[i] => fd[i] # NoConn /\ conn[fd[i]] \in {"delegated", "serving"}
    /\ \A i \in Workers :
        pc[i] = "free" => fd[i] # NoConn /\ conn[fd[i]] = "served"
    /\ \A i, j \in Workers : fd[i] = fd[j] /\ fd[i] # NoConn => i = j
    /\ \A c \in Conns : conn[c] \in {"delegated", "serving"} =>
        \E i \in Workers : fd[i] = c /\ toExecute[i]

\* The retry counter never runs ahead of the failures it counts.
Retries == exTrial <= failures /\ StaysUp

IInv ==
    /\ TypeOK
    /\ BusyMatches
    /\ NoLostWakeup
    /\ InHand
    /\ Descriptors
    /\ Retries

LEMMA InitIInv == Init => IInv
<1> SUFFICES ASSUME Init PROVE IInv
  OBVIOUS
<1> USE DEF Init
<1>1. 0 \in Workers
  BY PoolAssumption DEF Workers
<1>2. TypeOK
  BY <1>1 DEF TypeOK, WorkerPcs, TcpPcs, ConnStates
<1>3. BusyMatches /\ NoLostWakeup /\ InHand
  BY DEF BusyMatches, NoLostWakeup, InHand
<1>4. Descriptors /\ Retries
  BY DEF Descriptors, Retries, StaysUp
<1> QED BY <1>2, <1>3, <1>4 DEF IInv

\* The steps of a worker that touch neither a connection nor busy_threads.
QuietStep(i) == LoopHead(i) \/ Sleep(i) \/ Quit(i) \/ SpuriousWakeup(i) \/ Unlock(i)

\* Moving between its waiting points, a worker only has to keep NoLostWakeup.
LEMMA QuietPreserves ==
    ASSUME IInv, NEW i \in Workers, QuietStep(i)
    PROVE  IInv'
<1> USE DEF IInv, TypeOK, GoTo, tcpVars, QuietStep, LoopHead, Sleep, Quit,
            SpuriousWakeup, Unlock
<1>1. TypeOK'
  BY DEF WorkerPcs
<1>2. BusyMatches' /\ NoLostWakeup'
  BY DEF BusyMatches, NoLostWakeup
<1>3. InHand' /\ Descriptors' /\ Retries'
  BY DEF InHand, Descriptors, Retries, StaysUp
<1> QED BY <1>1, <1>2, <1>3

\* Begin: the connection goes from "delegated" to "serving".
LEMMA BeginPreserves ==
    ASSUME IInv, NEW i \in Workers, Begin(i)
    PROVE  IInv'
<1> USE DEF IInv, TypeOK, GoTo, tcpVars, Begin
<1>1. /\ fd[i] \in Conns
      /\ conn' = [conn EXCEPT ![fd[i]] = "serving"]
      /\ conn[fd[i]] \in {"delegated", "serving"}
  BY DEF Descriptors
<1>2. TypeOK'
  BY <1>1 DEF WorkerPcs, ConnStates
<1>3. BusyMatches' /\ NoLostWakeup'
  BY DEF BusyMatches, NoLostWakeup
<1>4. InHand'
  BY <1>1 DEF InHand
<1>5. Descriptors'
  BY <1>1 DEF Descriptors
<1>6. Retries'
  BY DEF Retries, StaysUp
<1> QED BY <1>2, <1>3, <1>4, <1>5, <1>6

\* Finish: the connection is closed, and no other worker has its descriptor.
LEMMA FinishPreserves ==
    ASSUME IInv, NEW i \in Workers, Finish(i)
    PROVE  IInv'
<1> USE DEF IInv, TypeOK, GoTo, tcpVars, Finish
<1>1. /\ toExecute[i]
      /\ fd[i] \in Conns
      /\ conn[fd[i]] \in {"delegated", "serving"}
      /\ \A j \in Workers : fd[j] = fd[i] => j = i
  BY ConnAssumption DEF Descriptors, BusyMatches
<1>2. TypeOK'
  BY <1>1 DEF WorkerPcs, ConnStates
<1>3. BusyMatches' /\ NoLostWakeup'
  BY <1>1 DEF BusyMatches, NoLostWakeup
<1>4. InHand'
  BY <1>1 DEF InHand
<1>5. Descriptors'
  BY <1>1 DEF Descriptors
<1>6. Retries'
  BY DEF Retries, StaysUp
<1> QED BY <1>2, <1>3, <1>4, <1>5, <1>6

\* FreeWorker: the flag is cleared outside the accepting thread's section.
LEMMA FreePreserves ==
    ASSUME IInv, NEW i \in Workers, FreeWorker(i)
    PROVE  IInv'
<1> USE DEF IInv, TypeOK, GoTo, tcpVars, FreeWorker
<1>1. TypeOK'
  BY DEF WorkerPcs
<1>2. BusyMatches' /\ NoLostWakeup'
  BY DEF BusyMatches, NoLostWakeup
<1>3. InHand'
  BY DEF InHand, PoolLocked
<1>4. Descriptors' /\ Retries'
  BY DEF Descriptors, Retries, StaysUp
<1> QED BY <1>1, <1>2, <1>3, <1>4

\* The accepting thread's steps that leave workers and connections alone.
LEMMA TcpQuietPreserves ==
    ASSUME IInv,
           \/ Listen \/ ListenFails \/ TcpLoop \/ AcceptTimeout \/ AcceptError
           \/ PickWorker \/ JoinWorker
    PROVE  IInv'
<1> USE DEF IInv, TypeOK, workerVars, Listen, ListenFails, TcpLoop, AcceptTimeout, AcceptError,
            PickWorker, JoinWorker, RoundThrows
<1>1. TypeOK'
  <2>1. target' \in Workers
    BY PoolAssumption DEF Workers, LastWorker, Idle
  <2>2. exTrial' \in Nat /\ failures' \in Nat
    OBVIOUS
  <2>3. tcpPc' \in TcpPcs
    BY DEF TcpPcs
  <2>4. stop' \in BOOLEAN
    OBVIOUS
  <2> QED BY <2>1, <2>2, <2>3, <2>4
<1>2. BusyMatches' /\ NoLostWakeup' /\ Descriptors'
  BY DEF BusyMatches, NoLostWakeup, Descriptors
<1>3. InHand'
  BY DEF InHand, Idle
<1>4. Retries'
  BY RetryAssumption DEF Retries, StaysUp
<1> QED BY <1>1, <1>2, <1>3, <1>4

\* Accept and Refuse change a connection that no worker knows yet.
LEMMA AcceptPreserves ==
    ASSUME IInv, NEW c \in Conns, Accept(c)
    PROVE  IInv'
<1> USE DEF IInv, TypeOK, workerVars, Accept
<1>1. /\ conn[c] = "backlog"
      /\ \E s \in {"leaked", "accepted"} : conn' = [conn EXCEPT ![c] = s]
  OBVIOUS
<1>2. TypeOK'
  BY <1>1 DEF TcpPcs, ConnStates
<1>3. BusyMatches' /\ NoLostWakeup'
  BY DEF BusyMatches, NoLostWakeup
<1>4. InHand'
  BY DEF InHand
<1>5. Descriptors'
  BY <1>1 DEF Descriptors
<1>6. Retries'
  BY DEF Retries, StaysUp
<1> QED BY <1>2, <1>3, <1>4, <1>5, <1>6

LEMMA OptionFailsPreserves ==
    ASSUME IInv, NEW c \in Conns, OptionFails(c)
    PROVE  IInv'
<1> USE DEF IInv, TypeOK, workerVars, OptionFails, RoundThrows
<1>1. conn[c] = "backlog" /\ conn' = [conn EXCEPT ![c] = "abandoned"]
  OBVIOUS
<1>2. TypeOK'
  BY <1>1 DEF TcpPcs, ConnStates
<1>3. BusyMatches' /\ NoLostWakeup' /\ InHand'
  BY DEF BusyMatches, NoLostWakeup, InHand
<1>4. Descriptors'
  BY <1>1 DEF Descriptors
<1>5. Retries'
  BY RetryAssumption DEF Retries, StaysUp
<1> QED BY <1>2, <1>3, <1>4, <1>5

LEMMA RefusePreserves ==
    ASSUME IInv, Refuse
    PROVE  IInv'
<1> USE DEF IInv, TypeOK, workerVars, Refuse, RoundThrows
<1>1. /\ conn[current] = "accepted" /\ current \in Conns
      /\ conn' = [conn EXCEPT ![current] = "refused"]
  BY DEF InHand
<1>2. TypeOK'
  BY <1>1 DEF TcpPcs, ConnStates
<1>3. BusyMatches' /\ NoLostWakeup' /\ InHand'
  BY DEF BusyMatches, NoLostWakeup, InHand
<1>4. Descriptors'
  BY <1>1 DEF Descriptors
<1>5. Retries'
  BY RetryAssumption DEF Retries, StaysUp
<1> QED BY <1>2, <1>3, <1>4, <1>5

\* HandOver: the target was idle, so it has no connection to lose, and the
\* notification takes it out of its wait.
LEMMA HandOverPreserves ==
    ASSUME IInv, HandOver
    PROVE  IInv'
<1> USE DEF IInv, TypeOK, HandOver, Notify
<1>1. /\ conn[current] = "accepted" /\ current \in Conns /\ target \in Workers
      /\ ~busy[target] /\ ~toExecute[target] /\ pc[target] # "free"
      /\ conn' = [conn EXCEPT ![current] = "delegated"]
  BY DEF InHand, BusyMatches
<1>2. current # NoConn
  BY <1>1, ConnAssumption
<1>3. TypeOK'
  BY <1>1 DEF WorkerPcs, TcpPcs, ConnStates
<1>4. BusyMatches' /\ NoLostWakeup'
  BY <1>1 DEF BusyMatches, NoLostWakeup
<1>5. InHand' /\ Retries'
  BY DEF InHand, Retries, StaysUp
<1>6. Descriptors'
  BY <1>1, <1>2 DEF Descriptors
<1> QED BY <1>3, <1>4, <1>5, <1>6

LEMMA TellPreserves ==
    ASSUME IInv, TellWorker
    PROVE  IInv'
<1> USE DEF IInv, TypeOK, TellWorker, Notify
<1>1. TypeOK'
  BY DEF WorkerPcs, TcpPcs
<1>2. BusyMatches' /\ NoLostWakeup'
  BY DEF BusyMatches, NoLostWakeup
<1>3. InHand' /\ Descriptors' /\ Retries'
  BY DEF InHand, Descriptors, Retries, StaysUp
<1> QED BY <1>1, <1>2, <1>3

LEMMA RequestStopPreserves ==
    ASSUME IInv, RequestStop
    PROVE  IInv'
  BY DEF IInv, TypeOK, BusyMatches, NoLostWakeup, InHand, Descriptors, Retries,
     StaysUp, RequestStop, workerVars, tcpVars

LEMMA StutterPreserves ==
    ASSUME IInv, UNCHANGED vars
    PROVE  IInv'
  BY DEF IInv, TypeOK, BusyMatches, NoLostWakeup, InHand, Descriptors, Retries,
     StaysUp, vars, workerVars, tcpVars

LEMMA NextPreserves == IInv /\ [Next]_vars => IInv'
<1> SUFFICES ASSUME IInv, [Next]_vars PROVE IInv'
  OBVIOUS
<1>1. ASSUME NEW i \in Workers, WorkerStep(i) \/ SpuriousWakeup(i) PROVE IInv'
  BY <1>1, QuietPreserves, BeginPreserves, FinishPreserves, FreePreserves
  DEF WorkerStep, QuietStep
<1>2. ASSUME TcpStep PROVE IInv'
  BY <1>2, TcpQuietPreserves, AcceptPreserves, OptionFailsPreserves, RefusePreserves,
     HandOverPreserves, TellPreserves DEF TcpStep
<1> QED
  BY <1>1, <1>2, RequestStopPreserves, StutterPreserves DEF Next, PoolStep, Ended

THEOREM Invariance == Spec => []IInv
  BY InitIInv, NextPreserves, PTL DEF Spec

-----------------------------------------------------------------------------
\* The type invariant, for every pool.
THEOREM TypeCorrect == Spec => []TypeOK
<1>1. IInv => TypeOK BY DEF IInv
<1> QED BY <1>1, Invariance, PTL

\* A notification of delegateConnection or ~Worker never finds a worker that
\* goes back to sleep with work to do.
THEOREM NoLostWakeupHolds == Spec => []NoLostWakeup
<1>1. IInv => NoLostWakeup BY DEF IInv
<1> QED BY <1>1, Invariance, PTL

\* The opposite orders in which delegateConnection and freeWorker take the
\* pool's and the worker's mutex never meet.
THEOREM NoDeadlyEmbraceHolds == Spec => []NoDeadlyEmbrace
<1>1. IInv => NoDeadlyEmbrace
  BY DEF IInv, TypeOK, BusyMatches, InHand, NoDeadlyEmbrace
<1> QED BY <1>1, Invariance, PTL

\* A delegated connection is in the hands of exactly one worker.
THEOREM OneWorkerHolds == Spec => []OneWorkerPerConnection
<1>1. IInv => OneWorkerPerConnection
  BY ConnAssumption DEF IInv, TypeOK, Descriptors, OneWorkerPerConnection
<1> QED BY <1>1, Invariance, PTL

\* The accept loop gives up only after RetryMax failed rounds.
THEOREM StaysUpHolds == Spec => []StaysUp
<1>1. IInv => StaysUp BY DEF IInv, Retries
<1> QED BY <1>1, Invariance, PTL

-----------------------------------------------------------------------------
(* The pool implements ConnectionService.                                  *)

\* The state of ConnectionService that a state of the pool stands for.
Views == [c \in Conns |-> ClientView(c)]
Taken == {c \in Conns : Views[c] \in {"open", "answered"}}

BusyWorkers == {i \in Workers : busy[i]}

\* What a client sees of its connection, worker by worker.
LEMMA ViewOfConnection ==
    ASSUME IInv, NEW c \in Conns
    PROVE  /\ conn[c] \in {"delegated", "serving"} => Views[c] = "open"
           /\ conn[c] = "served" =>
                Views[c] = IF \E i \in Workers : fd[i] = c /\ pc[i] = "free"
                           THEN "answered" ELSE "released"
           /\ conn[c] = "refused" => Views[c] = "turnedAway"
           /\ conn[c] \in {"backlog", "accepted", "leaked", "abandoned"} => Views[c] = "pending"
  BY DEF Views, ClientView

\* A connection occupies a slot exactly while a busy worker has its descriptor.
LEMMA TakenByWorker ==
    ASSUME IInv, NEW c \in Conns
    PROVE  c \in Taken <=> \E i \in BusyWorkers : fd[i] = c
<1> USE DEF IInv, TypeOK
<1>1. ASSUME c \in Taken PROVE \E i \in BusyWorkers : fd[i] = c
  <2>1. conn[c] \in {"delegated", "serving"}
        \/ (conn[c] = "served" /\ \E i \in Workers : fd[i] = c /\ pc[i] = "free")
    BY <1>1, ViewOfConnection DEF Taken, ConnStates
  <2>2. \E i \in Workers : fd[i] = c /\ (toExecute[i] \/ pc[i] = "free")
    BY <2>1 DEF Descriptors
  <2> QED BY <2>2 DEF BusyMatches, BusyWorkers
<1>2. ASSUME NEW i \in BusyWorkers, fd[i] = c PROVE c \in Taken
  <2>1. i \in Workers /\ (toExecute[i] \/ pc[i] = "free")
    BY <1>2 DEF BusyMatches, BusyWorkers
  <2>2. conn[c] \in {"delegated", "serving"} \/ (conn[c] = "served" /\ pc[i] = "free")
    BY <1>2, <2>1 DEF Descriptors
  <2> QED BY <1>2, <2>1, <2>2, ViewOfConnection DEF Taken
<1> QED BY <1>1, <1>2

LEMMA WorkersCounted == IsFiniteSet(Workers) /\ Cardinality(Workers) = PoolSize
<1>1. 0 \in Int /\ PoolSize - 1 \in Int /\ ~(0 > PoolSize - 1)
  BY PoolAssumption
<1>2. IsFiniteSet(0 .. PoolSize - 1) /\ Cardinality(0 .. PoolSize - 1) = PoolSize - 1 - 0 + 1
  BY <1>1, FS_Interval
<1> QED BY <1>2, PoolAssumption DEF Workers

\* As many slots are taken as workers are busy: the descriptor of a busy worker
\* is a bijection.
LEMMA SlotsAreWorkers ==
    ASSUME IInv
    PROVE  /\ IsFiniteSet(BusyWorkers)
           /\ Cardinality(BusyWorkers) <= PoolSize
           /\ Cardinality(Taken) = Cardinality(BusyWorkers)
<1> DEFINE f == [i \in BusyWorkers |-> fd[i]]
<1>1. BusyWorkers \in SUBSET Workers
  BY DEF BusyWorkers
<1>2. IsFiniteSet(BusyWorkers) /\ Cardinality(BusyWorkers) <= PoolSize
  BY <1>1, WorkersCounted, FS_Subset
<1>3. \A i \in BusyWorkers : fd[i] \in Conns
  BY <1>1 DEF IInv, TypeOK, Descriptors, BusyMatches, BusyWorkers
<1>4. f \in [BusyWorkers -> Taken]
  BY <1>3, TakenByWorker
<1>5. \A i, j \in BusyWorkers : f[i] = f[j] => i = j
  BY <1>1, <1>3, ConnAssumption DEF IInv, Descriptors
<1>6. \A c \in Taken : \E i \in BusyWorkers : f[i] = c
  BY TakenByWorker DEF Taken
<1>7. f \in Bijection(BusyWorkers, Taken)
  BY <1>4, <1>5, <1>6, Fun_IsBij
<1>8. ExistsBijection(BusyWorkers, Taken)
  BY <1>7 DEF ExistsBijection
<1> QED BY <1>2, <1>8, FS_Bijection

\* An idle worker leaves a slot free; without one every slot is taken.
LEMMA SlotForIdle ==
    ASSUME IInv
    PROVE  /\ \A i \in Workers : ~busy[i] => Cardinality(Taken) < PoolSize
           /\ Idle = {} => Cardinality(Taken) = PoolSize
<1>1. BusyWorkers \in SUBSET Workers
  BY DEF BusyWorkers
<1>2. Cardinality(BusyWorkers) \in Nat
  BY SlotsAreWorkers, FS_CardinalityType
<1>3. ASSUME NEW i \in Workers, ~busy[i] PROVE Cardinality(Taken) < PoolSize
  <2>1. BusyWorkers # Workers
    BY <1>3 DEF BusyWorkers
  <2>2. Cardinality(BusyWorkers) # Cardinality(Workers)
    BY <1>1, <2>1, WorkersCounted, FS_Subset
  <2> QED BY <1>2, <2>2, WorkersCounted, SlotsAreWorkers, PoolAssumption
<1>4. ASSUME Idle = {} PROVE Cardinality(Taken) = PoolSize
  <2>1. BusyWorkers = Workers
    BY <1>4 DEF Idle, BusyWorkers
  <2> QED BY <2>1, WorkersCounted, SlotsAreWorkers
<1> QED BY <1>3, <1>4

\* Counting in ConnectionService is counting here.
LEMMA SameCount == ASSUME NEW S PROVE Service!Cardinality(S) = Cardinality(S)
  BY Zenon DEF Service!Cardinality, Cardinality

\* A step of one connection, as ConnectionService writes it.
Moves(c, from, to) ==
    /\ Views[c] = from
    /\ Views' = [Views EXCEPT ![c] = to]

LEMMA OpenStep ==
    ASSUME NEW c \in Conns, Cardinality(Taken) < PoolSize, Moves(c, "pending", "open"),
           UNCHANGED stop
    PROVE  Service!SNext
<1>1. Service!Open(c)
  BY Zenon, SameCount DEF Service!Open, Service!Move, Service!Slots, Moves, Taken, Views
<1> QED BY <1>1 DEF Service!SNext

LEMMA AnswerStep ==
    ASSUME NEW c \in Conns, Moves(c, "open", "answered"), UNCHANGED stop
    PROVE  Service!SNext
<1>1. Service!Answer(c)
  BY Zenon DEF Service!Answer, Service!Move, Moves, Views
<1> QED BY <1>1 DEF Service!SNext

LEMMA ReleaseStep ==
    ASSUME NEW c \in Conns, Moves(c, "answered", "released"), UNCHANGED stop
    PROVE  Service!SNext
<1>1. Service!Release(c)
  BY Zenon DEF Service!Release, Service!Move, Moves, Views
<1> QED BY <1>1 DEF Service!SNext

LEMMA TurnAwayStep ==
    ASSUME NEW c \in Conns, Cardinality(Taken) = PoolSize, Moves(c, "pending", "turnedAway"),
           stop' \in {stop, TRUE}
    PROVE  Service!SNext
<1>1. Service!TurnAway(c)
  BY Zenon, SameCount DEF Service!TurnAway, Service!Move, Service!Slots, Moves, Taken, Views
<1> QED BY <1>1 DEF Service!SNext

LEMMA StopStep ==
    ASSUME UNCHANGED Views, stop' \in {stop, TRUE}
    PROVE  [Service!SNext]_(Service!svars)
<1>1. CASE stop' = stop
  BY Zenon, <1>1 DEF Service!svars, Views
<1>2. CASE stop' = TRUE
  BY Zenon, <1>2 DEF Service!SNext, Service!Stop, Views
<1> QED BY <1>1, <1>2

\* A client sees nothing of a step that keeps the connections and moves no worker
\* into or out of freeWorker.
LEMMA ViewsKept ==
    ASSUME UNCHANGED <<conn, fd>>,
           \A i \in Workers : pc'[i] = "free" <=> pc[i] = "free"
    PROVE  UNCHANGED Views
<1>1. \A c \in Conns : ClientView(c)' = ClientView(c)
  BY DEF ClientView
<1> QED BY <1>1 DEF Views

\* The view of one connection changes, all the others stay.
LEMMA OneViewMoves ==
    ASSUME NEW c \in Conns, NEW to,
           ClientView(c)' = to,
           \A d \in Conns : d # c => ClientView(d)' = ClientView(d)
    PROVE  Views' = [Views EXCEPT ![c] = to]
  BY DEF Views

\* Waking up, going back to sleep, leaving: nothing a client could notice.
LEMMA QuietServes ==
    ASSUME IInv, NEW i \in Workers, QuietStep(i)
    PROVE  [Service!SNext]_(Service!svars)
<1>1. UNCHANGED <<conn, fd, stop>>
  BY DEF QuietStep, LoopHead, Sleep, Quit, SpuriousWakeup, Unlock, tcpVars
<1>2. \A j \in Workers : pc'[j] = "free" <=> pc[j] = "free"
  BY DEF IInv, TypeOK, GoTo, QuietStep, LoopHead, Sleep, Quit, SpuriousWakeup, Unlock
<1> QED BY <1>1, <1>2, ViewsKept, StopStep

\* Begin: the connection was open and stays open.
LEMMA BeginServes ==
    ASSUME IInv, NEW i \in Workers, Begin(i)
    PROVE  [Service!SNext]_(Service!svars)
<1> USE DEF IInv, TypeOK, Begin, GoTo, tcpVars
<1>1. PICK c \in Conns : c = fd[i] /\ conn[c] \in {"delegated", "serving"}
  BY DEF Descriptors
<1>2. conn' = [conn EXCEPT ![c] = "serving"] /\ UNCHANGED <<fd, stop>>
  BY <1>1
<1>3. \A j \in Workers : pc'[j] = "free" <=> pc[j] = "free"
  OBVIOUS
<1>4. ClientView(c) = "open" /\ ClientView(c)' = "open"
  BY <1>1, <1>2 DEF ClientView
<1>5. \A d \in Conns : d # c => ClientView(d)' = ClientView(d)
  BY <1>2, <1>3 DEF ClientView
<1>6. UNCHANGED Views
  BY <1>4, <1>5 DEF Views
<1> QED BY <1>2, <1>6, StopStep

\* Finish answers the connection; its worker is busy until it has freed itself.
LEMMA FinishServes ==
    ASSUME IInv, NEW i \in Workers, Finish(i)
    PROVE  [Service!SNext]_(Service!svars)
<1> USE DEF IInv, TypeOK, Finish, GoTo, tcpVars
<1>1. PICK c \in Conns : c = fd[i] /\ conn[c] \in {"delegated", "serving"}
  BY DEF Descriptors, BusyMatches
<1>2. /\ conn' = [conn EXCEPT ![c] = "served"]
      /\ pc' = [pc EXCEPT ![i] = "free"]
      /\ UNCHANGED <<fd, stop>>
  BY <1>1
<1>3. Views[c] = "open"
  BY <1>1, ViewOfConnection
<1>4. ClientView(c)' = "answered"
  BY <1>1, <1>2 DEF ClientView
<1>5. ASSUME NEW d \in Conns, d # c PROVE ClientView(d)' = ClientView(d)
  <2>1. \A j \in Workers : fd[j] = d => (pc'[j] = "free" <=> pc[j] = "free")
    BY <1>1, <1>2, <1>5
  <2> QED BY <1>2, <1>5, <2>1 DEF ClientView
<1>6. Moves(c, "open", "answered")
  BY <1>3, <1>4, <1>5, OneViewMoves DEF Moves
<1> QED BY <1>2, <1>6, AnswerStep

\* FreeWorker gives the slot back.
LEMMA FreeServes ==
    ASSUME IInv, NEW i \in Workers, FreeWorker(i)
    PROVE  [Service!SNext]_(Service!svars)
<1> USE DEF IInv, TypeOK, FreeWorker, GoTo, tcpVars
<1>1. PICK c \in Conns : c = fd[i] /\ conn[c] = "served"
  BY DEF Descriptors
<1>2. /\ pc[i] = "free" /\ pc' = [pc EXCEPT ![i] = "unlock"]
      /\ UNCHANGED <<fd, conn, stop>>
  OBVIOUS
<1>3. \A j \in Workers : fd[j] = c => j = i
  BY <1>1, ConnAssumption DEF Descriptors
<1>4. Views[c] = "answered"
  BY <1>1, <1>2, ViewOfConnection
<1>5. ClientView(c)' = "released"
  BY <1>1, <1>2, <1>3 DEF ClientView
<1>6. ASSUME NEW d \in Conns, d # c PROVE ClientView(d)' = ClientView(d)
  <2>1. \A j \in Workers : fd[j] = d => (pc'[j] = "free" <=> pc[j] = "free")
    BY <1>1, <1>2, <1>6
  <2> QED BY <1>2, <2>1 DEF ClientView
<1>7. Moves(c, "answered", "released")
  BY <1>4, <1>5, <1>6, OneViewMoves DEF Moves
<1> QED BY <1>2, <1>7, ReleaseStep

\* The accepting thread waiting, choosing and failing: at most the server stops.
LEMMA TcpQuietServes ==
    ASSUME IInv,
           \/ Listen \/ ListenFails \/ TcpLoop \/ AcceptTimeout \/ AcceptError
           \/ PickWorker \/ JoinWorker
    PROVE  [Service!SNext]_(Service!svars)
<1> USE DEF Listen, ListenFails, TcpLoop, AcceptTimeout, AcceptError, PickWorker, JoinWorker,
            RoundThrows, workerVars
<1>1. UNCHANGED <<conn, fd, pc>>
  OBVIOUS
<1>2. stop' \in {stop, TRUE}
  BY DEF IInv, TypeOK
<1> QED BY <1>1, <1>2, ViewsKept, StopStep

\* A connection that is taken off the backlog, or lost there, is pending still.
LEMMA AcceptServes ==
    ASSUME IInv, NEW c \in Conns, Accept(c) \/ OptionFails(c)
    PROVE  [Service!SNext]_(Service!svars)
<1> USE DEF IInv, TypeOK, Accept, OptionFails, RoundThrows, workerVars
<1>1. /\ conn[c] = "backlog" /\ UNCHANGED <<fd, pc>>
      /\ \E s \in {"leaked", "accepted", "abandoned"} : conn' = [conn EXCEPT ![c] = s]
  OBVIOUS
<1>2. stop' \in {stop, TRUE}
  OBVIOUS
<1>3. ClientView(c)' = ClientView(c)
  BY <1>1 DEF ClientView
<1>4. \A d \in Conns : d # c => ClientView(d)' = ClientView(d)
  BY <1>1 DEF ClientView
<1>5. UNCHANGED Views
  BY <1>3, <1>4 DEF Views
<1> QED BY <1>2, <1>5, StopStep

\* Refuse: no worker is idle, so every slot is taken.
LEMMA RefuseServes ==
    ASSUME IInv, Refuse
    PROVE  [Service!SNext]_(Service!svars)
<1> USE DEF IInv, TypeOK, Refuse, RoundThrows, workerVars
<1>1. PICK c \in Conns : c = current /\ conn[c] = "accepted"
  BY DEF InHand
<1>2. conn' = [conn EXCEPT ![c] = "refused"] /\ UNCHANGED <<fd, pc>>
  BY <1>1
<1>3. stop' \in {stop, TRUE} /\ Idle = {}
  OBVIOUS
<1>4. Views[c] = "pending"
  BY <1>1, ViewOfConnection
<1>5. ClientView(c)' = "turnedAway"
  BY <1>2 DEF ClientView
<1>6. \A d \in Conns : d # c => ClientView(d)' = ClientView(d)
  BY <1>2 DEF ClientView
<1>7. Moves(c, "pending", "turnedAway")
  BY <1>4, <1>5, <1>6, OneViewMoves DEF Moves
<1> QED BY <1>3, <1>7, SlotForIdle, TurnAwayStep

\* HandOver: the worker chosen is still idle, so a slot is free.
LEMMA HandOverServes ==
    ASSUME IInv, HandOver
    PROVE  [Service!SNext]_(Service!svars)
<1> USE DEF IInv, TypeOK, HandOver
<1>1. PICK c \in Conns : c = current /\ conn[c] = "accepted"
  BY DEF InHand
<1>2. /\ target \in Workers /\ ~busy[target] /\ pc[target] # "free"
      /\ conn' = [conn EXCEPT ![c] = "delegated"]
      /\ fd' = [fd EXCEPT ![target] = c]
      /\ UNCHANGED stop
  BY <1>1 DEF InHand, BusyMatches
<1>3. \A j \in Workers : pc'[j] = "free" <=> pc[j] = "free"
  BY DEF Notify
<1>4. Views[c] = "pending"
  BY <1>1, ViewOfConnection
<1>5. ClientView(c)' = "open"
  BY <1>2 DEF ClientView
<1>6. ASSUME NEW d \in Conns, d # c PROVE ClientView(d)' = ClientView(d)
  <2>1. \A j \in Workers : fd'[j] = d /\ pc'[j] = "free" <=> fd[j] = d /\ pc[j] = "free"
    BY <1>2, <1>3, <1>6
  <2> QED BY <1>2, <1>6, <2>1 DEF ClientView
<1>7. Moves(c, "pending", "open")
  BY <1>4, <1>5, <1>6, OneViewMoves DEF Moves
<1> QED BY <1>2, <1>7, SlotForIdle, OpenStep

LEMMA TellServes ==
    ASSUME IInv, TellWorker
    PROVE  [Service!SNext]_(Service!svars)
<1>1. UNCHANGED <<conn, fd, stop>>
  BY DEF TellWorker
<1>2. \A j \in Workers : pc'[j] = "free" <=> pc[j] = "free"
  BY DEF IInv, TypeOK, TellWorker, Notify
<1> QED BY <1>1, <1>2, ViewsKept, StopStep

LEMMA NextServes == IInv /\ [Next]_vars => [Service!SNext]_(Service!svars)
<1> SUFFICES ASSUME IInv, [Next]_vars PROVE [Service!SNext]_(Service!svars)
  OBVIOUS
<1>1. ASSUME NEW i \in Workers, WorkerStep(i) \/ SpuriousWakeup(i)
      PROVE  [Service!SNext]_(Service!svars)
  BY <1>1, QuietServes, BeginServes, FinishServes, FreeServes DEF WorkerStep, QuietStep
<1>2. ASSUME TcpStep PROVE [Service!SNext]_(Service!svars)
  BY <1>2, TcpQuietServes, AcceptServes, RefuseServes, HandOverServes, TellServes DEF TcpStep
<1>3. ASSUME RequestStop \/ UNCHANGED vars PROVE [Service!SNext]_(Service!svars)
  <2>1. UNCHANGED <<conn, fd, pc>> /\ stop' \in {stop, TRUE}
    BY <1>3 DEF RequestStop, vars, workerVars
  <2> QED BY <2>1, ViewsKept, StopStep
<1> QED BY <1>1, <1>2, <1>3 DEF Next, PoolStep, Ended

\* Before the first connection every client waits.
LEMMA InitService == Init => Service!SInit
<1> SUFFICES ASSUME Init PROVE Service!SInit
  OBVIOUS
<1>1. \A c \in Conns : ClientView(c) = "pending"
  BY DEF Init, ClientView
<1>2. Views = [c \in Conns |-> "pending"] /\ stop = FALSE
  BY <1>1 DEF Init, Views
<1> QED BY Zenon, <1>2 DEF Service!SInit, Views

\* REFINEMENT: the pool of threads, with its flags, mutexes and condition
\* variables, serves connections as ConnectionService promises, whatever its size:
\* a connection is opened only into a free slot, answered once and released, and
\* one is turned away only while all the slots are taken.
THEOREM ServiceImplemented == Spec => ImplementsService
  BY InitService, NextServes, Invariance, PTL DEF Spec, ImplementsService, Service!SSpec
=============================================================================
