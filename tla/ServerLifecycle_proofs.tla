----------------------- MODULE ServerLifecycle_proofs -----------------------
(***************************************************************************)
(* Proofs about ServerLifecycle: the process runs the pool as WorkerPool   *)
(* specifies it, so that what is proved of the pool holds in it, and main  *)
(* returns only when all the workers are gone.                             *)
(***************************************************************************)
EXTENDS ServerLifecycle, WorkerPool_proofs

\* main_tcp destroys the workers from the last to the first.
Departed ==
    /\ tcpPc \in {"destroy", "join"} =>
        \A i \in Workers : i > target => pc[i] = "done"
    /\ tcpPc = "end" => \A i \in Workers : pc[i] = "done"

\* A connection that is being served has its worker in the handler.
InHandler ==
    \A c \in Conns : conn[c] = "serving" => \E i \in Workers : fd[i] = c /\ pc[i] = "serve"

MainInOrder ==
    /\ mainPc \in MainPcs
    /\ udpTrial \in 0 .. RetryMax
    /\ udpTrial = RetryMax => stop
    /\ mainPc = "ended" => tcpPc = "end"

LInv == IInv /\ Departed /\ InHandler /\ MainInOrder

LEMMA InitLInv == LInit => LInv
<1> SUFFICES ASSUME LInit PROVE LInv
  OBVIOUS
<1>1. IInv
  BY InitIInv DEF LInit
<1>2. Departed /\ InHandler
  BY DEF LInit, Init, Departed, InHandler
<1>3. MainInOrder
  BY RetryAssumption DEF LInit, MainInOrder, MainPcs
<1> QED BY <1>1, <1>2, <1>3 DEF LInv

\* No step of a worker leaves "done", and the one that ends the service of a
\* connection changes its state.
LEMMA WorkerKeepsOrder ==
    ASSUME IInv, Departed, InHandler, NEW i \in Workers, WorkerStep(i) \/ SpuriousWakeup(i)
    PROVE  Departed' /\ InHandler'
<1> USE DEF IInv, TypeOK, tcpVars, GoTo
<1>1. /\ pc[i] # "done"
      /\ \A j \in Workers : j # i => pc'[j] = pc[j]
      /\ UNCHANGED <<tcpPc, target, fd>>
  BY DEF WorkerStep, LoopHead, Sleep, Quit, Begin, Finish, FreeWorker, Unlock, SpuriousWakeup
<1>2. Departed'
  BY <1>1 DEF Departed
<1>3. InHandler'
  <2>1. CASE Begin(i)
    BY <2>1, <1>1 DEF Begin, InHandler, Descriptors
  <2>2. CASE Finish(i)
    <3>1. fd[i] # NoConn /\ \A j \in Workers : fd[j] = fd[i] => j = i
      BY <2>2 DEF Finish, Descriptors, BusyMatches
    <3> QED BY <2>2, <1>1, <3>1, ConnAssumption DEF Finish, InHandler
  <2>3. CASE ~Begin(i) /\ ~Finish(i)
    <3>1. pc[i] # "serve" /\ UNCHANGED conn
      BY <2>3 DEF WorkerStep, LoopHead, Sleep, Quit, FreeWorker, Unlock, SpuriousWakeup
    <3> QED BY <1>1, <3>1 DEF InHandler
  <2> QED BY <2>1, <2>2, <2>3
<1> QED BY <1>2, <1>3

\* The accepting thread goes on to the next worker only when one has ended, and
\* gives a worker a connection only while that one is not serving.
LEMMA TcpKeepsOrder ==
    ASSUME IInv, Departed, InHandler, TcpStep
    PROVE  Departed' /\ InHandler'
<1> USE DEF IInv, TypeOK, workerVars
<1>1. CASE TcpLoop \/ ListenFails
  <2>1. ~(\E i \in Workers : i > LastWorker)
    BY PoolAssumption DEF Workers, LastWorker
  <2>2. UNCHANGED <<pc, fd, conn>> /\ (tcpPc' = "accept" \/ (tcpPc' = "destroy" /\ target' = LastWorker))
    BY <1>1 DEF TcpLoop, ListenFails
  <2> QED BY <2>1, <2>2 DEF Departed, InHandler
<1>2. CASE JoinWorker
  <2>1. \A i \in Workers : target = 0 => i >= target
    BY DEF Workers
  <2>2. Departed'
    BY <1>2, <2>1 DEF JoinWorker, Departed, Workers
  <2> QED BY <1>2, <2>2 DEF JoinWorker, InHandler
<1>3. CASE TellWorker
  <2>1. \A j \in Workers : pc'[j] = pc[j] \/ pc[j] = "wait"
    BY <1>3 DEF TellWorker, Notify
  <2>2. \A j \in Workers : pc[j] # "wait" => pc'[j] = pc[j]
    BY <2>1
  <2>3. UNCHANGED <<fd, conn, target>> /\ tcpPc = "destroy" /\ tcpPc' = "join"
    BY <1>3 DEF TellWorker
  <2> QED BY <2>2, <2>3 DEF Departed, InHandler
<1>4. CASE HandOver
  <2>1. conn[current] = "accepted" /\ pc[target] # "serve" /\ target \in Workers
    BY <1>4 DEF HandOver, InHand, BusyMatches
  <2>2. \A j \in Workers : pc'[j] = pc[j] \/ (pc[j] = "wait" /\ pc'[j] = "lock")
    BY <1>4 DEF HandOver, Notify
  <2>3. tcpPc' = "loop" /\ conn' = [conn EXCEPT ![current] = "delegated"]
        /\ fd' = [fd EXCEPT ![target] = current]
    BY <1>4 DEF HandOver
  <2>4. \A j \in Workers : pc[j] = "serve" => pc'[j] = "serve" /\ fd'[j] = fd[j]
    BY <2>1, <2>2, <2>3
  <2>5. \A c \in Conns : conn'[c] = "serving" => conn[c] = "serving"
    BY <2>3
  <2>6. InHandler'
    BY <2>4, <2>5 DEF InHandler
  <2> QED BY <2>3, <2>6 DEF Departed
<1>5. CASE Listen \/ AcceptTimeout \/ AcceptError \/ PickWorker \/ Refuse
           \/ \E c \in Conns : Accept(c) \/ OptionFails(c)
  <2>1. UNCHANGED <<pc, fd>> /\ tcpPc' \in {"loop", "taken", "handover"}
    BY <1>5 DEF Listen, AcceptTimeout, AcceptError, PickWorker, Refuse, Accept, OptionFails, RoundThrows
  <2>2. \A c \in Conns : conn'[c] = "serving" => conn[c] = "serving"
    BY <1>5 DEF Listen, AcceptTimeout, AcceptError, PickWorker, Refuse, Accept, OptionFails
  <2> QED BY <2>1, <2>2 DEF Departed, InHandler
<1> QED BY <1>1, <1>2, <1>3, <1>4, <1>5 DEF TcpStep

LEMMA LNextPreserves == LInv /\ [LNext]_lvars => LInv'
<1> SUFFICES ASSUME LInv, [LNext]_lvars PROVE LInv'
  OBVIOUS
<1> USE DEF LInv
<1>1. CASE ThreadStep(PoolStep)
  <2>1. IInv'
    BY <1>1, NextPreserves DEF ThreadStep, Next
  <2>2. Departed' /\ InHandler'
    BY <1>1, WorkerKeepsOrder, TcpKeepsOrder DEF ThreadStep, PoolStep
  <2>3. stop => stop'
    BY <1>1 DEF ThreadStep, PoolStep, WorkerStep, LoopHead, Sleep, Quit, Begin, Finish, FreeWorker,
       Unlock, SpuriousWakeup, TcpStep, Listen, ListenFails, TcpLoop, AcceptTimeout, AcceptError,
       PickWorker, Refuse, HandOver, TellWorker, JoinWorker, Accept, OptionFails, RoundThrows
  <2>4. MainInOrder'
    BY <1>1, <2>3 DEF ThreadStep, MainInOrder, mainVars, Over, MainPcs
  <2> QED BY <2>1, <2>2, <2>4
<1>2. CASE UdpRound \/ MainStep \/ UNCHANGED lvars
  <2>1. UNCHANGED vars
    BY <1>2 DEF UdpRound, MainStep, LeaveLoop, JoinTcp, lvars
  <2>2. IInv' /\ Departed' /\ InHandler'
    BY <2>1, NextPreserves DEF vars, workerVars, tcpVars, Departed, InHandler
  <2>3. MainInOrder'
    BY <1>2, <2>1, RetryAssumption DEF UdpRound, MainStep, LeaveLoop, JoinTcp, lvars, mainVars, vars,
       tcpVars, MainInOrder, MainPcs
  <2> QED BY <2>2, <2>3
<1>3. CASE UdpRoundThrows \/ Signal
  <2>1. RequestStop \/ UNCHANGED vars
    BY <1>3 DEF UdpRoundThrows, Signal
  <2>2. IInv'
    BY <2>1, NextPreserves DEF Next
  <2>3. Departed' /\ InHandler'
    BY <2>1 DEF RequestStop, vars, workerVars, tcpVars, Departed, InHandler
  <2>4. MainInOrder'
    BY <1>3, <2>1, RetryAssumption DEF UdpRoundThrows, Signal, RequestStop, vars, tcpVars, mainVars,
       MainInOrder, MainPcs, Over
  <2> QED BY <2>2, <2>3, <2>4
<1> QED BY <1>1, <1>2, <1>3 DEF LNext, Gone

THEOREM LInvariance == LSpec => []LInv
  BY InitLInv, LNextPreserves, PTL DEF LSpec

-----------------------------------------------------------------------------
\* The process takes the steps of the pool or leaves it alone: whatever holds of
\* WorkerPool holds of the server, kills included.
THEOREM RunsThePool == LSpec => Spec
<1>1. LInit => Init
  BY DEF LInit
<1>2. [LNext]_lvars => [Next]_vars
  BY DEF LNext, ThreadStep, UdpRound, UdpRoundThrows, MainStep, LeaveLoop, JoinTcp, Signal, Gone,
     lvars, Next
<1> QED BY <1>1, <1>2, PTL DEF LSpec, Spec

\* REFINEMENT: to its clients the server is the abstract connection service, also
\* while main waits for the pool, and when a second signal kills the process.
THEOREM ServerServes == LSpec => ImplementsService
  BY RunsThePool, ServiceImplemented, PTL

THEOREM LifecycleTypeCorrect == LSpec => []LifecycleTypeOK
<1>1. LInv => LifecycleTypeOK
  BY DEF LInv, IInv, MainInOrder, LifecycleTypeOK
<1> QED BY <1>1, LInvariance, PTL

\* When main returns no worker is left that could use what it destroys.
THEOREM JoinedBeforeEndHolds == LSpec => []JoinedBeforeEnd
<1>1. LInv => JoinedBeforeEnd
  BY DEF LInv, MainInOrder, Departed, InHandler, JoinedBeforeEnd
<1> QED BY <1>1, LInvariance, PTL
=============================================================================
