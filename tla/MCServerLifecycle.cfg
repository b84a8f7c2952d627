CONSTANTS
    c1 = c1
    c2 = c2
    c3 = c3
    Conns <- MCConns
    NoConn = NoConn
    PoolSize = 2
    RetryMax = 2
    MaxErrors = 1

SPECIFICATION LFairSpec

INVARIANTS
    LifecycleTypeOK
    NoLostWakeup
    NoDeadlyEmbrace
    OneWorkerPerConnection
    JoinedBeforeEnd

PROPERTIES
    ImplementsService
    StopEnds
    NobodyLeftHanging
