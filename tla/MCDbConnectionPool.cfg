SPECIFICATION FairSpec
CONSTANTS
    Threads = {t1, t2, t3}
    PoolSize = 2
    NoConn = NoConn
INVARIANTS
    TypeOK
    Conservation
    NoLostWakeup
PROPERTIES
    ImplementsResourcePool
    PoolProgress
    EveryConnectionReturns
