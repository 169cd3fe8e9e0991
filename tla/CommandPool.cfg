CONSTANTS
    Conns = {c1, c2, c3}
    Threads = 4
    NoConn = NoConn
SPECIFICATION FairSpec
INVARIANT PoolInv
PROPERTY EveryRequestEnds
CHECK_DEADLOCK FALSE
