CONSTANTS
    Conns = {c1, c2, c3}
    Threads = 3
    NoConn = NoConn
SPECIFICATION FairSpec
PROPERTY EveryRequestEnds
CHECK_DEADLOCK FALSE
