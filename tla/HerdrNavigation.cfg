CONSTANTS
    Presses = {p1}
    Panes = {x1, x2}
    Servers = {h1}
    Home = h1
    Setups = {s1}
    Edge = Edge
    DuplicatesRun = FALSE
    MaxChanges = 3
SPECIFICATION FairSpec
INVARIANTS HerdrInv OneMove SetupReachesServers
PROPERTIES PressEnds
CHECK_DEADLOCK FALSE
