CONSTANTS
    Bridges = {b1, b2}
    Conns = {c1, c2}
    NoBridge = NoBridge
SPECIFICATION FairSpec
CONSTRAINT FirstComeFirst
INVARIANT RegistryAgrees
PROPERTIES
    HoldEndDestroysBridge
    RequestsComplete
CHECK_DEADLOCK FALSE
