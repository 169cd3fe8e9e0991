CONSTANTS
    Bridges = {b1}
    Conns = {c1, c2, c3}
    NoBridge = NoBridge
SPECIFICATION Spec
SYMMETRY Symmetry
INVARIANTS
    LeaseExclusive
    ReleasedIsFinal
    RanOnlyIfLeased
    BridgeInv
PROPERTY ImplementsLifecycle
CHECK_DEADLOCK FALSE
