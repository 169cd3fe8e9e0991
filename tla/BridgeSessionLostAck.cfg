CONSTANTS
    Bridges = {b1}
    Conns = {c1, c2}
    NoBridge = NoBridge
SPECIFICATION Spec
SYMMETRY Symmetry
INVARIANT ActiveLeaseHasHolder
CHECK_DEADLOCK FALSE
