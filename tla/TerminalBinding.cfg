CONSTANTS
    Terminals = {t1, t2, t3}
    y1 = y1
    y2 = y2
    TTYs = {y1, y2}
    Places = {1, 2}
    Commands = {c1, c2}
    Requests <- MixedRequests
    MaxChanges = 2
    NoTTY = NoTTY
    NoTerm = NoTerm
    NoCommand = NoCommand
SPECIFICATION Spec
SYMMETRY Symmetry
INVARIANTS
    VerifiedHitUsesOwner
    QuietScanUsesOwner
    CacheNamesOwner
    BindingInv
PROPERTY QuietScanComplete
CHECK_DEADLOCK FALSE
