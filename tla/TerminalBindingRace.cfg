CONSTANTS
    Terminals = {t1, t2, t3}
    y1 = y1
    y2 = y2
    TTYs = {y1, y2}
    Places = {1, 2}
    Commands = {c1}
    Requests <- ScanRequests
    MaxChanges = 1
    NoTTY = NoTTY
    NoTerm = NoTerm
    NoCommand = NoCommand
SPECIFICATION Spec
INVARIANT ActsOnOwner
CHECK_DEADLOCK FALSE
