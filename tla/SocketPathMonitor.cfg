CONSTANTS
    Files = {f1, f2}
    Gone = Gone
    MaxChanges = 3
SPECIFICATION FairSpec
INVARIANTS
    MonitorInv
    WaiterOwned
    SourceBalanced
    NoSpuriousEnd
PROPERTIES
    ChangeEndsListener
    CancelEndsWaiter
CHECK_DEADLOCK FALSE
