CONSTANTS
    MaxBuffered = 4
    MaxStream = 7
    MaxRead = 2
SPECIFICATION Spec
INVARIANTS
    FilterExact
    FilterInv
CHECK_DEADLOCK FALSE
