CONSTANTS
    Limit = 2
    NFiles = 2
    MaxSize = 2
    Capacity = 2
    MaxChanges = 2
SPECIFICATION FairSpec
INVARIANTS CallInv TakenWhole OkMeansTaken PasteExact NoPartialFile
PROPERTIES CallEnds
CHECK_DEADLOCK FALSE
