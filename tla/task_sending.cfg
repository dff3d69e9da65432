CONSTANTS
    a = a
    b = b
    NoTask = NoTask
    w1 = w1
    w2 = w2
    Task = {a, b}
    Extracted <- OneTask
    Recurring = {a}
    Worker = {w1}
    UndoDepth = 1
    MaxSent = 2
    MaxTrouble = 2

SPECIFICATION FairSpec
CHECK_DEADLOCK FALSE

    
    
PROPERTIES
    BusyEnds
