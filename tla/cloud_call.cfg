CONSTANTS
    MaxLength = 5
    ChunkLength = 2
    Patience = 2

SPECIFICATION FairSpec
CHECK_DEADLOCK FALSE
INVARIANTS
    TempsGone
    RequestsUnderCap
    TimelineWhole
    JobCalledOff
PROPERTIES
    CallReturns
