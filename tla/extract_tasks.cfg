SPECIFICATION FairSpec
CONSTANTS
    Backends = {linear, glide}
    Commenting = {linear}
    Fetches = {f1, f2}
    Works = {w1, w2}
    Found = 2
    MaxEdits = 1
    MaxFaults = 1
    None = None
CHECK_DEADLOCK FALSE
INVARIANTS
    AnswersLand
    CommittedIsShown
    
PROPERTIES
    BusyEnds
