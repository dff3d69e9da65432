CONSTANTS
    Names = {1, 2}
    Whole = 2
    MaxDrops = 2
    MaxLaunches = 2
    MaxSettings = 2
    MaxGlitches = 1
    MaxSaveFailures = 1

SPECIFICATION FairSpec
CHECK_DEADLOCK FALSE
INVARIANTS
    HandedOffWhole
    OneActivePerPath
PROPERTIES
    FileTaken
