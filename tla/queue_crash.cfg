CONSTANTS
    Items = {a, b}
    NoItem = NoItem
    Moved = {a}
    InPlace = {b}
    ForgetWhen = {"RUNNING", "ERROR", "DONE"}
    CrashPoints <- OutsideArchiveWindow
    MaxRuns = 2
    MaxCrashes = 1
    MaxSaveFailures = 0

SPECIFICATION FairSpec
CHECK_DEADLOCK FALSE
INVARIANTS
    LiveJobListed
    RetryCanOpenAudio
PROPERTIES
    
    JobSettles
