CONSTANTS
    Items = {a, b}
    NoItem = NoItem
    Moved = {}
    InPlace = {}
    ForgetWhen = {"PENDING", "RUNNING", "ERROR", "DONE"}
    CrashPoints <- AllPoints
    MaxRuns = 2
    MaxCrashes = 1
    MaxSaveFailures = 1

SPECIFICATION Spec
CHECK_DEADLOCK FALSE
INVARIANTS
    NoUnapprovedBilling
    
    NudgeAfterHandoff
SYMMETRY JobSymmetry
