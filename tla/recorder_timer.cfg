CONSTANTS
    MaxRecordings = 1
    MaxTime = 4

SPECIFICATION RecorderSpec
CHECK_DEADLOCK FALSE
INVARIANTS
    ElapsedExcludesPauses
