CONSTANTS
    MaxRecordings = 3
    MaxTime = 2

SPECIFICATION RecorderSpec
CHECK_DEADLOCK FALSE
INVARIANTS
    BlocksStayInRecording
    OneBlockAfterPause
    
