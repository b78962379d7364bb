SPECIFICATION Spec
CONSTANTS
    Streams <- BadStatus
    Length = 2
    NPos = 100
INVARIANT StatusJudged
CHECK_DEADLOCK FALSE
