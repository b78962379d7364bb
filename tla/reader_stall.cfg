SPECIFICATION Spec
CONSTANTS
    Streams <- StallStream
    Length = 2
    Unset <- ZeroOrOne
INVARIANT ChunkEndJudged
CHECK_DEADLOCK FALSE
