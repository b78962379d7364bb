SPECIFICATION FairSpec
CONSTANTS
    Streams <- AllStreams
    Length = 2
    Unset <- ZeroOrOne
INVARIANTS
    NeverOutOfRange
    BufferIsSuffix
    FramingExact
PROPERTY ProcessReturns
CHECK_DEADLOCK FALSE
