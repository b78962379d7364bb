SPECIFICATION Spec
CONSTANTS
    Streams <- Outputs
    Length = 2
    NPos = 100
INVARIANTS NeverOutOfRange BufferIsSuffix ResponseExact
CHECK_DEADLOCK FALSE
