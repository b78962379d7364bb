SPECIFICATION Spec
CONSTANTS
    Name = {"a", "b"}
    Bodies <- AllBodies
    Inode = {i1, i2, i3, i4}
    Theirs = Theirs
    NoInode = NoInode
SYMMETRY Symmetry
INVARIANTS PartsExact CreatedAll AnswersAsDispatched
PROPERTY WritesOwnFiles
CHECK_DEADLOCK FALSE
