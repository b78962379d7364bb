SPECIFICATION FairSpec
CONSTANTS
    Fd = {1, 2, 3}
    Bit = {"READ"}
    Unregistered = none
INVARIANTS TypeOK NoDuplicates
PROPERTIES RefinesPollSet OperationsExact StickyCursor NoStarvation
