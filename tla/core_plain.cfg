SPECIFICATION Spec
CONSTANTS
    Fd <- Fd5
    Listeners <- ListenOn0
    Session = {s1, s2}
    Pid = {}
    Nil = Nil
    Dangling = Dangling
    Requests <- PlainRequests
    Garbage = {FALSE}
    SpecialFiles = TRUE
    Pipelining = FALSE
    Outstanding = 1
    PipeCap = 0
    Waiting = 1
    Surplus = 0
    Leaks = 0
SYMMETRY Symmetry
INVARIANTS
    SessionTableExact
    QueuedEventFresh
    OneResponsePerRequest
    FilesExact
    NoUndefined
    OnlyFilesUnsupported
PROPERTY
    RefinesService
