SPECIFICATION FairSpec
CONSTANTS
    Fd <- Fd6
    Listeners <- ListenOn0
    Session = {s1}
    Pid = {p1}
    Nil = Nil
    Dangling = Dangling
    Requests <- MixedRequests
    Garbage = {TRUE, FALSE}
    SpecialFiles = FALSE
    Pipelining = TRUE
    Outstanding = 2
    PipeCap = 1
    Waiting = 1
    Surplus = 1
    Leaks = 1
INVARIANTS
    TypeOK
    PollerMatchesTables
    WriteArmed
    CgiTableExact
    OnlyFilesUnsupported
PROPERTY
    IdleSessionsClosed
