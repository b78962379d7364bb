SPECIFICATION Spec
CONSTANTS
    Fd <- Fd6
    Listeners <- ListenOn0
    Session = {s1}
    Pid = {p1}
    Nil = Nil
    Dangling = Dangling
    Requests <- CgiRequests
    Garbage = {FALSE}
    SpecialFiles = FALSE
    Pipelining = FALSE
    Outstanding = 1
    PipeCap = 1
    Waiting = 1
    Surplus = 0
    Leaks = 0
INVARIANT CgiTableLive
