SPECIFICATION FairSpec
CONSTANTS
    InCap = 2
    OutCap = 2
    Room = 1
    Portion = 3
    Jobs <- SmallJobs
INVARIANTS TypeOK OneAnswer AnswerExact NoMutualWait
PROPERTY WorkerReaped
CHECK_DEADLOCK FALSE
