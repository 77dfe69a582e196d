SPECIFICATION ThreadsSpec
CONSTANTS
    IopThreads = {t1, t2, t3}
    NoOne = none
    OverlordThreads = {t1, t2}
    ITERS = 2
    MaxRuns = 2
    CommandLines <- Every
INVARIANTS
    OneRuns
    ThreadsSound
PROPERTIES
    KernelReturns
    ExitReturns
CHECK_DEADLOCK FALSE
