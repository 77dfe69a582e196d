SPECIFICATION MachineFairSpec
CONSTANTS
    OverlordThreads = {t1, t2}
    ITERS = 2
    MaxRuns = 2
    CommandLines <- Player
CHECK_DEADLOCK FALSE
PROPERTY ResetRestarts
