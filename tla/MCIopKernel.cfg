SPECIFICATION FairSpec
CONSTANTS
    DGO = DGO
    STR = STR
    PLAYER = PLAYER
    Iso = ISO
    NoThread = none
    Channels = {DGO, STR}
    HandlerOf <- Handlers
    Order <- Created
    Requests = {call, cast}
    Silent = {cast}
    SIGNAL_ITERS = 2
    MAX_ITERS = 3
    MayStop = TRUE
INVARIANTS
    SifSound
PROPERTIES
    ImplementsRpcChannel
    SyncReturns
    ShutdownCompletes
CHECK_DEADLOCK FALSE
