SPECIFICATION Spec
CONSTANTS
    STR = STR
    SERVER = SERVER
    LOADER = LOADER
    DGO = DGO
    NoCmd = NoCmd
    Cmds = {STR, SERVER, DGO}
    KindOf <- MCKindOf
    FileLen <- MCFileLen
    IopPages = 2
    N_BUFFERS = 4
    PRI_STACK_LENGTH = 2
    MAX_OPEN_FILES = 4
    Shutdown = TRUE
INVARIANTS
    NeverStuck
    CommandsLive
    ResourcesConserved
    LoadInOrder
CHECK_DEADLOCK FALSE
