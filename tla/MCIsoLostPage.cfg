SPECIFICATION Spec
CONSTANTS
    STR = STR
    SERVER = SERVER
    LOADER = LOADER
    DGO = DGO
    NoCmd = NoCmd
    Cmds = {STR, DGO}
    KindOf <- MCKindOf
    FileLen <- MCFileLen
    IopPages = 1
    N_BUFFERS = 4
    PRI_STACK_LENGTH = 4
    MAX_OPEN_FILES = 16
    Shutdown = FALSE
INVARIANTS
    LoadIsComplete
