SPECIFICATION Spec
CONSTANTS
    Proc = {1, 2}
    NCPU = 1
    NPAGE = 2
    NPHYS = 1
    MAX_FRAMES = 1
    MAX_SWAP = 2
    Val = {1}
    IMAGE = 1
    ReadOnly = {}
    Calls = {"fault", "sbrk_lazy", "sbrk", "fork", "exit", "exec"}
    Room = FALSE
    WalkFails = TRUE
PROPERTY OpReturns
