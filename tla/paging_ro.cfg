SPECIFICATION Spec
CONSTANTS
    Proc = {1, 2}
    NCPU = 1
    NPAGE = 2
    NPHYS = 4
    MAX_FRAMES = 4
    MAX_SWAP = 3
    Val = {1}
    IMAGE = 1
    ReadOnly = {0}
    Calls = {"fault", "exec", "store_ro", "fork", "exit"}
    Room = TRUE
    WalkFails = FALSE
PROPERTY BadStoreKilled
