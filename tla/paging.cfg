SPECIFICATION Spec
CONSTANTS
    Proc = {1, 2}
    NCPU = 1
    NPAGE = 2
    NPHYS = 3
    MAX_FRAMES = 2
    MAX_SWAP = 3
    Val = {1}
    IMAGE = 1
    ReadOnly = {0}
    Calls = {"store", "fault", "sbrk_lazy", "sbrk", "shrink", "fork", "exit", "exec",
             "store_ro"}
    Room = TRUE
    WalkFails = FALSE
INVARIANTS PageIntact MemoryExact NoPanic
