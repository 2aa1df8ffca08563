SPECIFICATION Spec
CONSTANTS
    Proc = {1, 2}
    NCPU = 1
    NPAGE = 2
    NPHYS = 3
    MAX_FRAMES = 2
    MAX_SWAP = 3
    Val = {1}
    IMAGE = 1
    ReadOnly = {}
    Calls = {"store", "fault", "sbrk_lazy", "fork"}
    Room = FALSE
    WalkFails = FALSE
INVARIANT PageIntact
