SPECIFICATION Spec
CONSTANTS
    NPROC = 5
    NOFILE = 5
    NFILE = 5
    NINODE = 7
    NINODES = 8
    FSSIZE = 18
    BSIZE = 2
    NDIRECT = 3
    NINDIRECT = 2
    IPB = 2
    BPB = 4
    MAXOPBLOCKS = 8
    NPIPE = 2
    PIPESIZE = 2
    UINT = 8
    INPUT_BUF_SIZE = 4
    TXBUF = 2
    MAXARGS = 4
    MaxCrash = 1
    Tests = {"manywrites"}
INVARIANT NamelessFreed
