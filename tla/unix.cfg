SPECIFICATION Spec
CONSTANTS
    NPROC = 5
    NOFILE = 5
    NFILE = 5
    NINODE = 7
    NINODES = 8
    FSSIZE = 18
    BSIZE = 2
    NDIRECT = 3
    NINDIRECT = 2
    IPB = 2
    BPB = 4
    MAXOPBLOCKS = 8
    NPIPE = 2
    PIPESIZE = 2
    UINT = 8
    INPUT_BUF_SIZE = 4
    TXBUF = 2
    MAXARGS = 4
    MaxCrash = 1
    Tests = {"truncate1", "truncate2", "truncate3", "iputtest", "exitiputtest", "openiputtest", "opentest", "writetest", "writebig", "createtest", "dirtest", "exectest", "pipe1", "killstatus", "preempt", "exitwait", "reparent", "twochildren", "reparent2", "forktest", "sharedfd", "fourfiles", "unlinkread", "linktest", "concreate", "linkunlink", "subdir", "bigwrite", "bigfile", "fourteen", "rmdot", "dirfile", "iref", "bigdir", "badwrite", "diskfull", "outofinodes", "limits", "killed", "fsfull", "zombie", "dorphan", "grind", "grind_fork", "grind_kill", "consoletest", "killcons", "sh_pipe", "sh_redir", "sh_back", "sh_edit", "sh_bad", "sh_cd", "sh_link"}
INVARIANTS NoPanic TestsPass SessionShown FsConsistent LogDiscipline CountsExact Reclaimed StreamsFifo NobodyStranded
