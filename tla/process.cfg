SPECIFICATION Spec
CONSTANTS
    NPROC = 3
    NCPU = 2
    MaxPid = 3
    Pausers = {3}
    Killers = {2}
INVARIANTS TableExact NoPanic NoSpinCycle StacksOwned NoLostWakeup
PROPERTY ImplementsProcLife
