SPECIFICATION Spec
CONSTANTS
    CPU = {0}
    NPROC = 2
    BOOST = 6
    UINT = 8
    quantum_times <- Quanta
INVARIANT BoostOnTime
PROPERTIES PicksHighest NoStarvation
