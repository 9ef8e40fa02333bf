CONSTANTS
    a = a
    b = b
    c = c
    d = d
    NoPid = NoPid
    Pids <- FourPids
    MAX_PIDS = 3
SPECIFICATION TableSpec
INVARIANTS
    OneSlotPerPid
PROPERTY
    ImplementsPidList
