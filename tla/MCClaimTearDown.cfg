CONSTANTS
    a = a
    Pids <- OnePid
    MAX_PIDS = 1
    CaEnabled = FALSE
    BaseCaPids <- NoPids
    MaxTunes = 2
    TcpData = TRUE
SPECIFICATION SessionSpec
INVARIANT
    TornDownGoesWaiting
