CONSTANTS
    a = a
    Pids <- OnePid
    MAX_PIDS = 1
    CaEnabled = TRUE
    BaseCaPids <- NoPids
    MaxTunes = 2
    TcpData = TRUE
SPECIFICATION FairSessionSpec
INVARIANTS
    SessionTypeOK
    NeverStranded
    TunedToLatest
    BackoffBounded
    SessionInv
    NoLostPid
PROPERTIES
    ConfigSpec
    Recovers
    KeptAlive
    WaitEnds
