CONSTANTS
    N = 2
    Devices = 2
    TcpData = FALSE
    PipeSize = 2
    MaxSignals = 2
SPECIFICATION LifecycleSpec
INVARIANTS
    ThreadsEndFirst
    DevicesOwned
    NoSleepAfterStop
PROPERTY
    SignalEndsProcess
CHECK_DEADLOCK FALSE
