CONSTANTS
    r1 = r1
    r2 = r2
    r3 = r3
    Reports <- MCReports
    PipeSize = 2
SPECIFICATION ThreadsSpec
INVARIANTS
    NoLostWakeup
    FlagIsTrue
PROPERTY
    ReportRequested
