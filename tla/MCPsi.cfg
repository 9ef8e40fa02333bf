CONSTANTS
    EmmEnabled = TRUE
    CaidFilter <- MCCaids
    PSI_MAX_DERIVED_PIDS = 7
    JoinablePids <- MCJoinable
    PatInputs <- MCPat
    CatInputs <- MCCat
    PmtInputs <- MCPmt
SPECIFICATION LiveSpec
INVARIANTS
    TablesFitPat
    WithinLimit
    NothingForeign
    WholeServices
PROPERTIES
    StaleOnlyByStreams
    NeededDerived
