SPECIFICATION TuningSpec
CONSTANTS
    Frequencies = {1236050}
    SymbolRates = {27500000}
    InnerFecs = {35, 14}
    StreamIds <- MCStreamIds
    PlsCodes = {9}
    Switches = {32, 247}
INVARIANTS
    SettledAsAsked
