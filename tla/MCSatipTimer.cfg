SPECIFICATION TimerSpec
CONSTANTS
    Timer = {reset_connect, keep_alive}
    Intervals = {1, 600}
    StartNsec = {999999999}
    Delays = {0, 999999}
    MaxTurns = 3
    Handling = {0, 3500000}
SYMMETRY TimerSymmetry
CHECK_DEADLOCK FALSE
INVARIANTS
    NoIdleTurn
    NoOversleep
