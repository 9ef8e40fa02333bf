SPECIFICATION ClockSpec
CONSTANTS
    Announced = {3, 5, 6, 7, 8, 9, 15}
    DefaultTimeout = 60
    AnswerTime = 4
INVARIANTS
    SessionKept
    GivenUpInTime
PROPERTIES
    KeepAlivePaced
