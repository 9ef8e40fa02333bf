SPECIFICATION StatusSpec
CONSTANT MaxTries = 4
INVARIANTS
    SignalFollowsReport
    ToldAsReported
