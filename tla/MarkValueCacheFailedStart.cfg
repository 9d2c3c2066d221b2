\* A start of the stream may fail; every run calls stop in the end.
SPECIFICATION Spec
CONSTANTS
    Callers = {pqp, ap, forced}
    StreamIds = {s1, s2}
    Tickers = {t1, t2}
    Prices = {p1}
    NaN = NaN
    NoTask = NoTask
    MaxUsers = 65535
    StartMayFail = TRUE
    RunsMayPanic = FALSE
PROPERTY StreamKeptForUsers
CHECK_DEADLOCK FALSE
