\* Starts always succeed (YF reachable); runs may panic as users.
SPECIFICATION Spec
CONSTANTS
    Callers = {pqp, ap, forced}
    StreamIds = {s1, s2}
    Tickers = {t1, t2}
    Prices = {p1}
    NaN = NaN
    NoTask = NoTask
    MaxUsers = 65535
    StartMayFail = FALSE
    RunsMayPanic = TRUE
INVARIANTS
    TypeOK
    OneStream
    NoStreamWithoutUsers
    UsersExact
PROPERTIES
    StreamKeptForUsers
    KnownStaysKnown
    ImplementsSharedStream
CHECK_DEADLOCK FALSE
