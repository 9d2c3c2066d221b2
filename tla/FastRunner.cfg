\* One run of each strategy; starts may fail and runs may panic.
SPECIFICATION Spec
CONSTANTS
    PqpRuns = {pqp}
    ApRuns = {ap}
    MaxIterations = 3
    MaxEdits = 1
    StreamIds = {s1, s2}
    Tickers = {t1}
    Prices = {p1}
    NaN = NaN
    NoTask = NoTask
    MaxUsers = 65535
    StartMayFail = TRUE
    RunsMayPanic = TRUE
INVARIANTS
    TypeOK
    OneBatchPerRun
    LiveBatchesAllowed
    OneSharedStream
    UsersOwed
    NoStreamLeftBehind
PROPERTIES
    RefusalRereadsCookies
CHECK_DEADLOCK FALSE
