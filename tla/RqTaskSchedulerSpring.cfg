\* The clocks are set forward on the second night; the process may restart before.
SPECIFICATION Spec
CONSTANTS
    HeartbeatTask = HeartbeatTask
    FastRunnerPqpTask = FastRunnerPqpTask
    FastRunnerApTask = FastRunnerApTask
    DayLen = 17
    Transition = 22
    WestBefore = 3
    WestAfter = 2
    HeartbeatInterval = 12
    PqpSlots = {4, 11}
    ApSlots = {5, 12}
    Noon = 12
    LiveWindow = 3
    Start = 17
    Horizon = 38
    MaxStall = 0
    MaxRestarts = 1
INVARIANT NoSlotLost
CHECK_DEADLOCK FALSE
