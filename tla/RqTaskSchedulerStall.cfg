\* The machine may sleep through most of the morning.
SPECIFICATION Spec
CONSTANTS
    HeartbeatTask = HeartbeatTask
    FastRunnerPqpTask = FastRunnerPqpTask
    FastRunnerApTask = FastRunnerApTask
    DayLen = 17
    Transition = 22
    WestBefore = 3
    WestAfter = 4
    HeartbeatInterval = 12
    PqpSlots = {4, 11}
    ApSlots = {5, 12}
    Noon = 12
    LiveWindow = 3
    Start = 13
    Horizon = 38
    MaxStall = 7
    MaxRestarts = 0
INVARIANT LiveOnlyFromLastSlot
CHECK_DEADLOCK FALSE
