\* Two scaled days of 17 ticks; the clocks are set back on the second night.
SPECIFICATION Spec
CONSTANTS
    HeartbeatTask = HeartbeatTask
    FastRunnerPqpTask = FastRunnerPqpTask
    FastRunnerApTask = FastRunnerApTask
    DayLen = 17
    Transition = 22
    WestBefore = 3
    WestAfter = 4
    HeartbeatInterval = 8
    PqpSlots = {4, 11}
    ApSlots = {5, 12}
    Noon = 12
    LiveWindow = 3
    Start = 13
    Horizon = 38
    MaxStall = 1
    MaxRestarts = 2
INVARIANTS
    TypeOK
    FiresOncePerSlot
    LoopReachesSleep
    NoSlotLost
    LiveOnlyFromLastSlot
PROPERTIES
    ImplementsTradingDay
    SpawnedRunsStart
CHECK_DEADLOCK FALSE
