\* The two FastRunner tasks and a forced run.
SPECIFICATION Spec
CONSTANTS
    ScheduledRuns = {pqp, ap}
    Forced = forced
    DcMain = DcMain
    DcBlanzac = DcBlanzac
    Gyantal = Gyantal
INVARIANTS
    TypeOK
    NoTaskBlocksThread
PROPERTIES
    RunsGetPastPlacing
    StopEnds
CHECK_DEADLOCK FALSE
