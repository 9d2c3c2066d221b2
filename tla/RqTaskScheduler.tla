--------------------------- MODULE RqTaskScheduler ---------------------------
(***************************************************************************)
(* services/rqtask_scheduler.rs: the loop that spawns the due tasks and    *)
(* sleeps until the next trigger, with the triggers of its three tasks and *)
(* the decision each FastRunner run takes from the clock as it starts      *)
(* (robotrader/fast_runner_task.rs).                                       *)
(*                                                                         *)
(* The loop, the runs and everything else of the main runtime share one    *)
(* thread: a spawned run starts only while the loop sleeps.  Between two   *)
(* awaits the loop is not interrupted, but the clock moves on, and a       *)
(* blocked thread or a suspended machine lets it move far: MaxStall bounds *)
(* for how many ticks the thread may be late.  The process may restart at  *)
(* any moment; main() then builds every task anew.                         *)
(***************************************************************************)
EXTENDS LocalTime, Sequences

CONSTANTS
    HeartbeatTask, FastRunnerPqpTask, FastRunnerApTask,
    HeartbeatInterval,    \* 10 minutes
    PqpSlots, ApSlots,    \* times of day of the targets_tz of each task
    Noon,                 \* 12:00 ET
    LiveWindow,           \* 90 seconds
    Start, Horizon,       \* first and last instant of the clock (bound)
    MaxStall,             \* how late the thread may be
    MaxRestarts           \* how often the process restarts (bound)

FastRunners == {FastRunnerPqpTask, FastRunnerApTask}
Tasks == FastRunners \cup {HeartbeatTask}
Slots(t) == IF t = FastRunnerPqpTask THEN PqpSlots ELSE ApSlots

\* The order of the schedule_task() calls of main().
TaskList == <<HeartbeatTask, FastRunnerPqpTask, FastRunnerApTask>>

ASSUME SchedulerAssumption ==
    /\ Cardinality(Tasks) = 3
    /\ {HeartbeatInterval, LiveWindow} \subseteq Nat \ {0}
    /\ {Start, Horizon, MaxStall, MaxRestarts} \subseteq Nat
    /\ Start <= Horizon
    /\ PqpSlots # {} /\ ApSlots # {}
    /\ PqpSlots \cup ApSlots \cup {Noon} \subseteq 0..(DayLen - 1)

VARIABLES
    clock,        \* Utc::now()
    next_time,    \* next_time of each task
    pc,           \* "scan", "spawn" or "sleep"
    now,          \* the loop's local: the clock at its last scan
    due_tasks,    \* the due tasks not spawned yet
    wake,         \* when the sleep ends
    spawned,      \* FastRunner runs spawned and not started: [task, trigger, at]
    live,         \* history: the runs that trade for real, in order: [task, trigger, date]
    fired,        \* history: how often each instant fired a FastRunner, up to 2;
                  \* an instant that a restart passed over counts as fired
    restarts      \* history: number of restarts

vars == <<clock, next_time, pc, now, due_tasks, wake, spawned, live, fired, restarts>>

Instants == Start..Horizon
\* Triggers may lie behind the horizon, never ahead of the start.
Triggers == {u \in Nat : Start <= u}

TypeOK ==
    /\ clock \in Instants /\ now \in Instants /\ restarts \in 0..MaxRestarts
    /\ next_time \in [Tasks -> Triggers]
    /\ pc \in {"scan", "spawn", "sleep"}
    /\ due_tasks \subseteq Tasks
    /\ wake \in Triggers
    /\ spawned \subseteq [task : FastRunners, trigger : Triggers, at : Instants]
    /\ live \in Seq([task : FastRunners, trigger : Triggers, date : Int])
    /\ fired \in [FastRunners -> [Instants -> 0..2]]

-----------------------------------------------------------------------------
\* update_next_trigger_time(), and the same computation in new(): the
\* heartbeat adds its interval; a FastRunner takes the earliest of the next
\* occurrences of its targets.
NextTrigger(t, at) ==
    IF t = HeartbeatTask
      THEN at + HeartbeatInterval
      ELSE EarliestOr({FutureInstant(at, s) : s \in Slots(t)}, MinUtc)

NextTriggers(at) == [t \in Tasks |-> NextTrigger(t, at)]

Soonest == EarliestOr({next_time[t] : t \in Tasks}, MinUtc)

Init ==
    /\ clock = Start /\ now = Start /\ wake = Start /\ restarts = 0
    /\ next_time = NextTriggers(Start)
    /\ pc = "scan"
    /\ due_tasks = {}
    /\ spawned = {} /\ live = <<>>
    /\ fired = [t \in FastRunners |-> [u \in Instants |-> 0]]

\* One pass over the tasks: those whose trigger is not after now are due.
Scan ==
    /\ pc = "scan"
    /\ now' = clock
    /\ due_tasks' = {t \in Tasks : next_time[t] <= clock}
    /\ pc' = "spawn"
    /\ UNCHANGED <<clock, next_time, wake, spawned, live, fired, restarts>>

\* tokio::spawn(task.run()).  The heartbeat's run only writes a log line.
Spawn(t) ==
    IF t \in FastRunners
      THEN /\ spawned' = spawned \cup
                   {[task |-> t, trigger |-> next_time[t], at |-> clock]}
           /\ fired' = [fired EXCEPT ![t][next_time[t]] = IF @ < 2 THEN @ + 1 ELSE 2]
      ELSE UNCHANGED <<spawned, fired>>

\* The due tasks are gone through in the order of TaskList.
Before(a, b) ==
    \E i, j \in DOMAIN TaskList : i < j /\ TaskList[i] = a /\ TaskList[j] = b

\* Mutant: update_next_trigger_time() is not called.
SpawnDueOnly ==
    /\ pc = "spawn"
    /\ \E t \in due_tasks :
          /\ \A o \in due_tasks : ~ Before(o, t)
          /\ Spawn(t)
          /\ due_tasks' = due_tasks \ {t}
    /\ UNCHANGED <<clock, next_time, pc, now, wake, live, restarts>>

\* Spawn the run of the next due task and move its trigger, from a fresh
\* reading of the clock.
SpawnDue ==
    /\ pc = "spawn"
    /\ \E t \in due_tasks :
          /\ \A o \in due_tasks : ~ Before(o, t)
          /\ Spawn(t)
          /\ next_time' = [next_time EXCEPT ![t] = NextTrigger(t, clock)]
          /\ due_tasks' = due_tasks \ {t}
    /\ UNCHANGED <<clock, pc, now, wake, live, restarts>>

\* Mutant: the latest trigger is taken for the soonest.
SleepUntilLatest ==
    /\ pc = "spawn"
    /\ due_tasks = {}
    /\ LET s == CHOOSE u \in {next_time[t] : t \in Tasks} :
                   \A t \in Tasks : next_time[t] <= u
       IN  IF s > now
             THEN pc' = "sleep" /\ wake' = clock + (s - now)
             ELSE pc' = "scan" /\ UNCHANGED wake
    /\ UNCHANGED <<clock, next_time, now, due_tasks, spawned, live, fired, restarts>>

\* Mutant: the comparison with now is the wrong way round.
SpinUntilSoonest ==
    /\ pc = "spawn"
    /\ due_tasks = {}
    /\ IF Soonest < now
         THEN pc' = "sleep" /\ wake' = clock + (Soonest - now)
         ELSE pc' = "scan" /\ UNCHANGED wake
    /\ UNCHANGED <<clock, next_time, now, due_tasks, spawned, live, fired, restarts>>

\* Sleep for the time from now to the soonest trigger, counted from here; or
\* loop again at once, without an await, if that trigger has passed.
SleepUntilSoonest ==
    /\ pc = "spawn"
    /\ due_tasks = {}
    /\ IF Soonest > now
         THEN pc' = "sleep" /\ wake' = clock + (Soonest - now)
         ELSE pc' = "scan" /\ UNCHANGED wake
    /\ UNCHANGED <<clock, next_time, now, due_tasks, spawned, live, fired, restarts>>

Wake ==
    /\ pc = "sleep"
    /\ clock >= wake
    /\ pc' = "scan"
    /\ UNCHANGED <<clock, next_time, now, due_tasks, wake, spawned, live, fired, restarts>>

\* Mutant: abs() is dropped.
IsLastScheduled(u) == TimeOfDay(Local(u)) - Noon < LiveWindow

\* ! is_simulation: less than 90 seconds from noon.
is_last_scheduled_today(u) ==
    LET secs == TimeOfDay(Local(u)) - Noon
    IN  secs < LiveWindow /\ - secs < LiveWindow

\* A spawned run gets the thread, and reads the clock to decide between
\* simulation and real trading.  Whether it is a rebalance day is left open.
RunStarts ==
    /\ pc = "sleep"
    /\ \E r \in spawned :
          /\ spawned' = spawned \ {r}
          /\ live' = IF is_last_scheduled_today(clock)
                       THEN Append(live, [task |-> r.task, trigger |-> r.trigger,
                                          date |-> DateOf(Local(clock))])
                       ELSE live
    /\ UNCHANGED <<clock, next_time, pc, now, due_tasks, wake, fired, restarts>>

\* The clock moves on while the thread is late by less than MaxStall.
Tick ==
    /\ clock < Horizon
    /\ clock < (IF pc = "sleep" THEN wake ELSE now) + MaxStall
    /\ \A r \in spawned : clock < r.at + MaxStall
    /\ clock' = clock + 1
    /\ UNCHANGED <<next_time, pc, now, due_tasks, wake, spawned, live, fired, restarts>>

\* The process dies and main() runs again.
Restart ==
    /\ restarts < MaxRestarts
    /\ restarts' = restarts + 1
    /\ next_time' = NextTriggers(clock)
    /\ pc' = "scan" /\ now' = clock /\ due_tasks' = {} /\ wake' = clock
    /\ spawned' = {}
    /\ fired' = [t \in FastRunners |-> [u \in Instants |->
                    IF u <= clock /\ fired[t][u] = 0 THEN 1 ELSE fired[t][u]]]
    /\ UNCHANGED <<clock, live>>

Loop == Scan \/ SpawnDue \/ SleepUntilSoonest \/ Wake

Next == Loop \/ RunStarts \/ Tick \/ Restart

\* The thread is never withheld for ever from the loop or from a spawned run.
Fairness == WF_vars(Loop) /\ WF_vars(RunStarts) /\ WF_vars(Tick)

Spec == Init /\ [][Next]_vars /\ Fairness

-----------------------------------------------------------------------------
LastSlot(t) == CHOOSE s \in Slots(t) : \A x \in Slots(t) : x <= s

\* A trigger spawns its run once: neither the clock standing on the trigger,
\* nor a second pass of the loop, nor a restart fires it again.
FiresOncePerSlot == \A t \in FastRunners, u \in Instants : fired[t][u] <= 1

\* After a pass every trigger lies behind the scan, so the loop never goes
\* round without its sleep and the spawned runs get the thread.
LoopReachesSleep == pc = "spawn" /\ due_tasks = {} => Soonest > now

\* Every occurrence of a target since the process started is fired, at most
\* three stalls late: one before the loop wakes, one that the stale now adds
\* to the next sleep, and one between the scan and the spawn.
NoSlotLost ==
    \A t \in FastRunners, u \in Instants :
        /\ Start < u
        /\ TimeOfDay(Local(u)) \in Slots(t)
        /\ u + 3 * MaxStall < clock
        => fired[t][u] >= 1

\* Real orders come only from the last target of the day (11:59 ET).
LiveOnlyFromLastSlot ==
    \A i \in DOMAIN live :
        LET r == live[i] IN
        /\ TimeOfDay(Local(r.trigger)) = LastSlot(r.task)
        /\ DateOf(Local(r.trigger)) = r.date

\* The promise of a trading day, restarts included: of all that is spawned, a
\* strategy trades for real at most once a day, and only around noon.
Today == DateOf(Local(clock))
Phase ==
    IF is_last_scheduled_today(clock) THEN "noon"
    ELSE IF TimeOfDay(Local(clock)) < Noon THEN "before" ELSE "after"
Batches ==
    [t \in FastRunners |->
        Cardinality({i \in DOMAIN live : live[i].task = t /\ live[i].date = Today})]

Day ==
    INSTANCE TradingDay WITH
        Strategies <- FastRunners,
        today <- Today,
        phase <- Phase,
        batches <- Batches

ImplementsTradingDay == Day!Spec

\* A spawned run is never starved by the loop: it starts, unless the process
\* dies first.
SpawnedRunsStart ==
    \A t \in FastRunners :
        (\E r \in spawned : r.task = t) ~> ~ (\E r \in spawned : r.task = t)
=============================================================================
