------------------------ MODULE RqTaskSchedulerProofs ------------------------
(***************************************************************************)
(* Theorems about RqTaskScheduler: for any targets and interval, any       *)
(* lateness of the thread and any number of restarts, a trigger fires once *)
(* and the loop reaches its sleep.                                         *)
(***************************************************************************)
EXTENDS RqTaskScheduler, FiniteSetTheorems, WellFoundedInduction, TLAPS

\* What the theorems assume of the targets: none falls into the local times
\* that the change skips or repeats, nor so near to midnight that 24 hours
\* from now may still be the same day.  11:59 ET and the targets before it do.
ChangeHour ==
    (Transition - WestBefore)..(Transition - WestAfter - 1)
      \cup (Transition - WestAfter)..(Transition - WestBefore - 1)

CalmSlots ==
    /\ \A l \in ChangeHour : TimeOfDay(l) \notin PqpSlots \cup ApSlots
    /\ \A s \in PqpSlots \cup ApSlots : WestAfter <= s + WestBefore

\* The thread so prompt that a run late by four stalls still starts on its day,
\* and by an earlier target than the last one ahead of the minutes around noon;
\* and no change of the clock so soon behind a target.
PromptThread ==
    /\ \A t \in FastRunners : \A s \in Slots(t) :
          /\ s + 4 * MaxStall < DayLen
          /\ s = LastSlot(t) \/ s + 4 * MaxStall + LiveWindow <= Noon
    /\ \A u \in (Transition - 4 * MaxStall)..(Transition - 1) :
          TimeOfDay(Local(u)) \notin PqpSlots \cup ApSlots

Types ==
    /\ clock \in Instants /\ now \in Instants /\ now <= clock
    /\ next_time \in [Tasks -> Nat]
    /\ pc \in {"scan", "spawn", "sleep"}
    /\ due_tasks \subseteq Tasks
    /\ fired \in [FastRunners -> [Instants -> 0..2]]

\* While the loop spawns, the due tasks are those whose trigger has passed.
DueInv ==
    /\ \A t \in Tasks : next_time[t] > Start
    /\ pc = "spawn" => \A t \in Tasks : t \in due_tasks <=> next_time[t] <= now
    /\ pc # "spawn" => due_tasks = {}

\* What has fired lies behind the clock, and the trigger behind what has fired.
FiredInv ==
    \A t \in FastRunners, u \in Instants :
        /\ fired[t][u] <= 1
        /\ fired[t][u] # 0 => u <= clock /\ u < next_time[t]

IInv == Types /\ DueInv /\ FiredInv

-----------------------------------------------------------------------------
LEMMA ConstantFacts ==
    /\ DayLen \in Nat /\ DayLen > 0
    /\ Transition \in Nat /\ WestBefore \in Nat /\ WestAfter \in Nat
    /\ HeartbeatInterval \in Nat /\ HeartbeatInterval > 0
    /\ Start \in Nat /\ Horizon \in Nat /\ Start <= Horizon
    /\ PqpSlots # {} /\ ApSlots # {}
    /\ \A s \in PqpSlots \cup ApSlots : s \in 0..(DayLen - 1)
  BY LocalTimeAssumption, SchedulerAssumption

\* The date and the time of day of a local time.
LEMMA DivMod ==
    ASSUME NEW x \in Int
    PROVE  /\ DateOf(x) \in Int
           /\ TimeOfDay(x) \in 0..(DayLen - 1)
           /\ x = DateOf(x) * DayLen + TimeOfDay(x)
  BY LocalTimeAssumption DEF DateOf, TimeOfDay

LEMMA Multiples ==
    ASSUME NEW a \in Int, NEW b \in Int, a <= b
    PROVE  a * DayLen <= b * DayLen
  BY LocalTimeAssumption

LEMMA DateAtLeast ==
    ASSUME NEW x \in Int, NEW d \in Int, x >= d * DayLen
    PROVE  DateOf(x) >= d
<1>1. SUFFICES ASSUME DateOf(x) + 1 <= d PROVE FALSE
  BY DivMod
<1>2. (DateOf(x) + 1) * DayLen <= d * DayLen
  BY <1>1, DivMod, Multiples
<1>3. (DateOf(x) + 1) * DayLen = DateOf(x) * DayLen + DayLen
  BY DivMod, LocalTimeAssumption
<1>4. DateOf(x) * DayLen \in Int /\ d * DayLen \in Int
  BY DivMod, LocalTimeAssumption
<1> QED
  BY <1>2, <1>3, <1>4, DivMod, LocalTimeAssumption

\* The time of day at a target's local time is the target, the date its date.
LEMMA TargetTime ==
    ASSUME NEW d \in Int, NEW s \in 0..(DayLen - 1)
    PROVE  /\ d * DayLen + s \in Int /\ TimeOfDay(d * DayLen + s) = s
           /\ DateOf(d * DayLen + s) = d
<1> DEFINE l == d * DayLen + s
<1>1. d * DayLen \in Int /\ l \in Int
  BY ConstantFacts
<1>2. DateOf(l) >= d
  BY <1>1, DateAtLeast
<1>3. DateOf(l) <= d
  <2>1. SUFFICES ASSUME d + 1 <= DateOf(l) PROVE FALSE
    BY <1>1, DivMod
  <2>2. (d + 1) * DayLen <= DateOf(l) * DayLen
    BY <1>1, <2>1, DivMod, Multiples
  <2>3. (d + 1) * DayLen = d * DayLen + DayLen
    BY ConstantFacts
  <2>4. DateOf(l) * DayLen \in Int /\ l >= DateOf(l) * DayLen
    <3> HIDE DEF l
    <3>1. DateOf(l) \in Int /\ TimeOfDay(l) \in 0..(DayLen - 1)
          /\ l = DateOf(l) * DayLen + TimeOfDay(l)
      BY <1>1, DivMod
    <3>2. DateOf(l) * DayLen \in Int
      BY <3>1, ConstantFacts
    <3> QED
      BY <3>1, <3>2
  <2> QED
    BY <1>1, <2>2, <2>3, <2>4, ConstantFacts
<1>4. DateOf(l) = d
  BY <1>1, <1>2, <1>3, DivMod
<1> QED
  BY <1>1, <1>4, DivMod

\* EarliestOr takes the least element of the set.
LEMMA EarliestIsLeast ==
    ASSUME NEW S, S \subseteq Nat, S # {}, NEW default
    PROVE  /\ EarliestOr(S, default) \in S
           /\ \A v \in S : EarliestOr(S, default) <= v
<1> DEFINE Less == {p \in Nat \X Nat : p[1] < p[2]}
<1>1. IsWellFoundedOn(Less, Nat)
  BY NatLessThanWellFounded, Zenon DEF OpToRel
<1> HIDE DEF Less
<1>2. PICK u \in S : \A v \in S : ~ (<<v, u>> \in Less)
  BY <1>1, WFMin
<1>3. \A v \in S : u <= v
  <2>1. \A v \in S : <<v, u>> \in Nat \X Nat /\ <<v, u>>[1] = v /\ <<v, u>>[2] = u
    OBVIOUS
  <2>2. \A v \in S : ~ (v < u)
    BY <1>2, <2>1 DEF Less
  <2> QED
    BY <2>2
<1> QED
  BY <1>3 DEF EarliestOr

\* A local time that the change leaves alone has one instant, and it is later
\* than every instant with an earlier local time.
LEMMA CalmInstant ==
    ASSUME NEW l \in Int, l \notin ChangeHour, NEW at \in Nat, l > Local(at)
    PROVE  LET v == EarliestOr(InstantsOf(l), MinUtc)
           IN  v \in Nat /\ v > at /\ Local(v) = l
<1> DEFINE u == IF l < Transition - WestBefore THEN l + WestBefore ELSE l + WestAfter
<1>1. InstantsOf(l) = {u}
  <2>1. \/ l < Transition - WestBefore /\ l < Transition - WestAfter
        \/ l >= Transition - WestBefore /\ l >= Transition - WestAfter
    BY ConstantFacts DEF ChangeHour
  <2>2. \A v \in {l + WestBefore, l + WestAfter} : Local(v) = l <=> v = u
    BY <2>1, ConstantFacts DEF Local
  <2>3. u \in {l + WestBefore, l + WestAfter}
    OBVIOUS
  <2> QED
    BY <2>2, <2>3 DEF InstantsOf
<1>2. EarliestOr({u}, MinUtc) = u
  <2>1. u \in Int /\ u <= u
    BY ConstantFacts
  <2> QED
    BY <2>1 DEF EarliestOr
<1>3. u \in Int /\ u > at /\ Local(u) = l
  <2>1. \/ l < Transition - WestBefore /\ l < Transition - WestAfter
        \/ l >= Transition - WestBefore /\ l >= Transition - WestAfter
    BY ConstantFacts DEF ChangeHour
  <2> QED
    BY <2>1, ConstantFacts DEF Local
<1> QED
  BY <1>1, <1>2, <1>3

\* The next occurrence of a target lies in the future.
LEMMA FutureInstantLater ==
    ASSUME CalmSlots, NEW at \in Nat, NEW s \in PqpSlots \cup ApSlots
    PROVE  /\ FutureInstant(at, s) \in Nat /\ FutureInstant(at, s) > at
           /\ TimeOfDay(Local(FutureInstant(at, s))) = s
           /\ Local(FutureInstant(at, s)) =
                (IF TimeOfDay(Local(at)) < s THEN DateOf(Local(at))
                                             ELSE DateOf(Local(at + DayLen))) * DayLen + s
<1> DEFINE d1 == DateOf(Local(at))
           d2 == DateOf(Local(at + DayLen))
           d  == IF TimeOfDay(Local(at)) < s THEN d1 ELSE d2
           l  == d * DayLen + s
<1>1. Local(at) \in Int /\ Local(at + DayLen) \in Int
  BY ConstantFacts DEF Local
<1>2. d1 \in Int /\ d2 \in Int /\ d \in Int /\ s \in 0..(DayLen - 1) /\ s \in Int
  BY <1>1, DivMod, ConstantFacts
<1>3. l \in Int /\ TimeOfDay(l) = s
  BY <1>2, TargetTime
<1>4. l \notin ChangeHour
  BY <1>3 DEF CalmSlots
<1>5. l > Local(at)
  <2>1. d1 * DayLen \in Int /\ d2 * DayLen \in Int
    BY <1>2, ConstantFacts
  <2>2. CASE TimeOfDay(Local(at)) < s
    <3>1. l = d1 * DayLen + s
      BY <2>2
    <3> HIDE DEF d1, d2, d, l
    <3>2. Local(at) = d1 * DayLen + TimeOfDay(Local(at)) /\ TimeOfDay(Local(at)) \in Int
      BY <1>1, DivMod DEF d1
    <3> QED
      BY <1>1, <1>2, <2>1, <2>2, <3>1, <3>2
  <2>3. CASE ~ (TimeOfDay(Local(at)) < s)
    <3>1. l = d2 * DayLen + s
      BY <2>3
    <3>2. Local(at) = d1 * DayLen + TimeOfDay(Local(at)) /\ TimeOfDay(Local(at)) \in 0..(DayLen - 1)
      BY <1>1, DivMod
    <3> HIDE DEF d1, d2, d, l
    <3>3. WestAfter <= s + WestBefore
      BY DEF CalmSlots
    <3>4. Local(at + DayLen) >= Local(at) + DayLen \/ Local(at + DayLen) = Local(at) + DayLen + WestBefore - WestAfter
      BY ConstantFacts DEF Local
    <3>5. Local(at + DayLen) >= d1 * DayLen + DayLen
      BY <1>1, <1>2, <2>1, <2>3, <3>2, <3>3, <3>4, ConstantFacts
    <3>6. (d1 + 1) * DayLen = d1 * DayLen + DayLen
      BY <1>2, ConstantFacts
    <3>7. d2 >= d1 + 1
      BY <1>1, <1>2, <3>5, <3>6, DateAtLeast DEF d2
    <3>8. (d1 + 1) * DayLen <= d2 * DayLen
      BY <1>2, <3>7, Multiples
    <3> QED
      BY <1>1, <1>2, <2>1, <3>1, <3>2, <3>6, <3>8, ConstantFacts
  <2> QED
    BY <2>2, <2>3
<1>6. FutureInstant(at, s) = EarliestOr(InstantsOf(l), MinUtc)
  BY DEF FutureInstant
<1>7. /\ FutureInstant(at, s) \in Nat /\ FutureInstant(at, s) > at
      /\ Local(FutureInstant(at, s)) = l
  <2> HIDE DEF l
  <2> QED
    BY <1>3, <1>4, <1>5, <1>6, CalmInstant
<1> QED
  BY <1>3, <1>7

\* The three tasks are different.
LEMMA HeartbeatIsNoRunner == HeartbeatTask \notin FastRunners
<1>1. SUFFICES ASSUME HeartbeatTask \in FastRunners PROVE FALSE
  OBVIOUS
<1>2. Tasks = ({} \cup {FastRunnerPqpTask}) \cup {FastRunnerApTask}
  BY <1>1 DEF Tasks, FastRunners
<1>3. Cardinality({}) = 0 /\ IsFiniteSet({})
  BY FS_EmptySet
<1>4. /\ IsFiniteSet({} \cup {FastRunnerPqpTask})
      /\ Cardinality({} \cup {FastRunnerPqpTask}) \in 0..1
  BY <1>3, FS_AddElement
<1>5. Cardinality(Tasks) \in 0..2
  BY <1>2, <1>4, FS_AddElement
<1> QED
  BY <1>5, SchedulerAssumption

\* A trigger computed from an instant lies behind it, at one of its targets.
LEMMA NextTriggerLater ==
    ASSUME CalmSlots, NEW at \in Nat, NEW t \in Tasks
    PROVE  /\ NextTrigger(t, at) \in Nat /\ NextTrigger(t, at) > at
           /\ t \in FastRunners => TimeOfDay(Local(NextTrigger(t, at))) \in Slots(t)
<1>1. CASE t = HeartbeatTask
  BY <1>1, ConstantFacts, HeartbeatIsNoRunner DEF NextTrigger
<1>2. CASE t # HeartbeatTask
  <2> DEFINE S == {FutureInstant(at, s) : s \in Slots(t)}
  <2>1. Slots(t) \subseteq PqpSlots \cup ApSlots /\ Slots(t) # {}
    BY ConstantFacts DEF Slots
  <2>2. /\ S \subseteq Nat /\ S # {}
        /\ \A u \in S : u > at /\ TimeOfDay(Local(u)) \in Slots(t)
    BY <2>1, FutureInstantLater
  <2>3. EarliestOr(S, MinUtc) \in S
    BY <2>2, EarliestIsLeast
  <2>4. NextTrigger(t, at) = EarliestOr(S, MinUtc)
    BY <1>2 DEF NextTrigger
  <2> HIDE DEF S
  <2> QED
    BY <2>2, <2>3, <2>4
<1> QED
  BY <1>1, <1>2

\* So the loop's triggers, computed together at a start, all lie behind it.
LEMMA NextTriggersLater ==
    ASSUME CalmSlots, NEW at \in Nat
    PROVE  /\ NextTriggers(at) \in [Tasks -> Nat]
           /\ \A t \in Tasks : NextTriggers(at)[t] > at
           /\ \A t \in FastRunners : TimeOfDay(Local(NextTriggers(at)[t])) \in Slots(t)
  BY NextTriggerLater DEF NextTriggers, Tasks

-----------------------------------------------------------------------------
LEMMA InitEstablishes == CalmSlots /\ Init => IInv
<1> SUFFICES ASSUME CalmSlots, Init PROVE IInv
  OBVIOUS
<1>1. /\ clock = Start /\ now = Start /\ pc = "scan" /\ due_tasks = {}
      /\ next_time = NextTriggers(Start)
      /\ fired = [t \in FastRunners |-> [u \in Instants |-> 0]]
  BY DEF Init
<1>2. next_time \in [Tasks -> Nat] /\ \A t \in Tasks : next_time[t] > Start
  BY <1>1, ConstantFacts, NextTriggersLater
<1>3. Types
  BY <1>1, <1>2, ConstantFacts DEF Types, Instants
<1>4. DueInv /\ FiredInv
  BY <1>1, <1>2 DEF DueInv, FiredInv
<1> QED
  BY <1>3, <1>4 DEF IInv

\* A scan takes the clock for its now, and divides the tasks by it.
LEMMA ScanPreserves == IInv /\ Scan => IInv'
<1> SUFFICES ASSUME IInv, Scan PROVE IInv'
  OBVIOUS
<1>1. Types'
  BY ConstantFacts DEF IInv, Types, Scan, Instants
<1>2. DueInv'
  BY DEF IInv, DueInv, Scan
<1>3. FiredInv'
  BY DEF IInv, FiredInv, Scan
<1> QED
  BY <1>1, <1>2, <1>3 DEF IInv

\* A due run is spawned at a trigger that has not fired; its next trigger is
\* computed from the clock, behind now and behind every instant fired.
LEMMA SpawnPreserves == CalmSlots /\ IInv /\ SpawnDue => IInv'
<1> SUFFICES ASSUME CalmSlots, IInv, SpawnDue PROVE IInv'
  OBVIOUS
<1>1. PICK t \in due_tasks :
         /\ Spawn(t)
         /\ next_time' = [next_time EXCEPT ![t] = NextTrigger(t, clock)]
         /\ due_tasks' = due_tasks \ {t}
  BY DEF SpawnDue
<1>2. pc = "spawn" /\ UNCHANGED <<clock, pc, now>>
  BY DEF SpawnDue
<1>3. /\ t \in Tasks /\ clock \in Nat /\ now \in Nat /\ now <= clock /\ clock <= Horizon
      /\ next_time[t] \in Nat /\ Start < next_time[t] /\ next_time[t] <= now
      /\ next_time[t] \in Instants
  BY <1>1, <1>2, ConstantFacts DEF IInv, Types, DueInv, Instants
<1>4. NextTrigger(t, clock) \in Nat /\ NextTrigger(t, clock) > clock
  BY <1>3, NextTriggerLater
<1>5. /\ next_time' \in [Tasks -> Nat]
      /\ next_time'[t] = NextTrigger(t, clock)
      /\ \A x \in Tasks \ {t} : next_time'[x] = next_time[x]
  BY <1>1, <1>3, <1>4 DEF IInv, Types
<1>6. /\ fired' \in [FastRunners -> [Instants -> 0..2]]
      /\ \A x \in FastRunners, u \in Instants :
            IF x = t /\ u = next_time[t] THEN fired'[x][u] = 1
                                         ELSE fired'[x][u] = fired[x][u]
  <2>1. CASE t \in FastRunners
    <3>1. fired[t][next_time[t]] = 0
      BY <1>3, <2>1 DEF IInv, Types, FiredInv
    <3>2. fired' = [fired EXCEPT ![t][next_time[t]] = IF @ < 2 THEN @ + 1 ELSE 2]
      BY <1>1, <2>1 DEF Spawn
    <3>3. fired' = [fired EXCEPT ![t] = [fired[t] EXCEPT ![next_time[t]] = 1]]
      BY <3>1, <3>2 DEF IInv, Types
    <3> QED
      BY <1>3, <2>1, <3>3 DEF IInv, Types
  <2>2. CASE t \notin FastRunners
    BY <1>1, <2>2 DEF Spawn, IInv, Types
  <2> QED
    BY <2>1, <2>2
<1>7. Types'
  BY <1>1, <1>2, <1>5, <1>6 DEF IInv, Types
<1>8. DueInv'
  <2>1. \A x \in Tasks : next_time'[x] > Start
    BY <1>3, <1>4, <1>5, ConstantFacts DEF IInv, DueInv, Instants
  <2>2. \A x \in Tasks : x \in due_tasks' <=> next_time'[x] <= now
    BY <1>1, <1>2, <1>3, <1>4, <1>5 DEF IInv, DueInv
  <2> QED
    BY <1>2, <2>1, <2>2 DEF DueInv
<1>9. FiredInv'
  <2> SUFFICES ASSUME NEW x \in FastRunners, NEW u \in Instants
               PROVE  /\ fired'[x][u] <= 1
                      /\ fired'[x][u] # 0 => u <= clock' /\ u < next_time'[x]
    BY DEF FiredInv
  <2>1. x \in Tasks /\ u \in Nat
    BY ConstantFacts DEF Tasks, Instants
  <2>2. fired[x][u] <= 1 /\ (fired[x][u] # 0 => u <= clock /\ u < next_time[x])
    BY DEF IInv, FiredInv
  <2> QED
    BY <1>2, <1>3, <1>4, <1>5, <1>6, <2>1, <2>2
<1> QED
  BY <1>7, <1>8, <1>9 DEF IInv

\* main() again: the triggers are computed anew, behind the clock.
LEMMA RestartPreserves == CalmSlots /\ IInv /\ Restart => IInv'
<1> SUFFICES ASSUME CalmSlots, IInv, Restart PROVE IInv'
  OBVIOUS
<1>1. /\ next_time' = NextTriggers(clock)
      /\ pc' = "scan" /\ now' = clock /\ due_tasks' = {} /\ clock' = clock
  BY DEF Restart
<1>2. clock \in Instants /\ clock \in Nat /\ Start <= clock
  BY ConstantFacts DEF IInv, Types, Instants
<1>3. next_time' \in [Tasks -> Nat] /\ \A t \in Tasks : next_time'[t] > clock
  BY <1>1, <1>2, NextTriggersLater
<1>4. fired' = [t \in FastRunners |-> [u \in Instants |->
                    IF u <= clock /\ fired[t][u] = 0 THEN 1 ELSE fired[t][u]]]
  BY DEF Restart
<1>5. Types'
  <2>1. fired' \in [FastRunners -> [Instants -> 0..2]]
    BY <1>4 DEF IInv, Types
  <2> QED
    BY <1>1, <1>2, <1>3, <2>1 DEF Types
<1>6. DueInv'
  BY <1>1, <1>2, <1>3, ConstantFacts DEF DueInv
<1>7. FiredInv'
  <2> SUFFICES ASSUME NEW x \in FastRunners, NEW u \in Instants
               PROVE  /\ fired'[x][u] <= 1
                      /\ fired'[x][u] # 0 => u <= clock' /\ u < next_time'[x]
    BY DEF FiredInv
  <2>1. x \in Tasks /\ u \in Nat
    BY ConstantFacts DEF Tasks, Instants
  <2>2. fired[x][u] <= 1 /\ (fired[x][u] # 0 => u <= clock)
    BY DEF IInv, FiredInv
  <2>3. fired'[x][u] = IF u <= clock /\ fired[x][u] = 0 THEN 1 ELSE fired[x][u]
    BY <1>4
  <2>4. next_time'[x] > clock /\ next_time'[x] \in Nat
    BY <1>3, <2>1
  <2> QED
    BY <1>1, <1>2, <2>1, <2>2, <2>3, <2>4
<1> QED
  BY <1>5, <1>6, <1>7 DEF IInv

\* The other steps leave the triggers, the scan and what has fired alone.
LEMMA OthersPreserve ==
    IInv /\ (SleepUntilSoonest \/ Wake \/ RunStarts \/ Tick) => IInv'
<1> SUFFICES ASSUME IInv, SleepUntilSoonest \/ Wake \/ RunStarts \/ Tick PROVE IInv'
  OBVIOUS
<1>1. UNCHANGED <<next_time, now, due_tasks, fired>>
  BY DEF SleepUntilSoonest, Wake, RunStarts, Tick
<1>2. clock' \in Instants /\ clock <= clock'
  BY ConstantFacts DEF SleepUntilSoonest, Wake, RunStarts, Tick, IInv, Types, Instants
<1>3. pc' = pc \/ (pc' \in {"scan", "sleep"} /\ due_tasks = {})
  BY DEF SleepUntilSoonest, Wake, RunStarts, Tick, IInv, DueInv
<1>4. Types'
  BY <1>1, <1>2, <1>3, ConstantFacts DEF IInv, Types, Instants
<1>5. DueInv'
  BY <1>1, <1>3 DEF IInv, DueInv
<1>6. FiredInv'
  BY <1>1, <1>2, ConstantFacts DEF IInv, Types, FiredInv, Instants
<1> QED
  BY <1>4, <1>5, <1>6 DEF IInv

-----------------------------------------------------------------------------
LEMMA StepPreserves == CalmSlots /\ IInv /\ [Next]_vars => IInv'
<1> SUFFICES ASSUME CalmSlots, IInv, [Next]_vars PROVE IInv'
  OBVIOUS
<1>1. CASE UNCHANGED vars
  BY <1>1 DEF vars, IInv, Types, DueInv, FiredInv
<1> QED
  BY <1>1, ScanPreserves, SpawnPreserves, RestartPreserves, OthersPreserve
  DEF Next, Loop

\* The inductive invariant of the loop, for targets away from the change.
THEOREM SchedulerInvariant == CalmSlots => (Spec => []IInv)
<1> SUFFICES ASSUME CalmSlots PROVE Spec => []IInv
  OBVIOUS
<1>1. Init => IInv
  BY InitEstablishes
<1> QED
  BY <1>1, StepPreserves, PTL DEF Spec

\* No trigger spawns its run twice, however late the thread runs, however
\* long the clock stands on it, and however often the process restarts.
THEOREM TriggersFireOnce == CalmSlots => (Spec => []FiresOncePerSlot)
<1> SUFFICES ASSUME CalmSlots PROVE Spec => []FiresOncePerSlot
  OBVIOUS
<1>1. IInv => FiresOncePerSlot
  BY DEF IInv, FiredInv, FiresOncePerSlot
<1> QED
  BY SchedulerInvariant, <1>1, PTL

LEMMA NoneDueLater == IInv => LoopReachesSleep
<1> SUFFICES ASSUME IInv, pc = "spawn", due_tasks = {} PROVE Soonest > now
  BY DEF LoopReachesSleep
<1> DEFINE S == {next_time[t] : t \in Tasks}
<1>1. S \subseteq Nat /\ S # {} /\ \A u \in S : ~ (u <= now)
  BY DEF IInv, Types, DueInv, Tasks
<1>2. Soonest \in S
  BY <1>1, EarliestIsLeast DEF Soonest
<1>3. now \in Int
  BY ConstantFacts DEF IInv, Types, Instants
<1> HIDE DEF S
<1> QED
  BY <1>1, <1>2, <1>3

\* Behind the pass over the due tasks the soonest trigger is later than the
\* scan: the loop never goes round without the sleep that lets runs start.
THEOREM LoopSleeps == CalmSlots => (Spec => []LoopReachesSleep)
  BY SchedulerInvariant, NoneDueLater, PTL

-----------------------------------------------------------------------------
\* How late the loop is where it stands: it wakes at most a stall behind the
\* soonest trigger, and scans at most two behind it.
LateInv ==
    /\ pc = "scan" => \A t \in Tasks :
          now <= next_time[t] /\ clock <= next_time[t] + 2 * MaxStall
    /\ pc = "spawn" =>
          /\ clock <= now + MaxStall
          /\ \A t \in Tasks : now <= next_time[t] + 2 * MaxStall
    /\ pc = "sleep" =>
          /\ wake \in Nat /\ clock <= wake + MaxStall
          /\ \A t \in Tasks : now < next_time[t] /\ wake <= next_time[t] + MaxStall

\* A spawned run is at most three stalls late, and starts within a fourth.
SpawnedInv ==
    /\ \A t \in FastRunners : TimeOfDay(Local(next_time[t])) \in Slots(t)
    /\ \A r \in spawned :
          /\ r.task \in FastRunners /\ r.trigger \in Nat /\ r.at \in Nat
          /\ r.trigger <= clock /\ clock <= r.at + MaxStall
          /\ r.at <= r.trigger + 3 * MaxStall
          /\ TimeOfDay(Local(r.trigger)) \in Slots(r.task)

LiveInv ==
    /\ live \in Seq([task : FastRunners, trigger : Nat, date : Int])
    /\ LiveOnlyFromLastSlot

LateIInv == IInv /\ LateInv /\ SpawnedInv

LEMMA SoonestIsLeast ==
    ASSUME IInv
    PROVE  /\ Soonest \in Nat
           /\ \A t \in Tasks : next_time[t] \in Nat /\ Soonest <= next_time[t]
<1> DEFINE S == {next_time[t] : t \in Tasks}
<1>1. S \subseteq Nat /\ S # {} /\ \A t \in Tasks : next_time[t] \in S
  BY DEF IInv, Types, Tasks
<1>2. Soonest = EarliestOr(S, MinUtc)
  BY DEF Soonest
<1> HIDE DEF S
<1> QED
  BY <1>1, <1>2, EarliestIsLeast

\* A run that starts late by four stalls at most, and finds the clock near
\* noon, was spawned by the last target of the same day.
LEMMA LateRunIsLast ==
    ASSUME PromptThread, NEW t \in FastRunners, NEW u \in Nat, NEW c \in Nat,
           u <= c, c <= u + 4 * MaxStall,
           TimeOfDay(Local(u)) \in Slots(t), is_last_scheduled_today(c)
    PROVE  /\ TimeOfDay(Local(u)) = LastSlot(t)
           /\ DateOf(Local(u)) = DateOf(Local(c))
<1> DEFINE s == TimeOfDay(Local(u))
           d == DateOf(Local(u))
<1>1. /\ MaxStall \in Nat /\ LiveWindow \in Nat /\ Noon \in Nat
      /\ Slots(t) \subseteq PqpSlots \cup ApSlots
  BY SchedulerAssumption DEF Slots
<1>2. Local(u) \in Int
  BY ConstantFacts DEF Local
<1>3. s \in 0..(DayLen - 1) /\ d \in Int /\ Local(u) = d * DayLen + s
  BY <1>2, DivMod
<1>4. ~ (u < Transition /\ Transition <= c)
  <2> SUFFICES ASSUME u < Transition, Transition <= c PROVE FALSE
    OBVIOUS
  <2>1. u \in (Transition - 4 * MaxStall)..(Transition - 1)
    BY <1>1, ConstantFacts
  <2> QED
    BY <1>1, <2>1 DEF PromptThread
<1>5. Local(c) = Local(u) + (c - u)
  BY <1>4, ConstantFacts DEF Local
<1>6. s + 4 * MaxStall < DayLen /\ (s = LastSlot(t) \/ s + 4 * MaxStall + LiveWindow <= Noon)
  BY DEF PromptThread
<1> HIDE DEF s, d
<1>7. d * DayLen \in Int
  BY <1>3, ConstantFacts
<1>8. s + (c - u) \in 0..(DayLen - 1) /\ Local(c) = d * DayLen + (s + (c - u))
  BY <1>1, <1>3, <1>5, <1>6, <1>7, ConstantFacts
<1>9. TimeOfDay(Local(c)) = s + (c - u) /\ DateOf(Local(c)) = d
  BY <1>3, <1>8, TargetTime
<1>10. Noon - (s + (c - u)) < LiveWindow
  BY <1>1, <1>3, <1>9 DEF is_last_scheduled_today
<1>11. s = LastSlot(t)
  BY <1>1, <1>3, <1>6, <1>10
<1> QED
  BY <1>9, <1>11 DEF s, d

LEMMA LateTypes ==
    ASSUME IInv
    PROVE  /\ clock \in Nat /\ now \in Nat /\ now <= clock /\ MaxStall \in Nat
           /\ \A t \in Tasks : next_time[t] \in Nat
           /\ FastRunners \subseteq Tasks
  BY ConstantFacts, SchedulerAssumption DEF IInv, Types, Instants, Tasks

LEMMA LateInit == CalmSlots /\ Init => LateIInv
<1> SUFFICES ASSUME CalmSlots, Init PROVE LateIInv
  OBVIOUS
<1>1. IInv
  BY InitEstablishes
<1>2. /\ clock = Start /\ now = Start /\ pc = "scan" /\ spawned = {} /\ live = <<>>
      /\ next_time = NextTriggers(Start)
  BY DEF Init
<1>3. /\ \A t \in Tasks : next_time[t] > Start
      /\ \A t \in FastRunners : TimeOfDay(Local(next_time[t])) \in Slots(t)
  BY <1>2, ConstantFacts, NextTriggersLater
<1>4. LateInv
  BY <1>1, <1>2, <1>3, LateTypes DEF LateInv
<1>5. SpawnedInv
  BY <1>2, <1>3 DEF SpawnedInv
<1> QED
  BY <1>1, <1>4, <1>5 DEF LateIInv

LEMMA LateScan == LateIInv /\ Scan => LateInv' /\ SpawnedInv'
<1> SUFFICES ASSUME LateIInv, Scan PROVE LateInv' /\ SpawnedInv'
  OBVIOUS
<1>1. /\ pc = "scan" /\ pc' = "spawn" /\ now' = clock
      /\ UNCHANGED <<clock, next_time, spawned>>
  BY DEF Scan
<1>2. LateInv'
  BY <1>1, LateTypes DEF LateIInv, LateInv
<1>3. SpawnedInv'
  BY <1>1 DEF LateIInv, SpawnedInv
<1> QED
  BY <1>2, <1>3

\* A run is spawned at most a stall behind the scan.
LEMMA LateSpawn == CalmSlots /\ LateIInv /\ SpawnDue => LateInv' /\ SpawnedInv'
<1> SUFFICES ASSUME CalmSlots, LateIInv, SpawnDue PROVE LateInv' /\ SpawnedInv'
  OBVIOUS
<1>1. PICK t \in due_tasks :
         /\ Spawn(t)
         /\ next_time' = [next_time EXCEPT ![t] = NextTrigger(t, clock)]
  BY DEF SpawnDue
<1>2. pc = "spawn" /\ pc' = "spawn" /\ UNCHANGED <<clock, now>>
  BY DEF SpawnDue
<1>3. t \in Tasks /\ next_time[t] <= now
  BY <1>1, <1>2 DEF LateIInv, IInv, Types, DueInv
<1>4. /\ NextTrigger(t, clock) \in Nat /\ NextTrigger(t, clock) > clock
      /\ t \in FastRunners => TimeOfDay(Local(NextTrigger(t, clock))) \in Slots(t)
  BY <1>3, LateTypes, NextTriggerLater DEF LateIInv
<1>5. /\ next_time'[t] = NextTrigger(t, clock)
      /\ \A x \in Tasks \ {t} : next_time'[x] = next_time[x]
  BY <1>1, <1>3 DEF LateIInv, IInv, Types
<1>6. LateInv'
  BY <1>2, <1>4, <1>5, LateTypes DEF LateIInv, LateInv
<1>7. \A x \in FastRunners : TimeOfDay(Local(next_time'[x])) \in Slots(x)
  BY <1>4, <1>5, LateTypes DEF LateIInv, SpawnedInv
<1>8. \A r \in spawned' :
         \/ r \in spawned
         \/ /\ t \in FastRunners
            /\ r = [task |-> t, trigger |-> next_time[t], at |-> clock]
  BY <1>1 DEF Spawn
<1>9. t \in FastRunners =>
         /\ next_time[t] \in Nat /\ next_time[t] <= clock /\ clock <= clock + MaxStall
         /\ clock <= next_time[t] + 3 * MaxStall
         /\ TimeOfDay(Local(next_time[t])) \in Slots(t)
  BY <1>2, <1>3, LateTypes DEF LateIInv, LateInv, SpawnedInv
<1>10. SpawnedInv'
  <2> SUFFICES ASSUME NEW r \in spawned'
               PROVE  /\ r.task \in FastRunners /\ r.trigger \in Nat /\ r.at \in Nat
                      /\ r.trigger <= clock /\ clock <= r.at + MaxStall
                      /\ r.at <= r.trigger + 3 * MaxStall
                      /\ TimeOfDay(Local(r.trigger)) \in Slots(r.task)
    BY <1>2, <1>7 DEF SpawnedInv
  <2>1. CASE r \in spawned
    BY <2>1 DEF LateIInv, SpawnedInv
  <2>2. CASE r \notin spawned
    <3>1. /\ t \in FastRunners /\ r.task = t /\ r.trigger = next_time[t]
          /\ r.at = clock /\ clock \in Nat
      BY <1>8, <2>2, LateTypes DEF LateIInv
    <3> QED
      BY <1>9, <3>1
  <2> QED
    BY <2>1, <2>2
<1> QED
  BY <1>6, <1>10

LEMMA LateSleep == LateIInv /\ SleepUntilSoonest => LateInv' /\ SpawnedInv'
<1> SUFFICES ASSUME LateIInv, SleepUntilSoonest PROVE LateInv' /\ SpawnedInv'
  OBVIOUS
<1>1. pc = "spawn" /\ due_tasks = {} /\ UNCHANGED <<clock, next_time, now, spawned>>
  BY DEF SleepUntilSoonest
<1>2. /\ Soonest \in Nat /\ \A t \in Tasks : Soonest <= next_time[t]
      /\ Soonest > now
  BY <1>1, SoonestIsLeast, NoneDueLater DEF LateIInv, LoopReachesSleep
<1>3. pc' = "sleep" /\ wake' = clock + (Soonest - now)
  BY <1>2 DEF SleepUntilSoonest
<1>4. LateInv'
  BY <1>1, <1>2, <1>3, LateTypes DEF LateIInv, LateInv
<1>5. SpawnedInv'
  BY <1>1 DEF LateIInv, SpawnedInv
<1> QED
  BY <1>4, <1>5

LEMMA LateWake == LateIInv /\ Wake => LateInv' /\ SpawnedInv'
<1> SUFFICES ASSUME LateIInv, Wake PROVE LateInv' /\ SpawnedInv'
  OBVIOUS
<1>1. pc = "sleep" /\ pc' = "scan" /\ UNCHANGED <<clock, next_time, now, spawned>>
  BY DEF Wake
<1>2. LateInv'
  BY <1>1, LateTypes DEF LateIInv, LateInv
<1>3. SpawnedInv'
  BY <1>1 DEF LateIInv, SpawnedInv
<1> QED
  BY <1>2, <1>3

LEMMA LateTick == LateIInv /\ Tick => LateInv' /\ SpawnedInv'
<1> SUFFICES ASSUME LateIInv, Tick PROVE LateInv' /\ SpawnedInv'
  OBVIOUS
<1>1. /\ clock < (IF pc = "sleep" THEN wake ELSE now) + MaxStall
      /\ \A r \in spawned : clock < r.at + MaxStall
      /\ clock' = clock + 1 /\ UNCHANGED <<next_time, pc, now, wake, spawned>>
  BY DEF Tick
<1>2. LateInv'
  BY <1>1, LateTypes DEF LateIInv, LateInv
<1>3. SpawnedInv'
  BY <1>1, LateTypes DEF LateIInv, SpawnedInv
<1> QED
  BY <1>2, <1>3

LEMMA LateRestart == CalmSlots /\ LateIInv /\ Restart => LateInv' /\ SpawnedInv'
<1> SUFFICES ASSUME CalmSlots, LateIInv, Restart PROVE LateInv' /\ SpawnedInv'
  OBVIOUS
<1>1. /\ next_time' = NextTriggers(clock) /\ pc' = "scan" /\ now' = clock
      /\ spawned' = {} /\ clock' = clock
  BY DEF Restart
<1>2. /\ \A t \in Tasks : next_time'[t] \in Nat /\ next_time'[t] > clock
      /\ \A t \in FastRunners : TimeOfDay(Local(next_time'[t])) \in Slots(t)
  BY <1>1, LateTypes, NextTriggersLater DEF LateIInv
<1>3. LateInv'
  BY <1>1, <1>2, LateTypes DEF LateIInv, LateInv
<1>4. SpawnedInv'
  BY <1>1, <1>2 DEF SpawnedInv
<1> QED
  BY <1>3, <1>4

LEMMA LateStart == LateIInv /\ RunStarts => LateInv' /\ SpawnedInv'
  BY DEF RunStarts, LateIInv, LateInv, SpawnedInv

LEMMA LateStep == CalmSlots /\ LateIInv /\ [Next]_vars => LateIInv'
<1> SUFFICES ASSUME CalmSlots, LateIInv, [Next]_vars PROVE LateIInv'
  OBVIOUS
<1>1. IInv'
  BY StepPreserves DEF LateIInv
<1>2. LateInv' /\ SpawnedInv'
  <2>1. CASE UNCHANGED vars
    BY <2>1 DEF vars, LateIInv, LateInv, SpawnedInv
  <2> QED
    BY <2>1, LateScan, LateSpawn, LateSleep, LateWake, LateTick, LateRestart, LateStart
    DEF Next, Loop
<1> QED
  BY <1>1, <1>2 DEF LateIInv

\* However late the thread may be each time, the loop is never more than three
\* stalls behind a trigger, and a spawned run never more than four.
THEOREM LateInvariant == CalmSlots => (Spec => []LateIInv)
<1> SUFFICES ASSUME CalmSlots PROVE Spec => []LateIInv
  OBVIOUS
<1> QED
  BY LateInit, LateStep, PTL DEF Spec

-----------------------------------------------------------------------------
\* What is assumed for the next theorem: two targets of a task lie further
\* apart than the thread is ever late, and 24 hours from now is at most one
\* date ahead.  The night the clocks are set forward breaks the second.
TargetsApart ==
    \A t \in FastRunners, u \in Instants : \A v \in (u + 1)..(u + 3 * MaxStall) :
        ~ (TimeOfDay(Local(u)) \in Slots(t) /\ TimeOfDay(Local(v)) \in Slots(t))

TomorrowIsNext ==
    \A u \in Instants : DateOf(Local(u + DayLen)) <= DateOf(Local(u)) + 1

\* Every occurrence of a target ahead of the task's trigger has fired.
FiredUpTo ==
    \A t \in FastRunners, u \in Instants :
        Start < u /\ TimeOfDay(Local(u)) \in Slots(t) /\ u < next_time[t]
        => fired[t][u] >= 1

\* Towards a local time that the change leaves alone, local time runs forward.
LEMMA LocalForward ==
    ASSUME NEW u \in Int, NEW v \in Int, u < v, Local(v) \notin ChangeHour
    PROVE  Local(u) < Local(v)
  BY ConstantFacts DEF Local, ChangeHour

\* No occurrence of the target between an instant and its FutureInstant.
LEMMA FutureInstantIsNext ==
    ASSUME CalmSlots, TomorrowIsNext, NEW at \in Instants,
           NEW s \in PqpSlots \cup ApSlots,
           NEW u \in Nat, at < u, TimeOfDay(Local(u)) = s
    PROVE  FutureInstant(at, s) <= u
<1> SUFFICES ASSUME u < FutureInstant(at, s) PROVE FALSE
  BY FutureInstantLater, ConstantFacts DEF Instants
<1> DEFINE v == FutureInstant(at, s)
           a == DateOf(Local(at))
           b == DateOf(Local(u))
           d == IF TimeOfDay(Local(at)) < s THEN a ELSE DateOf(Local(at + DayLen))
<1>1. at \in Nat /\ s \in 0..(DayLen - 1) /\ s \in Int /\ DayLen \in Nat /\ DayLen > 0
  BY ConstantFacts DEF Instants
<1>2. v \in Nat /\ TimeOfDay(Local(v)) = s /\ Local(v) = d * DayLen + s
  BY <1>1, FutureInstantLater
<1>3. Local(at) \in Int /\ Local(u) \in Int /\ Local(v) \in Int /\ Local(at + DayLen) \in Int
  BY <1>1, <1>2, ConstantFacts DEF Local
<1>4. a \in Int /\ b \in Int /\ d \in Int
  BY <1>3, DivMod
<1>5. d <= a \/ (d <= a + 1 /\ TimeOfDay(Local(at)) >= s)
  <2>1. TimeOfDay(Local(at)) \in Int /\ DateOf(Local(at + DayLen)) \in Int
    BY <1>3, DivMod
  <2>2. DateOf(Local(at + DayLen)) <= a + 1
    BY DEF TomorrowIsNext
  <2> QED
    BY <1>1, <1>4, <2>1, <2>2
<1>6. /\ Local(at) = a * DayLen + TimeOfDay(Local(at))
      /\ TimeOfDay(Local(at)) \in 0..(DayLen - 1)
      /\ Local(u) = b * DayLen + s
  BY <1>3, DivMod
<1>7. Local(at) < Local(u) /\ Local(u) < Local(v)
  <2>1. Local(u) \notin ChangeHour /\ Local(v) \notin ChangeHour
    BY <1>2 DEF CalmSlots
  <2> QED
    BY <1>1, <1>2, <2>1, LocalForward
<1> HIDE DEF v, a, b, d
<1>8. a * DayLen \in Int /\ b * DayLen \in Int /\ d * DayLen \in Int
      /\ (a + 1) * DayLen = a * DayLen + DayLen
  BY <1>1, <1>4
<1>9. b < d
  <2>1. d <= b => d * DayLen <= b * DayLen
    BY <1>4, Multiples
  <2> QED
    BY <1>1, <1>2, <1>4, <1>6, <1>7, <1>8, <2>1
<1>10. a <= b
  <2>1. b + 1 <= a => (b + 1) * DayLen <= a * DayLen
    BY <1>4, Multiples
  <2>2. (b + 1) * DayLen = b * DayLen + DayLen
    BY <1>1, <1>4
  <2>3. TimeOfDay(Local(at)) \in Int
    BY <1>6
  <2> QED
    BY <1>1, <1>3, <1>4, <1>6, <1>7, <1>8, <2>1, <2>2, <2>3
<1>11. b = a /\ TimeOfDay(Local(at)) >= s
  BY <1>4, <1>5, <1>9, <1>10
<1> QED
  BY <1>1, <1>3, <1>6, <1>7, <1>8, <1>11

\* So a task's trigger is the first occurrence of any of its targets.
LEMMA NextTriggerIsNext ==
    ASSUME CalmSlots, TomorrowIsNext, NEW at \in Instants, NEW t \in FastRunners,
           NEW u \in Nat, at < u, TimeOfDay(Local(u)) \in Slots(t)
    PROVE  NextTrigger(t, at) <= u
<1> DEFINE S == {FutureInstant(at, s) : s \in Slots(t)}
<1>1. at \in Nat /\ Slots(t) \subseteq PqpSlots \cup ApSlots /\ Slots(t) # {}
  BY ConstantFacts DEF Slots, Instants
<1>2. S \subseteq Nat /\ S # {}
  BY <1>1, FutureInstantLater
<1>3. NextTrigger(t, at) = EarliestOr(S, MinUtc)
  BY HeartbeatIsNoRunner DEF NextTrigger
<1>4. /\ FutureInstant(at, TimeOfDay(Local(u))) \in S
      /\ FutureInstant(at, TimeOfDay(Local(u))) <= u
  BY <1>1, FutureInstantIsNext
<1> HIDE DEF S
<1>5. PICK v \in S : v \in Nat /\ v <= u
  BY <1>2, <1>4
<1>6. EarliestOr(S, MinUtc) \in Nat /\ EarliestOr(S, MinUtc) <= v
  BY <1>2, EarliestIsLeast
<1> QED
  BY <1>3, <1>5, <1>6

LEMMA FiredUpToInit == CalmSlots /\ TomorrowIsNext /\ Init => FiredUpTo
<1> SUFFICES ASSUME CalmSlots, TomorrowIsNext, Init,
                    NEW t \in FastRunners, NEW u \in Instants,
                    Start < u, TimeOfDay(Local(u)) \in Slots(t), u < next_time[t]
             PROVE  FALSE
  BY DEF FiredUpTo
<1>1. Start \in Instants /\ u \in Nat /\ t \in Tasks
  BY ConstantFacts DEF Instants, Tasks
<1>2. next_time[t] = NextTrigger(t, Start)
  BY <1>1 DEF Init, NextTriggers
<1>3. NextTrigger(t, Start) <= u /\ NextTrigger(t, Start) \in Nat
  BY <1>1, ConstantFacts, NextTriggerIsNext, NextTriggerLater
<1> QED
  BY <1>1, <1>2, <1>3

\* The trigger fires; no other occurrence up to the clock, for the thread is
\* not that late; none from the clock to the next trigger.
LEMMA FiredUpToSpawn ==
    /\ CalmSlots /\ TargetsApart /\ TomorrowIsNext
    /\ LateIInv /\ FiredUpTo /\ SpawnDue
    => FiredUpTo'
<1> SUFFICES ASSUME CalmSlots, TargetsApart, TomorrowIsNext,
                    LateIInv, FiredUpTo, SpawnDue
             PROVE  FiredUpTo'
  OBVIOUS
<1>1. PICK t \in due_tasks :
         /\ Spawn(t)
         /\ next_time' = [next_time EXCEPT ![t] = NextTrigger(t, clock)]
  BY DEF SpawnDue
<1>2. pc = "spawn" /\ t \in Tasks /\ next_time[t] <= now
  BY <1>1 DEF SpawnDue, LateIInv, IInv, Types, DueInv
<1>3. /\ clock \in Instants /\ clock \in Nat /\ now \in Nat /\ now <= clock
      /\ next_time[t] \in Nat /\ MaxStall \in Nat
  BY <1>2, LateTypes DEF LateIInv, IInv, Types
<1>4. Start < next_time[t] /\ next_time[t] \in Instants
  BY <1>2, <1>3, ConstantFacts DEF LateIInv, IInv, DueInv, Instants
<1>5. clock <= next_time[t] + 3 * MaxStall
  BY <1>2, <1>3 DEF LateIInv, LateInv
<1>6. /\ next_time'[t] = NextTrigger(t, clock)
      /\ \A x \in Tasks \ {t} : next_time'[x] = next_time[x]
  BY <1>1, <1>2 DEF LateIInv, IInv, Types
<1>7. ASSUME NEW x \in FastRunners, NEW u \in Instants,
             fired[x][u] >= 1 \/ (x = t /\ u = next_time[t])
      PROVE  fired'[x][u] >= 1
  <2>1. CASE t \notin FastRunners
    BY <1>1, <1>7, <2>1 DEF Spawn
  <2>2. CASE t \in FastRunners
    <3>1. fired' = [fired EXCEPT ![t][next_time[t]] = IF @ < 2 THEN @ + 1 ELSE 2]
      BY <1>1, <2>2 DEF Spawn
    <3>2. fired[x][u] \in 0..2 /\ fired \in [FastRunners -> [Instants -> 0..2]]
      BY DEF LateIInv, IInv, Types
    <3>3. CASE x = t /\ u = next_time[t]
      <4>1. fired'[x][u] = IF fired[x][u] < 2 THEN fired[x][u] + 1 ELSE 2
        BY <2>2, <3>1, <3>2, <3>3
      <4> QED
        BY <3>2, <4>1
    <3>4. CASE ~ (x = t /\ u = next_time[t])
      <4>1. fired'[x][u] = fired[x][u]
        BY <2>2, <3>1, <3>2, <3>4
      <4> QED
        BY <1>7, <3>4, <4>1
    <3> QED
      BY <3>3, <3>4
  <2> QED
    BY <2>1, <2>2
<1> SUFFICES ASSUME NEW x \in FastRunners, NEW u \in Instants,
                    Start < u, TimeOfDay(Local(u)) \in Slots(x), u < next_time'[x]
             PROVE  fired'[x][u] >= 1
  BY DEF FiredUpTo
<1>8. u \in Nat /\ x \in Tasks
  BY ConstantFacts DEF Instants, Tasks
<1>9. CASE u < next_time[x]
  BY <1>7, <1>9 DEF FiredUpTo
<1>10. CASE ~ (u < next_time[x])
  <2>1. x = t
    BY <1>6, <1>8, <1>10
  <2>2. u <= clock
    <3>1. clock < u => NextTrigger(t, clock) <= u
      BY <1>3, <1>8, <2>1, NextTriggerIsNext
    <3>2. NextTrigger(t, clock) \in Nat
      BY <1>2, <1>3, NextTriggerLater
    <3> QED
      BY <1>3, <1>6, <1>8, <2>1, <3>1, <3>2
  <2>3. u = next_time[t]
    <3>1. SUFFICES ASSUME u # next_time[t] PROVE FALSE
      OBVIOUS
    <3>2. u \in (next_time[t] + 1)..(next_time[t] + 3 * MaxStall)
      BY <1>3, <1>5, <1>8, <1>10, <2>1, <2>2, <3>1
    <3>3. TimeOfDay(Local(next_time[t])) \in Slots(t)
      BY <2>1 DEF LateIInv, SpawnedInv
    <3> QED
      BY <1>4, <2>1, <3>2, <3>3 DEF TargetsApart
  <2> QED
    BY <1>7, <2>1, <2>3
<1> QED
  BY <1>9, <1>10

\* What a restart passes over counts as fired; the rest lies behind the new
\* triggers.
LEMMA FiredUpToRestart ==
    CalmSlots /\ TomorrowIsNext /\ LateIInv /\ Restart => FiredUpTo'
<1> SUFFICES ASSUME CalmSlots, TomorrowIsNext, LateIInv, Restart,
                    NEW t \in FastRunners, NEW u \in Instants,
                    TimeOfDay(Local(u)) \in Slots(t), u < next_time'[t]
             PROVE  fired'[t][u] >= 1
  BY DEF FiredUpTo
<1>1. clock \in Instants /\ clock \in Nat /\ u \in Nat /\ t \in Tasks
  BY LateTypes, ConstantFacts DEF LateIInv, IInv, Types, Instants, Tasks
<1>2. next_time'[t] = NextTrigger(t, clock)
  BY <1>1 DEF Restart, NextTriggers
<1>3. NextTrigger(t, clock) \in Nat /\ (clock < u => NextTrigger(t, clock) <= u)
  BY <1>1, NextTriggerLater, NextTriggerIsNext
<1>4. u <= clock
  BY <1>1, <1>2, <1>3
<1>5. fired'[t][u] = IF u <= clock /\ fired[t][u] = 0 THEN 1 ELSE fired[t][u]
  BY DEF Restart
<1>6. fired[t][u] \in 0..2
  BY DEF LateIInv, IInv, Types
<1> QED
  BY <1>4, <1>5, <1>6

LEMMA FiredUpToStep ==
    /\ CalmSlots /\ TargetsApart /\ TomorrowIsNext
    /\ LateIInv /\ FiredUpTo /\ [Next]_vars
    => FiredUpTo'
<1>1. FiredUpTo /\ UNCHANGED <<next_time, fired>> => FiredUpTo'
  BY DEF FiredUpTo
<1>2. [Next]_vars => SpawnDue \/ Restart \/ UNCHANGED <<next_time, fired>>
  BY DEF Next, Loop, vars, Scan, SleepUntilSoonest, Wake, RunStarts, Tick
<1> QED
  BY <1>1, <1>2, FiredUpToSpawn, FiredUpToRestart

\* The clock is never more than three stalls behind a trigger, so what lies
\* further back than that lies ahead of the trigger, and has fired.
LEMMA FiredUpToIsEnough == LateIInv /\ FiredUpTo => NoSlotLost
<1> SUFFICES ASSUME LateIInv, FiredUpTo, NEW t \in FastRunners, NEW u \in Instants,
                    Start < u, TimeOfDay(Local(u)) \in Slots(t),
                    u + 3 * MaxStall < clock
             PROVE  fired[t][u] >= 1
  BY DEF NoSlotLost
<1>1. /\ clock \in Nat /\ now \in Nat /\ MaxStall \in Nat /\ u \in Nat
      /\ t \in Tasks /\ next_time[t] \in Nat /\ pc \in {"scan", "spawn", "sleep"}
  BY LateTypes, ConstantFacts DEF LateIInv, IInv, Types, Instants
<1>2. clock <= next_time[t] + 3 * MaxStall
  BY <1>1 DEF LateIInv, LateInv
<1> QED
  BY <1>1, <1>2 DEF FiredUpTo

\* No target is skipped: not by the sleep counted from a stale now, not by a
\* thread that comes late, and not by the trigger computed behind it.
THEOREM NoTargetSkipped ==
    CalmSlots /\ TargetsApart /\ TomorrowIsNext => (Spec => []NoSlotLost)
<1> SUFFICES ASSUME CalmSlots, TargetsApart, TomorrowIsNext PROVE Spec => []NoSlotLost
  OBVIOUS
<1>1. Init => FiredUpTo
  BY FiredUpToInit
<1>2. LateIInv /\ FiredUpTo /\ [Next]_vars => FiredUpTo'
  BY FiredUpToStep
<1> QED
  BY <1>1, <1>2, LateInvariant, FiredUpToIsEnough, PTL DEF Spec

-----------------------------------------------------------------------------
\* The run that starts is spawned by a target; near noon by the last.
LEMMA LiveStart == PromptThread /\ LateIInv /\ LiveInv /\ RunStarts => LiveInv'
<1> SUFFICES ASSUME PromptThread, LateIInv, LiveInv, RunStarts
             PROVE  LiveInv'
  OBVIOUS
<1>1. PICK r \in spawned :
         /\ spawned' = spawned \ {r}
         /\ live' = IF is_last_scheduled_today(clock)
                      THEN Append(live, [task |-> r.task, trigger |-> r.trigger,
                                         date |-> DateOf(Local(clock))])
                      ELSE live
  BY DEF RunStarts
<1>2. UNCHANGED <<clock, next_time, pc, now, wake>>
  BY DEF RunStarts
<1>3. CASE ~ is_last_scheduled_today(clock)
  BY <1>1, <1>3 DEF LiveInv, LiveOnlyFromLastSlot
<1>4. CASE is_last_scheduled_today(clock)
  <2> DEFINE e == [task |-> r.task, trigger |-> r.trigger, date |-> DateOf(Local(clock))]
  <2>1. /\ r.task \in FastRunners /\ r.trigger \in Nat /\ r.at \in Nat
        /\ r.trigger <= clock /\ clock <= r.at + MaxStall
        /\ r.at <= r.trigger + 3 * MaxStall
        /\ TimeOfDay(Local(r.trigger)) \in Slots(r.task)
    BY <1>1 DEF LateIInv, SpawnedInv
  <2>2. clock \in Nat /\ clock <= r.trigger + 4 * MaxStall
    BY <2>1, LateTypes DEF LateIInv
  <2>3. /\ TimeOfDay(Local(r.trigger)) = LastSlot(r.task)
        /\ DateOf(Local(r.trigger)) = DateOf(Local(clock))
    BY <1>4, <2>1, <2>2, LateRunIsLast
  <2>4. DateOf(Local(clock)) \in Int
    BY <2>2, ConstantFacts, DivMod DEF Local
  <2>5. /\ e \in [task : FastRunners, trigger : Nat, date : Int]
        /\ e.task = r.task /\ e.trigger = r.trigger /\ e.date = DateOf(Local(clock))
    BY <2>1, <2>4
  <2>6. live' = Append(live, e)
    BY <1>1, <1>4
  <2> HIDE DEF e
  <2>7. live \in Seq([task : FastRunners, trigger : Nat, date : Int])
    BY DEF LiveInv
  <2>8. /\ live' \in Seq([task : FastRunners, trigger : Nat, date : Int])
        /\ \A i \in DOMAIN live' : live'[i] = e \/ (i \in DOMAIN live /\ live'[i] = live[i])
    BY <2>5, <2>6, <2>7
  <2>9. \A i \in DOMAIN live :
           /\ TimeOfDay(Local(live[i].trigger)) = LastSlot(live[i].task)
           /\ DateOf(Local(live[i].trigger)) = live[i].date
    BY DEF LiveInv, LiveOnlyFromLastSlot
  <2>10. \A i \in DOMAIN live' :
           /\ TimeOfDay(Local(live'[i].trigger)) = LastSlot(live'[i].task)
           /\ DateOf(Local(live'[i].trigger)) = live'[i].date
    <3> SUFFICES ASSUME NEW i \in DOMAIN live'
                 PROVE  /\ TimeOfDay(Local(live'[i].trigger)) = LastSlot(live'[i].task)
                        /\ DateOf(Local(live'[i].trigger)) = live'[i].date
      OBVIOUS
    <3>1. CASE live'[i] = e
      BY <2>3, <2>5, <3>1
    <3>2. CASE i \in DOMAIN live /\ live'[i] = live[i]
      BY <2>9, <3>2
    <3> QED
      BY <2>8, <3>1, <3>2
  <2> QED
    BY <2>8, <2>10 DEF LiveInv, LiveOnlyFromLastSlot
<1> QED
  BY <1>3, <1>4

LEMMA LiveStep ==
    CalmSlots /\ PromptThread /\ LateIInv /\ LiveInv /\ [Next]_vars => LiveInv'
<1> SUFFICES ASSUME CalmSlots, PromptThread, LateIInv, LiveInv, [Next]_vars PROVE LiveInv'
  OBVIOUS
<1>1. CASE RunStarts
  BY <1>1, LiveStart
<1>2. CASE ~ RunStarts
  <2>1. UNCHANGED live
    BY <1>2 DEF Next, Loop, vars, Scan, SpawnDue, SleepUntilSoonest, Wake, Tick, Restart
  <2> QED
    BY <2>1 DEF LiveInv, LiveOnlyFromLastSlot
<1> QED
  BY <1>1, <1>2

\* With a prompt thread every real run, of the processes before a restart too,
\* was spawned by the last target of its day.
THEOREM LiveInvariant == CalmSlots /\ PromptThread => (Spec => []LiveInv)
<1> SUFFICES ASSUME CalmSlots, PromptThread PROVE Spec => []LiveInv
  OBVIOUS
<1>1. Init => LiveInv
  BY DEF Init, LiveInv, LiveOnlyFromLastSlot
<1> QED
  BY <1>1, LiveStep, LateInvariant, PTL DEF Spec

\* Where the thread is prompt, real orders come from the last target of their
\* day only: that is what the comment on is_last_scheduled_today promises.
THEOREM LiveFromLastSlot ==
    CalmSlots /\ PromptThread => (Spec => []LiveOnlyFromLastSlot)
<1> SUFFICES ASSUME CalmSlots, PromptThread PROVE Spec => []LiveOnlyFromLastSlot
  OBVIOUS
<1>1. LiveInv => LiveOnlyFromLastSlot
  BY DEF LiveInv
<1> QED
  BY <1>1, LiveInvariant, PTL

-----------------------------------------------------------------------------
\* What is assumed for the refinement: the minutes around noon lie within the
\* day, and the change of the clocks within the part of a day ahead of them.
\* Days are counted from the first.
CalmNoon ==
    /\ LiveWindow <= Noon /\ Noon + LiveWindow < DayLen
    /\ \A u \in Instants : u + 1 = Transition =>
          /\ DateOf(Local(u)) = DateOf(Local(Transition))
          /\ TimeOfDay(Local(u)) + LiveWindow <= Noon
          /\ TimeOfDay(Local(Transition)) + LiveWindow <= Noon
    /\ DateOf(Local(Start)) \in Nat

\* No two runs of a task stand on the same trigger, spawned or live, and none on
\* a trigger to come; a live run's date has come.
UniqueInv ==
    /\ \A r \in spawned : r.trigger < next_time[r.task]
    /\ \A i \in DOMAIN live :
          /\ live[i].trigger < next_time[live[i].task] /\ live[i].trigger <= clock
          /\ live[i].date <= Today
    /\ \A r, q \in spawned : r.task = q.task /\ r.trigger = q.trigger => r = q
    /\ \A r \in spawned, i \in DOMAIN live :
          ~ (r.task = live[i].task /\ r.trigger = live[i].trigger)

DayInv == LateIInv /\ LiveInv /\ UniqueInv /\ Today \in Nat

\* A tick of local time: across the change, within a day, or to the next one.
LEMMA LocalTick ==
    ASSUME CalmNoon, NEW u \in Instants
    PROVE  LET x == TimeOfDay(Local(u))
               y == TimeOfDay(Local(u + 1))
               d == DateOf(Local(u))
               e == DateOf(Local(u + 1))
           IN  /\ x \in 0..(DayLen - 1) /\ y \in 0..(DayLen - 1) /\ d \in Int /\ e \in Int
               /\ \/ e = d /\ x + LiveWindow <= Noon /\ y + LiveWindow <= Noon
                  \/ e = d /\ y = x + 1
                  \/ e = d + 1 /\ x = DayLen - 1 /\ y = 0
<1> DEFINE x == TimeOfDay(Local(u))
           d == DateOf(Local(u))
<1>1. u \in Nat /\ Local(u) \in Int /\ Local(u + 1) \in Int /\ DayLen \in Nat /\ DayLen > 0
  BY ConstantFacts DEF Local, Instants
<1>2. /\ x \in 0..(DayLen - 1) /\ TimeOfDay(Local(u + 1)) \in 0..(DayLen - 1)
      /\ d \in Int /\ DateOf(Local(u + 1)) \in Int
      /\ Local(u) = d * DayLen + x
  BY <1>1, DivMod
<1>3. CASE u + 1 = Transition
  BY <1>2, <1>3 DEF CalmNoon
<1>4. CASE u + 1 # Transition
  <2>1. Local(u + 1) = Local(u) + 1
    BY <1>1, <1>4, ConstantFacts DEF Local
  <2>2. d * DayLen \in Int /\ (d + 1) * DayLen = d * DayLen + DayLen
    BY <1>1, <1>2
  <2>3. CASE x < DayLen - 1
    <3> HIDE DEF x, d
    <3>1. x + 1 \in 0..(DayLen - 1) /\ Local(u + 1) = d * DayLen + (x + 1)
      BY <1>1, <1>2, <2>1, <2>2, <2>3
    <3>2. TimeOfDay(Local(u + 1)) = x + 1 /\ DateOf(Local(u + 1)) = d
      BY <1>2, <3>1, TargetTime
    <3> QED
      BY <1>2, <3>2 DEF x, d
  <2>4. CASE x = DayLen - 1
    <3> HIDE DEF x, d
    <3>1. 0 \in 0..(DayLen - 1) /\ d + 1 \in Int /\ Local(u + 1) = (d + 1) * DayLen + 0
      BY <1>1, <1>2, <2>1, <2>2, <2>4
    <3>2. TimeOfDay(Local(u + 1)) = 0 /\ DateOf(Local(u + 1)) = d + 1
      BY <3>1, TargetTime
    <3> QED
      BY <1>2, <2>4, <3>2 DEF x, d
  <2> QED
    BY <1>1, <1>2, <2>3, <2>4
<1> QED
  BY <1>3, <1>4

\* What a tick does to the day and its phase.
LEMMA DayTick ==
    ASSUME CalmNoon, clock \in Instants, Today \in Nat, Tick
    PROVE  \/ Today' = Today /\ Phase' = Phase
           \/ Today' = Today /\ Phase = "before" /\ Phase' = "noon"
           \/ Today' = Today /\ Phase = "noon" /\ Phase' = "after"
           \/ Today' = Today + 1 /\ Phase = "after" /\ Phase' = "before"
<1> DEFINE x == TimeOfDay(Local(clock))
           y == TimeOfDay(Local(clock + 1))
<1>1. clock' = clock + 1
  BY DEF Tick
<1>2. /\ LiveWindow \in Nat /\ LiveWindow > 0 /\ Noon \in Nat /\ DayLen \in Nat
      /\ LiveWindow <= Noon /\ Noon + LiveWindow < DayLen
  BY SchedulerAssumption, ConstantFacts DEF CalmNoon
<1>3. /\ Phase = IF x - Noon < LiveWindow /\ Noon - x < LiveWindow THEN "noon"
                 ELSE IF x < Noon THEN "before" ELSE "after"
      /\ Phase' = IF y - Noon < LiveWindow /\ Noon - y < LiveWindow THEN "noon"
                  ELSE IF y < Noon THEN "before" ELSE "after"
  <2>1. x \in Int /\ y \in Int
    BY LocalTick
  <2>2. - (x - Noon) = Noon - x /\ - (y - Noon) = Noon - y
    BY <1>2, <2>1
  <2> QED
    BY <1>1, <2>2 DEF Phase, is_last_scheduled_today
<1>4. /\ x \in 0..(DayLen - 1) /\ y \in 0..(DayLen - 1)
      /\ \/ Today' = Today /\ x + LiveWindow <= Noon /\ y + LiveWindow <= Noon
         \/ Today' = Today /\ y = x + 1
         \/ Today' = Today + 1 /\ x = DayLen - 1 /\ y = 0
  BY <1>1, LocalTick DEF Today
<1> HIDE DEF x, y
<1>5. CASE Today' = Today /\ x + LiveWindow <= Noon /\ y + LiveWindow <= Noon
  BY <1>2, <1>3, <1>4, <1>5
<1>6. CASE Today' = Today /\ y = x + 1
  BY <1>2, <1>3, <1>4, <1>6
<1>7. CASE Today' = Today + 1 /\ x = DayLen - 1 /\ y = 0
  BY <1>2, <1>3, <1>4, <1>7
<1> QED
  BY <1>4, <1>5, <1>6, <1>7

-----------------------------------------------------------------------------
\* A live run's record, and the target it comes from.
LEMMA LiveFacts ==
    ASSUME LiveInv, NEW i \in DOMAIN live
    PROVE  /\ live[i].task \in FastRunners /\ live[i].task \in Tasks
           /\ live[i].trigger \in Nat /\ live[i].date \in Int
           /\ TimeOfDay(Local(live[i].trigger)) = LastSlot(live[i].task)
           /\ DateOf(Local(live[i].trigger)) = live[i].date
<1>1. live \in Seq([task : FastRunners, trigger : Nat, date : Int]) /\ LiveOnlyFromLastSlot
  BY DEF LiveInv
<1>2. live[i] \in [task : FastRunners, trigger : Nat, date : Int]
  <2>1. \A S, s : s \in Seq(S) => \A j \in DOMAIN s : s[j] \in S
    OBVIOUS
  <2> QED
    BY <1>1, <2>1, Zenon
<1>3. live[i].task \in FastRunners /\ live[i].trigger \in Nat /\ live[i].date \in Int
  BY <1>2
<1>4. /\ TimeOfDay(Local(live[i].trigger)) = LastSlot(live[i].task)
      /\ DateOf(Local(live[i].trigger)) = live[i].date
  BY <1>1 DEF LiveOnlyFromLastSlot
<1> QED
  BY <1>3, <1>4 DEF Tasks

LEMMA DayInit == CalmSlots /\ CalmNoon /\ Init => DayInv /\ Day!Init
<1> SUFFICES ASSUME CalmSlots, CalmNoon, Init PROVE DayInv /\ Day!Init
  OBVIOUS
<1>1. LateIInv /\ Today \in Nat /\ spawned = {} /\ live = <<>>
  BY LateInit DEF Init, Today, CalmNoon
<1>2. LiveInv /\ UniqueInv
  BY <1>1 DEF LiveInv, LiveOnlyFromLastSlot, UniqueInv
<1>3. Batches = Day!Nothing
  <2>1. \A t : {i \in DOMAIN live : live[i].task = t /\ live[i].date = Today} = {}
    BY <1>1
  <2> QED
    BY <2>1, FS_EmptySet DEF Batches, Day!Nothing
<1>4. Phase \in {"before", "noon", "after"}
  BY DEF Phase
<1> QED
  BY <1>1, <1>2, <1>3, <1>4 DEF DayInv, Day!Init

LEMMA UniqueSpawn ==
    CalmSlots /\ LateIInv /\ LiveInv /\ UniqueInv /\ SpawnDue => UniqueInv'
<1> SUFFICES ASSUME CalmSlots, LateIInv, LiveInv, UniqueInv, SpawnDue PROVE UniqueInv'
  OBVIOUS
<1>1. PICK t \in due_tasks :
         /\ Spawn(t)
         /\ next_time' = [next_time EXCEPT ![t] = NextTrigger(t, clock)]
  BY DEF SpawnDue
<1>2. pc = "spawn" /\ UNCHANGED <<clock, live>> /\ Today' = Today
  BY DEF SpawnDue, Today
<1>3. /\ t \in Tasks /\ clock \in Nat /\ next_time[t] \in Nat /\ next_time[t] <= clock
      /\ NextTrigger(t, clock) \in Nat /\ NextTrigger(t, clock) > clock
  BY <1>1, <1>2, LateTypes, NextTriggerLater DEF LateIInv, IInv, Types, DueInv
<1>4. /\ next_time'[t] = NextTrigger(t, clock)
      /\ \A x \in Tasks \ {t} : next_time'[x] = next_time[x]
      /\ \A x \in Tasks : next_time[x] \in Nat
  BY <1>1, <1>3 DEF LateIInv, IInv, Types
<1>5. \A x \in Tasks : next_time[x] <= next_time'[x] /\ next_time'[x] \in Nat
  BY <1>3, <1>4
<1>6. \A r \in spawned' :
         \/ r \in spawned
         \/ r.task = t /\ r.trigger = next_time[t]
            /\ r = [task |-> t, trigger |-> next_time[t], at |-> clock]
  BY <1>1 DEF Spawn
<1>7. \A r \in spawned : r.task \in Tasks /\ r.trigger \in Nat /\ r.trigger < next_time[r.task]
  BY LateTypes DEF LateIInv, SpawnedInv, UniqueInv
<1>8. \A i \in DOMAIN live :
         /\ live[i].task \in Tasks /\ live[i].trigger \in Nat
         /\ live[i].trigger < next_time[live[i].task] /\ live[i].trigger <= clock
         /\ live[i].date <= Today
  BY LiveFacts DEF UniqueInv
<1>9. \A r \in spawned' : r.trigger < next_time'[r.task]
  BY <1>3, <1>4, <1>5, <1>6, <1>7
<1>10. \A i \in DOMAIN live' :
          /\ live'[i].trigger < next_time'[live'[i].task] /\ live'[i].trigger <= clock'
          /\ live'[i].date <= Today'
  <2> SUFFICES ASSUME NEW i \in DOMAIN live
               PROVE  /\ live[i].trigger < next_time'[live[i].task]
                      /\ live[i].trigger <= clock /\ live[i].date <= Today
    BY <1>2
  <2> QED
    BY <1>4, <1>5, <1>8
<1>11. \A r, q \in spawned' : r.task = q.task /\ r.trigger = q.trigger => r = q
  <2> SUFFICES ASSUME NEW r \in spawned', NEW q \in spawned',
                      r.task = q.task, r.trigger = q.trigger
               PROVE  r = q
    OBVIOUS
  <2>1. CASE r \in spawned /\ q \in spawned
    BY <2>1 DEF UniqueInv
  <2>2. CASE ~ (r \in spawned /\ q \in spawned)
    <3>1. r.task = t /\ r.trigger = next_time[t]
      BY <1>6, <2>2
    <3>2. q.task = t /\ q.trigger = next_time[t] /\ ~ (next_time[t] < next_time[t])
      BY <1>3, <3>1
    <3>3. r \notin spawned /\ q \notin spawned
      BY <1>7, <3>1, <3>2
    <3> QED
      BY <1>6, <3>3
  <2> QED
    BY <2>1, <2>2
<1>12. \A r \in spawned', i \in DOMAIN live' :
          ~ (r.task = live'[i].task /\ r.trigger = live'[i].trigger)
  <2> SUFFICES ASSUME NEW r \in spawned', NEW i \in DOMAIN live,
                      r.task = live[i].task, r.trigger = live[i].trigger
               PROVE  FALSE
    BY <1>2
  <2>1. CASE r \in spawned
    BY <2>1 DEF UniqueInv
  <2>2. CASE r \notin spawned
    BY <1>3, <1>6, <1>8, <2>2
  <2> QED
    BY <2>1, <2>2
<1> QED
  BY <1>9, <1>10, <1>11, <1>12 DEF UniqueInv

\* Behind a restart every trigger lies ahead of the clock, and so of every live
\* run's.
LEMMA UniqueRestart ==
    CalmSlots /\ LateIInv /\ LiveInv /\ UniqueInv /\ Restart => UniqueInv'
<1> SUFFICES ASSUME CalmSlots, LateIInv, LiveInv, UniqueInv, Restart PROVE UniqueInv'
  OBVIOUS
<1>1. /\ next_time' = NextTriggers(clock) /\ spawned' = {}
      /\ UNCHANGED <<clock, live>> /\ Today' = Today
  BY DEF Restart, Today
<1>2. clock \in Nat /\ \A t \in Tasks : next_time'[t] \in Nat /\ next_time'[t] > clock
  BY <1>1, LateTypes, NextTriggersLater DEF LateIInv
<1>3. \A i \in DOMAIN live :
         /\ live[i].task \in Tasks /\ live[i].trigger \in Nat
         /\ live[i].trigger <= clock /\ live[i].date <= Today
  BY LiveFacts DEF UniqueInv
<1>4. \A i \in DOMAIN live : live[i].trigger < next_time'[live[i].task]
  BY <1>2, <1>3
<1> QED
  BY <1>1, <1>3, <1>4 DEF UniqueInv

\* Two live runs of a task on one day would both have the day's last target, so
\* the same trigger.
LEMMA FirstOfTheDay ==
    ASSUME CalmSlots, PromptThread, LateIInv, LiveInv, UniqueInv,
           NEW r \in spawned, is_last_scheduled_today(clock)
    PROVE  \A i \in DOMAIN live : ~ (live[i].task = r.task /\ live[i].date = Today)
<1> SUFFICES ASSUME NEW i \in DOMAIN live, live[i].task = r.task, live[i].date = Today
             PROVE  FALSE
  OBVIOUS
<1> DEFINE u == r.trigger
           v == live[i].trigger
<1>1. /\ r.task \in FastRunners /\ u \in Nat /\ r.at \in Nat
      /\ u <= clock /\ clock <= r.at + MaxStall /\ r.at <= u + 3 * MaxStall
      /\ TimeOfDay(Local(u)) \in Slots(r.task)
  BY DEF LateIInv, SpawnedInv
<1>2. clock \in Nat /\ clock <= u + 4 * MaxStall
  BY <1>1, LateTypes DEF LateIInv
<1>3. TimeOfDay(Local(u)) = LastSlot(r.task) /\ DateOf(Local(u)) = Today
  BY <1>1, <1>2, LateRunIsLast DEF Today
<1>4. v \in Nat
  BY LiveFacts
<1>5. TimeOfDay(Local(v)) = LastSlot(r.task) /\ DateOf(Local(v)) = Today
  BY LiveFacts
<1>6. Local(u) = Local(v)
  BY <1>1, <1>3, <1>4, <1>5, ConstantFacts, DivMod DEF Local
<1>7. Local(u) \notin ChangeHour
  BY <1>1 DEF CalmSlots, Slots
<1>8. ~ (u < v) /\ ~ (v < u)
  <2>1. Local(u) \in Int
    BY <1>1, ConstantFacts DEF Local
  <2> QED
    BY <1>1, <1>4, <1>6, <1>7, <2>1, LocalForward
<1>9. u = v
  BY <1>1, <1>4, <1>8
<1> QED
  BY <1>9 DEF UniqueInv

\* The run that starts leaves the spawned ones; live, it is the first of the day.
LEMMA UniqueStart ==
    /\ CalmSlots /\ PromptThread /\ LateIInv /\ LiveInv /\ UniqueInv /\ Today \in Nat
    /\ RunStarts
    => UniqueInv' /\ (UNCHANGED <<Today, Phase, Batches>>
                      \/ \E t \in FastRunners : Day!Trades(t))
<1> SUFFICES ASSUME CalmSlots, PromptThread, LateIInv, LiveInv, UniqueInv, Today \in Nat,
                    RunStarts
             PROVE  UniqueInv' /\ (UNCHANGED <<Today, Phase, Batches>>
                                   \/ \E t \in FastRunners : Day!Trades(t))
  OBVIOUS
<1>1. PICK r \in spawned :
         /\ spawned' = spawned \ {r}
         /\ live' = IF is_last_scheduled_today(clock)
                      THEN Append(live, [task |-> r.task, trigger |-> r.trigger,
                                         date |-> DateOf(Local(clock))])
                      ELSE live
  BY DEF RunStarts
<1>2. UNCHANGED <<clock, next_time>> /\ Today' = Today /\ Phase' = Phase
  BY DEF RunStarts, Today, Phase
<1>3. CASE ~ is_last_scheduled_today(clock)
  <2>1. live' = live
    BY <1>1, <1>3
  <2> QED
    BY <1>1, <1>2, <2>1 DEF UniqueInv, Batches
<1>4. CASE is_last_scheduled_today(clock)
  <2> DEFINE e == [task |-> r.task, trigger |-> r.trigger, date |-> Today]
             n == Len(live) + 1
  <2>1. /\ r.task \in FastRunners /\ r.trigger \in Nat /\ r.trigger <= clock
        /\ r.trigger < next_time[r.task]
    BY DEF LateIInv, SpawnedInv, UniqueInv
  <2>2. live' = Append(live, e)
    BY <1>1, <1>4 DEF Today
  <2>3. e.task = r.task /\ e.trigger = r.trigger /\ e.date = Today
    OBVIOUS
  <2>4. e \in [task : FastRunners, trigger : Nat, date : Int]
    BY <2>1
  <2> HIDE DEF e
  <2>5. live \in Seq([task : FastRunners, trigger : Nat, date : Int])
    BY DEF LiveInv
  <2>6. /\ DOMAIN live' = DOMAIN live \cup {n} /\ n \notin DOMAIN live
        /\ live'[n] = e /\ \A i \in DOMAIN live : live'[i] = live[i]
    BY <2>2, <2>4, <2>5
  <2> HIDE DEF n
  <2>7. UniqueInv'
    <3>1. \A i \in DOMAIN live' :
             /\ live'[i].trigger < next_time'[live'[i].task] /\ live'[i].trigger <= clock'
             /\ live'[i].date <= Today'
      BY <1>2, <2>1, <2>3, <2>6 DEF UniqueInv
    <3>2. \A q \in spawned', i \in DOMAIN live' :
             ~ (q.task = live'[i].task /\ q.trigger = live'[i].trigger)
      <4> SUFFICES ASSUME NEW q \in spawned', NEW i \in DOMAIN live'
                   PROVE  ~ (q.task = live'[i].task /\ q.trigger = live'[i].trigger)
        OBVIOUS
      <4>1. q \in spawned /\ q # r
        BY <1>1
      <4>2. CASE i \in DOMAIN live
        BY <2>6, <4>1, <4>2 DEF UniqueInv
      <4>3. CASE i = n
        BY <2>3, <2>6, <4>1, <4>3 DEF UniqueInv
      <4> QED
        BY <2>6, <4>2, <4>3
    <3> QED
      BY <1>1, <1>2, <3>1, <3>2 DEF UniqueInv
  <2>8. \A i \in DOMAIN live : ~ (live[i].task = r.task /\ live[i].date = Today)
    BY <1>4, FirstOfTheDay
  <2>9. Batches[r.task] = 0
    <3>1. {i \in DOMAIN live : live[i].task = r.task /\ live[i].date = Today} = {}
      BY <2>8
    <3> QED
      BY <2>1, <3>1, FS_EmptySet DEF Batches
  <2>10. Batches' = [Batches EXCEPT ![r.task] = 1]
    <3> DEFINE Of(l, t) == {i \in DOMAIN l : l[i].task = t /\ l[i].date = Today}
    <3>1. Of(live', r.task) = {n}
      BY <2>3, <2>6, <2>8
    <3>2. \A t \in FastRunners \ {r.task} : Of(live', t) = Of(live, t)
      BY <2>3, <2>6
    <3>3. /\ Batches = [t \in FastRunners |-> Cardinality(Of(live, t))]
          /\ Batches' = [t \in FastRunners |-> Cardinality(Of(live', t))]
      BY <1>2 DEF Batches
    <3> HIDE DEF Of
    <3>4. Cardinality({n}) = 1
      BY FS_Singleton
    <3> QED
      BY <2>1, <3>1, <3>2, <3>3, <3>4
  <2>11. Phase = "noon"
    BY <1>4 DEF Phase
  <2>12. Day!Trades(r.task)
    BY <1>2, <2>9, <2>10, <2>11 DEF Day!Trades
  <2> QED
    BY <2>1, <2>7, <2>12
<1> QED
  BY <1>3, <1>4

\* A tick moves the day on, and never takes it back.
LEMMA UniqueTick ==
    CalmNoon /\ DayInv /\ Tick => UniqueInv' /\ Today' \in Nat /\ [Day!Next]_Day!vars
<1> SUFFICES ASSUME CalmNoon, DayInv, Tick
             PROVE  UniqueInv' /\ Today' \in Nat /\ [Day!Next]_Day!vars
  OBVIOUS
<1>1. clock' = clock + 1 /\ UNCHANGED <<next_time, spawned, live>>
  BY DEF Tick
<1>2. Today \in Nat /\ clock \in Instants /\ clock \in Nat
  BY LateTypes DEF DayInv, LateIInv, IInv, Types
<1>3. \/ Today' = Today /\ Phase' = Phase
      \/ Today' = Today /\ Phase = "before" /\ Phase' = "noon"
      \/ Today' = Today /\ Phase = "noon" /\ Phase' = "after"
      \/ Today' = Today + 1 /\ Phase = "after" /\ Phase' = "before"
  BY <1>2, DayTick
<1>4. Today' \in Nat /\ Today <= Today'
  BY <1>2, <1>3
<1>5. \A i \in DOMAIN live :
         /\ live[i].trigger \in Nat /\ live[i].date \in Int
         /\ live[i].trigger <= clock /\ live[i].date <= Today
  BY LiveFacts DEF DayInv, UniqueInv
<1>6. UniqueInv'
  <2>1. \A i \in DOMAIN live : live[i].trigger <= clock' /\ live[i].date <= Today'
    BY <1>1, <1>2, <1>4, <1>5
  <2> QED
    BY <1>1, <2>1 DEF DayInv, UniqueInv
<1>7. Today' = Today => Batches' = Batches
  BY <1>1 DEF Batches
<1>8. Today' = Today + 1 => Batches' = Day!Nothing
  <2> SUFFICES ASSUME Today' = Today + 1 PROVE Batches' = Day!Nothing
    OBVIOUS
  <2>1. \A i \in DOMAIN live : live[i].date # Today'
    BY <1>2, <1>5
  <2>2. \A t : {i \in DOMAIN live' : live'[i].task = t /\ live'[i].date = Today'} = {}
    BY <1>1, <2>1
  <2> QED
    BY <2>2, FS_EmptySet DEF Batches, Day!Nothing
<1>9. [Day!Next]_Day!vars
  BY <1>2, <1>3, <1>7, <1>8 DEF Day!Next, Day!Moves, Day!NextDay, Day!vars
<1> QED
  BY <1>4, <1>6, <1>9

LEMMA DayStep ==
    /\ CalmSlots /\ PromptThread /\ CalmNoon /\ DayInv /\ [Next]_vars
    => DayInv' /\ [Day!Next]_Day!vars
<1> SUFFICES ASSUME CalmSlots, PromptThread, CalmNoon, DayInv, [Next]_vars
             PROVE  DayInv' /\ [Day!Next]_Day!vars
  OBVIOUS
<1>1. LateIInv' /\ LiveInv'
  BY LateStep, LiveStep DEF DayInv
<1>2. UNCHANGED <<clock, live>> => Today' = Today /\ UNCHANGED Day!vars
  BY DEF Today, Phase, Batches, Day!vars
<1>3. CASE UNCHANGED <<clock, next_time, spawned, live>>
  BY <1>1, <1>2, <1>3 DEF DayInv, UniqueInv
<1>4. CASE SpawnDue \/ Restart
  <2>1. UniqueInv'
    BY <1>4, UniqueSpawn, UniqueRestart DEF DayInv
  <2>2. UNCHANGED <<clock, live>>
    BY <1>4 DEF SpawnDue, Restart
  <2> QED
    BY <1>1, <1>2, <2>1, <2>2 DEF DayInv
<1>5. CASE RunStarts
  <2>1. UniqueInv' /\ (UNCHANGED <<Today, Phase, Batches>>
                       \/ \E t \in FastRunners : Day!Trades(t))
    BY <1>5, UniqueStart DEF DayInv
  <2>2. Today' = Today
    BY <1>5 DEF RunStarts, Today
  <2> QED
    BY <1>1, <2>1, <2>2 DEF DayInv, Day!Next, Day!vars
<1>6. CASE Tick
  BY <1>1, <1>6, UniqueTick DEF DayInv
<1>7. \/ UNCHANGED <<clock, next_time, spawned, live>>
      \/ SpawnDue \/ Restart \/ RunStarts \/ Tick
  BY DEF Next, Loop, vars, Scan, SleepUntilSoonest, Wake
<1> QED
  BY <1>3, <1>4, <1>5, <1>6, <1>7

\* Restarts and late threads included, what is spawned keeps the promise of a
\* trading day: a strategy trades at most once a day, and only around noon.
THEOREM TradingDayRefined ==
    CalmSlots /\ PromptThread /\ CalmNoon => (Spec => ImplementsTradingDay)
<1> SUFFICES ASSUME CalmSlots, PromptThread, CalmNoon PROVE Spec => ImplementsTradingDay
  OBVIOUS
<1>1. Init => DayInv /\ Day!Init
  BY DayInit
<1>2. DayInv /\ [Next]_vars => DayInv' /\ [Day!Next]_Day!vars
  BY DayStep
<1> QED
  BY <1>1, <1>2, PTL DEF Spec, ImplementsTradingDay, Day!Spec

-----------------------------------------------------------------------------
LEMMA TypeInit == CalmSlots /\ Init => TypeOK
<1> SUFFICES ASSUME CalmSlots, Init PROVE TypeOK
  OBVIOUS
<1>1. Types /\ \A t \in Tasks : next_time[t] > Start
  BY InitEstablishes DEF IInv, DueInv
<1>2. /\ next_time \in [Tasks -> Triggers] /\ Start \in Triggers
  BY <1>1, ConstantFacts DEF Types, Triggers
<1>3. 0 \in 0..MaxRestarts
  BY SchedulerAssumption
<1> QED
  BY <1>1, <1>2, <1>3 DEF TypeOK, Types, Init

LEMMA TypeStep == CalmSlots /\ IInv /\ TypeOK /\ [Next]_vars => TypeOK'
<1> SUFFICES ASSUME CalmSlots, IInv, TypeOK, [Next]_vars PROVE TypeOK'
  OBVIOUS
<1>1. Types'
  BY StepPreserves DEF IInv
<1>2. /\ clock \in Nat /\ Start <= clock /\ clock \in Instants /\ clock \in Triggers
      /\ now \in Nat /\ MaxRestarts \in Nat
  BY ConstantFacts, SchedulerAssumption DEF IInv, Types, Instants, Triggers
<1>3. CASE UNCHANGED vars
  BY <1>3 DEF vars, TypeOK
<1>4. CASE Scan \/ Wake \/ Tick
  BY <1>1, <1>4 DEF Scan, Wake, Tick, TypeOK, Types
<1>5. CASE SpawnDue
  <2>1. PICK t \in due_tasks :
           /\ Spawn(t)
           /\ next_time' = [next_time EXCEPT ![t] = NextTrigger(t, clock)]
    BY <1>5 DEF SpawnDue
  <2>2. t \in Tasks /\ UNCHANGED <<wake, live, restarts>>
    BY <1>5, <2>1 DEF IInv, Types, SpawnDue
  <2>3. NextTrigger(t, clock) \in Triggers
    BY <1>2, <2>2, NextTriggerLater, ConstantFacts DEF Triggers
  <2>4. next_time' \in [Tasks -> Triggers]
    BY <2>1, <2>3 DEF TypeOK
  <2>5. spawned' \subseteq [task : FastRunners, trigger : Triggers, at : Instants]
    BY <1>2, <2>1, <2>2 DEF Spawn, TypeOK
  <2> QED
    BY <1>1, <2>2, <2>4, <2>5 DEF TypeOK, Types
<1>6. CASE SleepUntilSoonest
  <2>1. Soonest \in Nat /\ (Soonest > now => clock + (Soonest - now) \in Triggers)
    BY <1>2, SoonestIsLeast, ConstantFacts DEF Triggers
  <2>2. wake' \in Triggers
    BY <1>6, <2>1 DEF SleepUntilSoonest, TypeOK
  <2> QED
    BY <1>1, <1>6, <2>2 DEF SleepUntilSoonest, TypeOK, Types
<1>7. CASE RunStarts
  <2>1. DateOf(Local(clock)) \in Int
    BY <1>2, ConstantFacts, DivMod DEF Local
  <2>2. live' \in Seq([task : FastRunners, trigger : Triggers, date : Int])
    <3>1. PICK r \in spawned :
             live' = IF is_last_scheduled_today(clock)
                       THEN Append(live, [task |-> r.task, trigger |-> r.trigger,
                                          date |-> DateOf(Local(clock))])
                       ELSE live
      BY <1>7 DEF RunStarts
    <3>2. [task |-> r.task, trigger |-> r.trigger, date |-> DateOf(Local(clock))]
            \in [task : FastRunners, trigger : Triggers, date : Int]
      BY <2>1, <3>1 DEF TypeOK
    <3>3. live \in Seq([task : FastRunners, trigger : Triggers, date : Int])
      BY DEF TypeOK
    <3>4. \A S, s, e : s \in Seq(S) /\ e \in S => Append(s, e) \in Seq(S)
      OBVIOUS
    <3> QED
      BY <3>1, <3>2, <3>3, <3>4, Zenon
  <2> QED
    BY <1>1, <1>7, <2>2 DEF RunStarts, TypeOK, Types
<1>8. CASE Restart
  <2>1. next_time' \in [Tasks -> Triggers]
    <3>1. next_time' = NextTriggers(clock)
      BY <1>8 DEF Restart
    <3>2. /\ next_time' \in [Tasks -> Nat]
          /\ \A t \in Tasks : next_time'[t] > clock
      BY <1>2, <3>1, NextTriggersLater
    <3>3. \A t \in Tasks : next_time'[t] \in Triggers
      BY <1>2, <3>2, ConstantFacts DEF Triggers
    <3> QED
      BY <3>2, <3>3
  <2>2. restarts' \in 0..MaxRestarts
    BY <1>2, <1>8 DEF Restart, TypeOK
  <2> QED
    BY <1>1, <1>2, <1>8, <2>1, <2>2 DEF Restart, TypeOK, Types
<1> QED
  BY <1>3, <1>4, <1>5, <1>6, <1>7, <1>8 DEF Next, Loop

\* The state keeps its types: no trigger and no sleep ends before the start.
THEOREM SchedulerTypeCorrect == CalmSlots => (Spec => []TypeOK)
<1> SUFFICES ASSUME CalmSlots PROVE Spec => []TypeOK
  OBVIOUS
<1>1. Init => TypeOK
  BY TypeInit
<1>2. IInv /\ TypeOK /\ [Next]_vars => TypeOK'
  BY TypeStep
<1> QED
  BY <1>1, <1>2, SchedulerInvariant, PTL DEF Spec
=============================================================================
