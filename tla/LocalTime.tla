------------------------------ MODULE LocalTime ------------------------------
(***************************************************************************)
(* common/rqcommon/src/utils/time.rs: a UTC instant seen in US Eastern     *)
(* time, with one daylight-saving change.  Instants, local times and times *)
(* of day are integers counted in ticks; the offset changes once, by less  *)
(* than a day, so a local time has one instant, two (clocks set back) or   *)
(* none (clocks set forward).                                              *)
(***************************************************************************)
EXTENDS Integers, FiniteSets

CONSTANTS
    DayLen,           \* ticks of 24 hours
    Transition,       \* the instant of the change
    WestBefore,       \* UTC minus local time before it ...
    WestAfter         \* ... and from it on

ASSUME LocalTimeAssumption ==
    /\ DayLen \in Nat \ {0}
    /\ {Transition, WestBefore, WestAfter} \subseteq Nat

\* DateTime::<Utc>::MIN_UTC, before every instant.
MinUtc == -1

\* now.with_timezone(&tz), its date_naive() and its time().
Local(u) == u - (IF u < Transition THEN WestBefore ELSE WestAfter)
DateOf(l) == l \div DayLen
TimeOfDay(l) == l % DayLen

\* The instants whose local time is l: tz.from_local_datetime().
InstantsOf(l) == {u \in {l + WestBefore, l + WestAfter} : Local(u) = l}

EarliestOr(S, default) ==
    IF S = {} THEN default ELSE CHOOSE u \in S : \A v \in S : u <= v

\* Mutants: a target equal to the time of day is still today's; the date is
\* left out.
FutureInstantNotStrict(now, target) ==
    LET date == IF TimeOfDay(Local(now)) <= target
                  THEN DateOf(Local(now))
                  ELSE DateOf(Local(now + DayLen))
    IN  EarliestOr(InstantsOf(date * DayLen + target), MinUtc)

FutureInstantNoDate(now, target) == EarliestOr(InstantsOf(target), MinUtc)

\* localtimeonly2future_datetime_tz: today's target if the time of day is
\* still before it, else the target on the date 24 hours from now.
FutureInstant(now, target) ==
    LET date == IF TimeOfDay(Local(now)) < target
                  THEN DateOf(Local(now))
                  ELSE DateOf(Local(now + DayLen))
    IN  EarliestOr(InstantsOf(date * DayLen + target), MinUtc)
=============================================================================
