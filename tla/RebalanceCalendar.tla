------------------------- MODULE RebalanceCalendar -------------------------
(***************************************************************************)
(* FastRunner::pqp_ap_calculate_dates_and_pv() (robotrader/fast_runner.rs):*)
(* which strategies rebalance today, which date they seek in the published *)
(* JSON, and how the portfolio value is split between them.  A FastRunner  *)
(* computes it once, from the UTC date, when its run starts; here it is    *)
(* looked at on each day of a walk through the calendar.                   *)
(*                                                                         *)
(* A date is [year, month, day, weekday], weekday counted from Monday = 0. *)
(* The walk itself is chrono's calendar.  Bank holidays are not handled by *)
(* the code ("TODO: implement holiday checking").                          *)
(***************************************************************************)
EXTENDS Integers

CONSTANTS
    FirstYear,            \* a year whose 1 January is a Monday
    LastYear              \* end of the walk (bound)

ASSUME YearAssumption == FirstYear \in Nat /\ LastYear \in Nat /\ FirstYear <= LastYear

VARIABLES
    today,
    weekday_seen    \* history: a weekday has come in this half of the month

vars == <<today, weekday_seen>>

IsLeap(y) == (y % 4 = 0 /\ y % 100 # 0) \/ y % 400 = 0

DaysInMonth(y, m) ==
    CASE m \in {4, 6, 9, 11} -> 30
      [] m = 2 -> IF IsLeap(y) THEN 29 ELSE 28
      [] OTHER -> 31

Tomorrow(d) ==
    LET weekday == (d.weekday + 1) % 7 IN
    IF d.day < DaysInMonth(d.year, d.month)
      THEN [d EXCEPT !.day = @ + 1, !.weekday = weekday]
    ELSE IF d.month < 12
      THEN [d EXCEPT !.month = @ + 1, !.day = 1, !.weekday = weekday]
    ELSE [year |-> d.year + 1, month |-> 1, day |-> 1, weekday |-> weekday]

Saturday == 5
Sunday == 6

-----------------------------------------------------------------------------
\* The Monday of the week: the PQP rebalance date is today if it is Monday.
pqp_is_run_today(d) == d.weekday = 0

\* ap_virtual_rebalance_date: the last 1st or 15th.
\* Mutant: > 15.
VirtualDayAfter15(d) == IF d.day > 15 THEN 15 ELSE 1
ap_virtual_day(d) == IF d.day >= 15 THEN 15 ELSE 1

\* The weekday of another day of the same month.
WeekdayOf(d, day) == (d.weekday + (day - d.day) + 7 * 5) % 7

\* ap_real_rebalance_date: the Monday behind it if it falls on a weekend.
ap_real_day(d) ==
    LET day == ap_virtual_day(d)
        weekday == WeekdayOf(d, day)
    IN  CASE weekday = Saturday -> day + 2
          [] weekday = Sunday -> day + 1
          [] OTHER -> day

ap_is_run_today(d) == d.day = ap_real_day(d)

\* The portfolio values in dollars: [pqp_buy, pqp_sell, ap_buy].
\* Mutant: the shared day is tested last.
FirstStrategyTakesAll(d) ==
    CASE pqp_is_run_today(d) -> [pqp_buy |-> 140000, pqp_sell |-> 60000, ap_buy |-> 0]
      [] ~ pqp_is_run_today(d) /\ ap_is_run_today(d)
           -> [pqp_buy |-> 0, pqp_sell |-> 0, ap_buy |-> 200000]
      [] OTHER -> [pqp_buy |-> 0, pqp_sell |-> 0, ap_buy |-> 0]

portfolio_values(d) ==
    CASE pqp_is_run_today(d) /\ ap_is_run_today(d)
           -> [pqp_buy |-> 70000, pqp_sell |-> 60000, ap_buy |-> 70000]
      [] pqp_is_run_today(d) /\ ~ ap_is_run_today(d)
           -> [pqp_buy |-> 140000, pqp_sell |-> 60000, ap_buy |-> 0]
      [] ~ pqp_is_run_today(d) /\ ap_is_run_today(d)
           -> [pqp_buy |-> 0, pqp_sell |-> 0, ap_buy |-> 200000]
      [] OTHER -> [pqp_buy |-> 0, pqp_sell |-> 0, ap_buy |-> 0]

-----------------------------------------------------------------------------
Weekday(d) == d.weekday \notin {Saturday, Sunday}

Init ==
    /\ today = [year |-> FirstYear, month |-> 1, day |-> 1, weekday |-> 0]
    /\ weekday_seen = FALSE

NextDay ==
    /\ Tomorrow(today).year <= LastYear
    /\ today' = Tomorrow(today)
    /\ weekday_seen' = (today'.day \notin {1, 15} /\ (weekday_seen \/ Weekday(today)))

Next == NextDay

Spec == Init /\ [][Next]_vars

-----------------------------------------------------------------------------
\* "The 1st or 15th of month ... or the first weekday after it if it falls on
\* a weekend": AP runs on the first weekday of each half of a month and on no
\* other day, so twice a month and never on a weekend.
ApRunsOnFirstWeekdayOfHalf ==
    ap_is_run_today(today) <=> Weekday(today) /\ ~ weekday_seen

\* A strategy gets money exactly on the days it runs, and the two together
\* always put in the same 200 thousand dollars, bought and sold short.
MoneyFollowsRunDays ==
    LET pv == portfolio_values(today) IN
    /\ pv.pqp_buy > 0 <=> pqp_is_run_today(today)
    /\ pv.pqp_sell > 0 <=> pqp_is_run_today(today)
    /\ pv.ap_buy > 0 <=> ap_is_run_today(today)
    /\ pqp_is_run_today(today) \/ ap_is_run_today(today)
         => pv.pqp_buy + pv.pqp_sell + pv.ap_buy = 200000
=============================================================================
