\* 28 years: every combination of weekday and leap year that 1901-2099 has.
SPECIFICATION Spec
CONSTANTS
    FirstYear = 2024
    LastYear = 2051
INVARIANTS
    ApRunsOnFirstWeekdayOfHalf
    MoneyFollowsRunDays
\* The walk ends with LastYear.
CHECK_DEADLOCK FALSE
