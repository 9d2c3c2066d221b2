---------------------- MODULE RebalanceCalendarProofs ----------------------
(***************************************************************************)
(* Theorems about RebalanceCalendar: for a walk of any number of years.    *)
(***************************************************************************)
EXTENDS RebalanceCalendar, TLAPS

Dates == [year : Nat, month : 1..12, day : 1..31, weekday : 0..6]

\* Days since the half of the month began.
InHalf == today.day - ap_virtual_day(today)

\* By the weekday w on which a half began: where the walk stands in the week,
\* and since when a weekday has come.
HalfBeganOn(w) ==
    /\ today.weekday = (w + InHalf) % 7
    /\ weekday_seen <=> InHalf >= (IF w < Saturday THEN 1 ELSE 8 - w)

IInv ==
    /\ today \in Dates /\ weekday_seen \in BOOLEAN
    /\ \E w \in 0..6 : HalfBeganOn(w)

-----------------------------------------------------------------------------
LEMMA MonthLengths ==
    ASSUME NEW y \in Nat, NEW m \in 1..12
    PROVE  DaysInMonth(y, m) \in 28..31
<1>1. CASE m \in {4, 6, 9, 11}
  BY <1>1 DEF DaysInMonth
<1>2. CASE m = 2
  BY <1>2 DEF DaysInMonth
<1>3. CASE m \notin {2, 4, 6, 9, 11}
  BY <1>3 DEF DaysInMonth
<1> QED
  BY <1>1, <1>2, <1>3

\* Tomorrow is the next day of the month or the first of one.
LEMMA NextDate ==
    ASSUME NEW d \in Dates
    PROVE  /\ Tomorrow(d) \in Dates
           /\ Tomorrow(d).weekday = (d.weekday + 1) % 7
           /\ Tomorrow(d).day = d.day + 1 \/ (Tomorrow(d).day = 1 /\ d.day >= 28)
<1>1. /\ d.year \in Nat /\ d.month \in 1..12 /\ d.day \in 1..31 /\ d.weekday \in 0..6
      /\ d = [year |-> d.year, month |-> d.month, day |-> d.day, weekday |-> d.weekday]
  BY DEF Dates
<1>2. DaysInMonth(d.year, d.month) \in 28..31
  BY <1>1, MonthLengths
<1>3. (d.weekday + 1) % 7 \in 0..6
  BY <1>1
<1>4. CASE d.day < DaysInMonth(d.year, d.month)
  <2>1. Tomorrow(d) = [d EXCEPT !.day = d.day + 1, !.weekday = (d.weekday + 1) % 7]
    BY <1>4 DEF Tomorrow
  <2>2. Tomorrow(d) = [year |-> d.year, month |-> d.month, day |-> d.day + 1,
                       weekday |-> (d.weekday + 1) % 7]
    BY <1>1, <2>1
  <2> QED
    BY <1>1, <1>2, <1>3, <1>4, <2>2 DEF Dates
<1>5. CASE ~ (d.day < DaysInMonth(d.year, d.month)) /\ d.month < 12
  <2>1. Tomorrow(d) = [d EXCEPT !.month = d.month + 1, !.day = 1,
                                !.weekday = (d.weekday + 1) % 7]
    BY <1>5 DEF Tomorrow
  <2>2. Tomorrow(d) = [year |-> d.year, month |-> d.month + 1, day |-> 1,
                       weekday |-> (d.weekday + 1) % 7]
    BY <1>1, <2>1
  <2> QED
    BY <1>1, <1>2, <1>3, <1>5, <2>2 DEF Dates
<1>6. CASE ~ (d.day < DaysInMonth(d.year, d.month)) /\ ~ (d.month < 12)
  <2>1. Tomorrow(d) = [year |-> d.year + 1, month |-> 1, day |-> 1,
                       weekday |-> (d.weekday + 1) % 7]
    BY <1>6 DEF Tomorrow
  <2> QED
    BY <1>1, <1>2, <1>3, <1>6, <2>1 DEF Dates
<1> QED
  BY <1>4, <1>5, <1>6

\* A half of a month is the 1st to the 14th, or the 15th to the end.
LEMMA HalfRange ==
    ASSUME today \in Dates
    PROVE  /\ today.day \in 1..31 /\ today.weekday \in 0..6
           /\ ap_virtual_day(today) \in {1, 15} /\ InHalf \in 0..16
  BY DEF Dates, ap_virtual_day, InHalf

\* The week: a weekday has come by the next day of a half when it has come
\* before or today is one.
LEMMA WeekdayComes ==
    ASSUME NEW w \in 0..6, NEW k \in 0..16
    PROVE  k + 1 >= (IF w < 5 THEN 1 ELSE 8 - w) <=>
             \/ k >= (IF w < 5 THEN 1 ELSE 8 - w)
             \/ (w + k) % 7 < 5
<1>1. CASE w < 5
  BY <1>1
<1>2. CASE w = 5
  BY <1>2
<1>3. CASE w = 6
  BY <1>3
<1> QED
  BY <1>1, <1>2, <1>3

LEMMA StartsOK == Init => IInv
<1> SUFFICES ASSUME Init PROVE IInv
  OBVIOUS
<1>1. today = [year |-> FirstYear, month |-> 1, day |-> 1, weekday |-> 0]
  BY DEF Init
<1>2. /\ today \in Dates /\ weekday_seen = FALSE
      /\ InHalf = 0 /\ today.weekday = 0
  BY <1>1, YearAssumption DEF Init, Dates, InHalf, ap_virtual_day
<1>3. HalfBeganOn(0)
  BY <1>2 DEF HalfBeganOn, Saturday
<1>4. 0 \in 0..6
  OBVIOUS
<1> QED
  BY <1>2, <1>3, <1>4 DEF IInv

\* A day further in the same half, or the first day of one.
LEMMA DayPreserves == IInv /\ NextDay => IInv'
<1> SUFFICES ASSUME IInv, NextDay PROVE IInv'
  OBVIOUS
<1>1. /\ today' \in Dates /\ today'.weekday = (today.weekday + 1) % 7
      /\ today'.day = today.day + 1 \/ (today'.day = 1 /\ today.day >= 28)
  BY NextDate DEF IInv, NextDay
<1>2. /\ today.day \in 1..31 /\ today.weekday \in 0..6
      /\ ap_virtual_day(today) \in {1, 15} /\ InHalf \in 0..16
  BY HalfRange DEF IInv
<1>3. today'.day \in 1..31 /\ today'.weekday \in 0..6
  BY <1>1 DEF Dates
<1>4. weekday_seen' = (today'.day \notin {1, 15} /\ (weekday_seen \/ Weekday(today)))
  BY DEF NextDay
<1>5. PICK w \in 0..6 : HalfBeganOn(w)
  BY DEF IInv
<1>6. CASE today'.day \in {1, 15}
  <2>1. PICK v \in 0..6 : today'.weekday = v
    BY <1>3
  <2>2. InHalf' = 0
    BY <1>6 DEF InHalf, ap_virtual_day
  <2>3. weekday_seen' = FALSE
    BY <1>4, <1>6
  <2>4. (v + 0) % 7 = v /\ ~ (0 >= (IF v < 5 THEN 1 ELSE 8 - v))
    BY <2>1
  <2>5. HalfBeganOn(v)'
    BY <2>1, <2>2, <2>3, <2>4 DEF HalfBeganOn, Saturday
  <2> QED
    BY <1>1, <2>1, <2>3, <2>5 DEF IInv
<1>7. CASE today'.day \notin {1, 15}
  <2>1. InHalf' = InHalf + 1
    BY <1>1, <1>2, <1>3, <1>7 DEF InHalf, ap_virtual_day
  <2>2. today.weekday = (w + InHalf) % 7
    BY <1>5 DEF HalfBeganOn
  <2>3. today'.weekday = (w + InHalf') % 7
    BY <1>1, <1>2, <2>1, <2>2
  <2>4. weekday_seen' <=> weekday_seen \/ today.weekday < 5
    <3>1. Weekday(today) <=> today.weekday < 5
      BY <1>2 DEF Weekday, Saturday, Sunday
    <3> QED
      BY <1>4, <1>7, <3>1
  <2>5. weekday_seen <=> InHalf >= (IF w < 5 THEN 1 ELSE 8 - w)
    BY <1>5 DEF HalfBeganOn, Saturday
  <2>6. weekday_seen' <=> InHalf' >= (IF w < 5 THEN 1 ELSE 8 - w)
    BY <1>2, <2>1, <2>2, <2>4, <2>5, WeekdayComes
  <2>7. HalfBeganOn(w)'
    BY <2>3, <2>6 DEF HalfBeganOn, Saturday
  <2>8. weekday_seen' \in BOOLEAN
    BY <1>4
  <2> QED
    BY <1>1, <2>7, <2>8 DEF IInv
<1> QED
  BY <1>6, <1>7

-----------------------------------------------------------------------------
\* The inductive invariant of the walk.
THEOREM CalendarInvariant == Spec => []IInv
<1>1. IInv /\ UNCHANGED vars => IInv'
  BY DEF vars, IInv, HalfBeganOn, InHalf
<1> QED
  BY StartsOK, DayPreserves, <1>1, PTL DEF Spec, Next

\* AP runs on the first weekday of each half of every month of every year.
THEOREM ApRunsTwiceAMonth == Spec => []ApRunsOnFirstWeekdayOfHalf
<1>1. IInv => ApRunsOnFirstWeekdayOfHalf
  <2> SUFFICES ASSUME IInv PROVE ApRunsOnFirstWeekdayOfHalf
    OBVIOUS
  <2>1. /\ today.day \in 1..31 /\ today.weekday \in 0..6
        /\ ap_virtual_day(today) \in {1, 15} /\ InHalf \in 0..16
    BY HalfRange DEF IInv
  <2>2. PICK w \in 0..6 : HalfBeganOn(w)
    BY DEF IInv
  <2>3. WeekdayOf(today, ap_virtual_day(today)) = (today.weekday - InHalf + 35) % 7
    BY <2>1 DEF WeekdayOf, InHalf
  <2>4. WeekdayOf(today, ap_virtual_day(today)) = w
    BY <2>1, <2>2, <2>3 DEF HalfBeganOn
  <2>5. ap_is_run_today(today) <=>
          InHalf = (IF w = Saturday THEN 2 ELSE IF w = Sunday THEN 1 ELSE 0)
    BY <2>1, <2>4 DEF ap_is_run_today, ap_real_day, InHalf, Saturday, Sunday
  <2>6. Weekday(today) <=> (w + InHalf) % 7 < 5
    BY <2>1, <2>2 DEF Weekday, HalfBeganOn, Saturday, Sunday
  <2> QED
    BY <2>1, <2>2, <2>5, <2>6
    DEF ApRunsOnFirstWeekdayOfHalf, HalfBeganOn, Saturday, Sunday
<1> QED
  BY <1>1, CalendarInvariant, PTL

\* On every date of the calendar the money follows the run days.
THEOREM MoneyOnRunDays == Spec => []MoneyFollowsRunDays
<1>1. MoneyFollowsRunDays
  BY DEF MoneyFollowsRunDays, portfolio_values
<1> QED
  BY <1>1, PTL
=============================================================================
