------------------------------- MODULE Window -------------------------------
(***************************************************************************)
(* The date logic of the scheduled jobs (scheduling/window.py) over a        *)
(* calendar of consecutive months.  A day is its number in the calendar, a   *)
(* period is the index of its month; years are left out, as a year's end is  *)
(* a month's end to every function here.                                     *)
(***************************************************************************)
EXTENDS Integers, Sequences

CONSTANTS
    Months,     \* how many months the calendar has
    LastDay     \* per month its last day; LastDay[0] is the day before the first

Month == 1..Months

\* The years are Gregorian, so months have 28 to 31 days.
ASSUME CalendarAssumption ==
    /\ Months \in Nat /\ LastDay \in [0..Months -> Nat]
    /\ \A m \in Month : LastDay[m] - LastDay[m - 1] \in 28..31
    /\ \A k, m \in 0..Months : k < m => LastDay[k] < LastDay[m]
    /\ \A n \in (LastDay[0] + 1)..LastDay[Months] :
          \E m \in Month : LastDay[m - 1] < n /\ n <= LastDay[m]

LookAhead == 15    \* ROUTINE_SYNC_LOOKAHEAD_DAYS
TailDays == 7      \* ROUTINE_SYNC_TAIL_DAYS

Day == (LastDay[0] + 1)..LastDay[Months]

\* today.replace(day=1).
PeriodOf(today) == CHOOSE m \in Month : LastDay[m - 1] < today /\ today <= LastDay[m]

DayOfMonth(today) == today - LastDay[PeriodOf(today) - 1]

\* month_end, previous_month_end, next_month_start: as the periods they fall in.
MonthEnd(today) == LastDay[PeriodOf(today)]
PreviousMonthEnd(today) == LastDay[PeriodOf(today) - 1]

\* Mutant of NextPeriod: the month today is in.
NextPeriodStuck(today) == PeriodOf(today)

NextPeriod(today) == PeriodOf(today) + 1

\* is_pre_close_window_active, is_post_close_tail_active.
PreCloseWindowActive(today) == MonthEnd(today) - today <= LookAhead

\* Mutant of PostCloseTailActive: the seventh day is outside.
PostCloseTailShort(today) == today - PreviousMonthEnd(today) < TailDays

PostCloseTailActive(today) == today - PreviousMonthEnd(today) <= TailDays

RoutineSyncActive(today) == PreCloseWindowActive(today) \/ PostCloseTailActive(today)

\* Mutant of PeriodsToSync: the tail is taken for next month's.
PeriodsToSyncAhead(today) ==
    IF ~RoutineSyncActive(today) THEN <<>>
    ELSE IF PostCloseTailActive(today) THEN <<PeriodOf(today), PeriodOf(today) + 1>>
    ELSE <<PeriodOf(today)>>

\* periods_to_sync: the current month, then in its tail the month before.  The
\* first month of the calendar has none before it.
PeriodsToSync(today) ==
    IF ~RoutineSyncActive(today) THEN <<>>
    ELSE IF PostCloseTailActive(today) /\ PeriodOf(today) > 1
    THEN <<PeriodOf(today), PeriodOf(today) - 1>>
    ELSE <<PeriodOf(today)>>

\* closed_period_for.
ClosedPeriodFor(today) == PeriodOf(today) - 1

=============================================================================
