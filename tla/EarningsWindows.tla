--------------------------- MODULE EarningsWindows ---------------------------
(***************************************************************************)
(* The time windows of PaymentTransactionService.getEarningsOverview, as   *)
(* an algorithm on a calendar of days, each with a midnight and one later  *)
(* moment.  getStartOfWeek moves the Date it is given: after the first     *)
(* call of it, "now" is the Sunday of the week, at the time of day.        *)
(***************************************************************************)
EXTENDS Integers, Sequences, FiniteSets

CONSTANTS
    MonthStart,     \* the day each month begins with, and the day after the last month
    January         \* the month with which a year begins

Months == 1..(Len(MonthStart) - 1)

\* The calendar begins with a Sunday, which is its day 0.
ASSUME CalendarConstants ==
    /\ MonthStart \in Seq(Nat) /\ Len(MonthStart) > 3 /\ MonthStart[1] = 0
    /\ \A m \in Months : MonthStart[m + 1] - MonthStart[m] \in 28..31
    /\ January \in Months

VARIABLE today      \* the moment of the request, once it is one of Moments

Moment(day, time) == 2 * day + time
DayOf(t) == t \div 2
MonthOf(t) == CHOOSE m \in Months : MonthStart[m] <= DayOf(t) /\ DayOf(t) < MonthStart[m + 1]
FirstOf(m) == Moment(MonthStart[m], 0)

\* Requests of the third month of the calendar and later: those before belong to the windows.
Moments == FirstOf(3)..(FirstOf(Len(MonthStart)) - 1)

-----------------------------------------------------------------------------
GetStartOfWeek(t) == Moment(DayOf(t) - (DayOf(t) % 7), t % 2)

\* Mutant: getStartOfWeek works on a copy of the date.
MutCopies(t) == t

\* "now" once weekStart has been computed; todayStart is computed before.
MovedNow(t) == GetStartOfWeek(t)

TodayStart(t) == Moment(DayOf(t), 0)
WeekStart(t) == GetStartOfWeek(t)
LastWeekStart(t) == GetStartOfWeek(MovedNow(t) - 14)
ThisMonthStart(t) == FirstOf(MonthOf(MovedNow(t)))
LastMonthStart(t) == FirstOf(MonthOf(MovedNow(t)) - 1)

\* Mutant: the weeks share a moment.
MutLastWeekEnd(t) == LastWeekStart(t) + 14

\* A millisecond before a week is over.
LastWeekEnd(t) == LastWeekStart(t) + 14 - 1

\* Day 0 of a month is the last day of the one before, at midnight.
LastMonthEnd(t) == FirstOf(MonthOf(MovedNow(t))) - 2

YearStart(t) == IF MonthOf(MovedNow(t)) >= January THEN FirstOf(January) ELSE 0

\* The quarter is passed to Date as the year, which makes it one of 1900 to 1909.
QuarterStart(t) == 0

-----------------------------------------------------------------------------
\* A payment is the moment it was created at and its status, whenever it got that; all are of
\* one amount.
ModelAggregate(payments, status, window) ==
    Cardinality({p \in payments : p.status = status /\ p.createdAt \in window})

\* per cent
Growth(now, before) == IF before > 0 THEN ((now - before) * 100) \div before ELSE 0

\* What is asked and answered at t, when no payment is younger.
GetEarningsOverview(payments, t) ==
    LET Completed(window) == ModelAggregate(payments, "completed", window)
        week == Completed(WeekStart(t)..t)
        lastWeek == Completed(LastWeekStart(t)..LastWeekEnd(t))
        month == Completed(ThisMonthStart(t)..t)
        lastMonth == Completed(LastMonthStart(t)..LastMonthEnd(t))
    IN  [totalEarnings |-> Completed(0..t), todayEarnings |-> Completed(TodayStart(t)..t),
         thisWeekEarnings |-> week, weeklyGrowth |-> Growth(week, lastWeek),
         lastWeekEarnings |-> lastWeek, thisMonthEarnings |-> month,
         monthlyGrowth |-> Growth(month, lastMonth), lastMonthEarnings |-> lastMonth,
         thisQuarterEarnings |-> Completed(QuarterStart(t)..t),
         thisYearEarnings |-> Completed(YearStart(t)..t),
         pendingPayments |-> ModelAggregate(payments, "pending", 0..t),
         processingPayments |-> ModelAggregate(payments, "processing", 0..t)]

-----------------------------------------------------------------------------
EarningsInit == today = FirstOf(3) - 1

TimePasses == today' \in {today + 1, today + 2} /\ today' \in Moments

EarningsSpec == EarningsInit /\ [][TimePasses]_today

-----------------------------------------------------------------------------
\* What the code makes of "this month" and "last month": they are the month of the day and the
\* one before while the Sunday of the week is in the same month. In the first week of a month
\* that does not begin with a Sunday, "this month" begins a month early, and "last month" is
\* the month before last.
MonthOfTheSunday == today \in Moments =>
    LET m == MonthOf(today)
        k == IF DayOf(today) - (DayOf(today) % 7) < MonthStart[m] THEN m - 1 ELSE m
    IN  /\ ThisMonthStart(today) = FirstOf(k) /\ LastMonthStart(today) = FirstOf(k - 1)
        /\ LastMonthEnd(today) < ThisMonthStart(today)
        /\ LastWeekStart(today) = WeekStart(today) - 14
        /\ QuarterStart(today) <= YearStart(today) /\ YearStart(today) <= ThisMonthStart(today)
        /\ TodayStart(today) < WeekStart(today) <=> (today % 14) = 1

\* getEarningsOverview: a completed payment is counted once in the fortnight that begins with
\* the Sunday before last, at the time of day of the request, and once in the two months of
\* MonthOfTheSunday, except one made after midnight on the last day of the earlier: that one
\* is in neither. A payment that is not completed is in no sum of earnings.
EachPaymentOnce == today \in Moments =>
    \A at \in 0..today :
        LET Of(status) == GetEarningsOverview({[createdAt |-> at, status |-> status]}, today)
            o == Of("completed")
            gap == LastMonthEnd(today) < at /\ at < ThisMonthStart(today)
        IN  /\ o.thisWeekEarnings + o.lastWeekEarnings = (IF at >= WeekStart(today) - 14 THEN 1 ELSE 0)
            /\ o.thisMonthEarnings + o.lastMonthEarnings
                   = (IF at >= LastMonthStart(today) /\ ~gap THEN 1 ELSE 0)
            /\ gap => at = ThisMonthStart(today) - 1
            /\ o.totalEarnings = 1 /\ o.thisQuarterEarnings = 1
            /\ \A status \in {"pending", "processing"} :
                   LET open == Of(status)
                   IN  /\ open.totalEarnings = 0 /\ open.thisYearEarnings = 0
                       /\ open.pendingPayments + open.processingPayments = 1
=============================================================================
