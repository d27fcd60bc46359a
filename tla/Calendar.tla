------------------------------ MODULE Calendar ------------------------------
(* The calendar of Python's date: months are counted from January of           *)
(* FirstYear, days from its first of January.                                  *)
EXTENDS Integers, Sequences, SequencesExt

CONSTANTS
    FirstYear,      \* a year that began on a Monday
    Years           \* how many years the calendar covers (bound)

IsLeap(year) == year % 4 = 0 /\ (year % 100 # 0 \/ year % 400 = 0)

monthrange(m) ==
    CASE m % 12 = 1 -> IF IsLeap(FirstYear + (m \div 12)) THEN 29 ELSE 28
      [] m % 12 \in {3, 5, 8, 10} -> 30
      [] OTHER -> 31

Months == 0..(12 * Years - 1)

\* The day on which each month begins, and the day after the last month.
FirstDay ==
    LET first[m \in 0..(12 * Years)] == IF m = 0 THEN 0 ELSE first[m - 1] + monthrange(m - 1)
    IN  [m \in 0..(12 * Years) |-> first[m]]

MonthOf(day) == CHOOSE m \in Months : FirstDay[m] <= day /\ day < FirstDay[m + 1]

DayOfMonth(day) == day - FirstDay[MonthOf(day)] + 1

weekday(day) == day % 7

\* date(year, month, day) with the day cut to the length of the month.
Clamped(m, day) == FirstDay[m] + (IF day <= monthrange(m) THEN day ELSE monthrange(m)) - 1

LastDay(m) == FirstDay[m + 1] - 1
=============================================================================
