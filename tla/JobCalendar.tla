---------------------------- MODULE JobCalendar ----------------------------
(* JobSchedulerService.compute_next_run: when a daily, weekly or monthly       *)
(* schedule runs next after a moment.  A moment is a whole hour of a day:      *)
(* the times computed are on the hour, so the minutes of "after" decide        *)
(* nothing (candidate <= 9:40 exactly if candidate <= 9:00).                   *)
EXTENDS Calendar

CONSTANTS None, ValueError

At(day, hour) == 24 * day + hour

DayOf(moment) == moment \div 24

Accepted(s) ==
    /\ s.run_hour \in 0..23
    /\ \/ s.frequency = "daily"
       \/ s.frequency = "weekly" /\ s.run_day # None /\ s.run_day \in 0..6
       \/ s.frequency = "monthly" /\ s.run_day # None /\ s.run_day >= 1

\* The candidate of the period that has begun, or the one a period later.
Roll(candidate, moment, days) ==
    IF candidate <= moment THEN candidate + 24 * days ELSE candidate

\* MUTANT: the day is not cut to the length of the month, and falls in the next one.
InMonth_Unclamped(s, m) == At(FirstDay[m] + s.run_day - 1, s.run_hour)

InMonth(s, m) == At(Clamped(m, s.run_day), s.run_hour)

\* The loop: month after month, until the candidate is later.
Monthly(s, moment) ==
    LET ms == {m \in Months : m >= MonthOf(DayOf(moment)) /\ InMonth(s, m) > moment}
    IN  InMonth(s, CHOOSE m \in ms : \A k \in ms : m <= k)

compute_next_run(s, moment) ==
    LET today == DayOf(moment)
    IN  CASE ~Accepted(s) -> ValueError
          [] s.frequency = "daily" -> Roll(At(today, s.run_hour), moment, 1)
          [] s.frequency = "weekly" ->
                 Roll(At(today + ((s.run_day - weekday(today)) % 7), s.run_hour), moment, 7)
          [] s.frequency = "monthly" -> Monthly(s, moment)

\* The moments a schedule stands for, by the calendar alone: a month without the
\* day asked for runs on its last day.
Matches(s, day) ==
    \/ s.frequency = "daily"
    \/ s.frequency = "weekly" /\ weekday(day) = s.run_day
    \/ /\ s.frequency = "monthly"
       /\ \/ DayOfMonth(day) = s.run_day
          \/ DayOfMonth(day) < s.run_day /\ day + 1 = FirstDay[MonthOf(day) + 1]
=============================================================================
