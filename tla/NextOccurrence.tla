---------------------------- MODULE NextOccurrence ----------------------------
(***************************************************************************)
(* next_occurrence (schedule_service.py): when a schedule runs next.       *)
(*                                                                         *)
(* Moments are whole minutes since a Monday 00:00 UTC.  The code's clock   *)
(* is finer, but every candidate it computes has its seconds set to zero,  *)
(* and a whole minute is later than a moment exactly when it is later than *)
(* the minute the moment lies in.  UTC has no daylight saving, and         *)
(* datetime knows no leap seconds, so days and weeks are of one length.    *)
(***************************************************************************)
EXTENDS Integers

Hour == 60
Day == 1440
Week == 10080

AnyDay == 7  \* a weekly row without a day_of_week; 0..6 are Monday to Sunday

Frequency == {"hourly", "daily", "weekly"}

\* frequency, run_at as hour and minute, day_of_week
Cadence == [frequency : Frequency, hour : 0..23, minute : 0..59, day : 0..7]

Period(c) == CASE c.frequency = "hourly" -> Hour
               [] c.frequency = "daily"  -> Day
               [] c.frequency = "weekly" -> Week

Weekday(t) == (t % Week) \div Day
TimeOfDay(c) == 60 * c.hour + c.minute

-----------------------------------------------------------------------------
(* The function.                                                           *)

\* after.replace(minute=..., second=0) and after.replace(hour=..., minute=...)
AtMinute(c, after) == after - (after % Hour) + c.minute
AtTimeOfDay(c, after) == after - (after % Day) + TimeOfDay(c)

DaysAhead(c, candidate) == IF c.day = AnyDay THEN 0 ELSE (c.day - Weekday(candidate)) % 7

Candidate(c, after) ==
  CASE c.frequency = "hourly" -> AtMinute(c, after)
    [] c.frequency = "daily"  -> AtTimeOfDay(c, after)
    [] c.frequency = "weekly" ->
         AtTimeOfDay(c, after) + Day * DaysAhead(c, AtTimeOfDay(c, after))

\* (mutants) >= for >; a period from the tick instead of from the cadence
NotStrictlyAfter(c, after) ==
  IF Candidate(c, after) >= after THEN Candidate(c, after) ELSE Candidate(c, after) + Period(c)
FromTheTick(c, after) == after + Period(c)

NextOccurrence(c, after) ==
  IF Candidate(c, after) > after THEN Candidate(c, after) ELSE Candidate(c, after) + Period(c)

-----------------------------------------------------------------------------
(* What its docstring promises: "First UTC moment strictly after `after`   *)
(* that matches the cadence"; "a row without a day repeats on the day it   *)
(* was armed".                                                             *)

Matches(c, after, t) ==
  CASE c.frequency = "hourly" -> t % Hour = c.minute
    [] c.frequency = "daily"  -> t % Day = TimeOfDay(c)
    [] c.frequency = "weekly" ->
         /\ t % Day = TimeOfDay(c)
         /\ Weekday(t) = IF c.day = AnyDay THEN Weekday(after) ELSE c.day

IsFirstAfter(c, after, t) ==
  /\ t > after
  /\ Matches(c, after, t)
  /\ \A u \in (after + 1)..(t - 1) : ~Matches(c, after, u)
=============================================================================
