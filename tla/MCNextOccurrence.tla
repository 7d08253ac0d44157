--------------------------- MODULE MCNextOccurrence ---------------------------
(***************************************************************************)
(* Runs of NextOccurrence for TLC: a schedule is armed at some moment of a *)
(* week, its tick comes up to Late minutes after the moment it was armed   *)
(* for, and re-arms it from there.                                         *)
(***************************************************************************)
EXTENDS NextOccurrence

CONSTANTS
  Hours, Minutes,  \* the run_at times tried, all of their combinations
  Starts,          \* the moments a schedule is created at
  Late,            \* how late a tick may be
  Horizon          \* bound on the moments looked at

\* run_at is a time of the day; no schedule is created before the moment zero, and
\* no tick comes before the moment it is armed for.
ASSUME TimesAssumption ==
  Hours \subseteq 0..23 /\ Minutes \subseteq 0..59 /\ Starts \subseteq Nat /\ Late \subseteq Nat

VARIABLES cadence, moment, armed

vars == <<cadence, moment, armed>>

Cadences == {c \in [frequency : Frequency, hour : Hours, minute : Minutes, day : 0..7] :
               c.frequency # "weekly" => c.day = AnyDay}

Init ==
  /\ cadence \in Cadences
  /\ moment \in Starts
  /\ armed = NextOccurrence(cadence, moment)

Rearm ==
  /\ \E late \in Late : moment' = armed + late
  /\ moment' <= Horizon
  /\ armed' = NextOccurrence(cadence, moment')
  /\ UNCHANGED cadence

Spec == Init /\ [][Rearm]_vars

\* "First UTC moment strictly after `after` that matches the cadence": the next run
\* is after the moment, fits the cadence, and nothing between them does.
ArmedIsFirst == IsFirstAfter(cadence, moment, armed)

\* A schedule does not drift: however late its tick, if it is not a whole period
\* late the next run is one period after the last.  (A weekly row without a day
\* does drift, to the weekday of the tick.)
NeverDrifts ==
  [][(cadence.frequency = "weekly" => cadence.day # AnyDay) /\ moment' - armed < Period(cadence)
       => armed' = armed + Period(cadence)]_vars
=============================================================================
