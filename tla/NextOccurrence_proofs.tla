------------------------- MODULE NextOccurrence_proofs -------------------------
(***************************************************************************)
(* next_occurrence keeps its docstring's promise for every cadence and     *)
(* every moment.  The three frequencies share one argument: what matches   *)
(* is one residue m modulo the period N (an hour, a day, a week), the      *)
(* candidate has that residue and lies within a period of the moment, so   *)
(* it, or the moment one period later, is the first match.                 *)
(***************************************************************************)
EXTENDS MCNextOccurrence, TLAPS

\* Division with remainder.
LEMMA Division ==
  ASSUME NEW N \in Nat \ {0}, NEW t \in Int
  PROVE  t % N \in 0..(N - 1) /\ t \div N \in Int /\ t = N * (t \div N) + (t % N)
OBVIOUS

\* What is left over is the residue.
LEMMA Residue ==
  ASSUME NEW N \in Nat \ {0}, NEW k \in Int, NEW m \in 0..(N - 1)
  PROVE  (N * k + m) % N = m
OBVIOUS

\* No multiple of N lies strictly between 0 and N.
LEMMA NoMultiple ==
  ASSUME NEW N \in Nat \ {0}, NEW k \in Int, N * k \in 1..(N - 1)
  PROVE  FALSE
OBVIOUS

\* Whole periods add up.
LEMMA Distribute ==
  ASSUME NEW N \in Nat \ {0}, NEW a \in Int, NEW b \in Int
  PROVE  N * a - N * b = N * (a - b) /\ N * a + N = N * (a + 1)
OBVIOUS

\* n is the first moment after `after` with residue m modulo N.
Fits(N, m, after, n) ==
  n \in Int /\ n > after /\ n % N = m /\ \A u \in (after + 1)..(n - 1) : u % N # m

\* A candidate with residue m that is less than a period away from the moment is
\* the first moment after it with that residue, or exactly one period before it.
LEMMA FirstFit ==
  ASSUME NEW N \in Nat \ {0}, NEW m \in Int, m >= 0, m < N, NEW after \in Int, NEW candidate \in Int,
         candidate % N = m, candidate > after - N, candidate <= after + N
  PROVE  Fits(N, m, after, IF candidate > after THEN candidate ELSE candidate + N)
<1> DEFINE n == IF candidate > after THEN candidate ELSE candidate + N
           q == IF candidate > after THEN candidate \div N ELSE (candidate \div N) + 1
<1>1. candidate = N * (candidate \div N) + m /\ candidate \div N \in Int
  BY Division
<1>2. n \in Int /\ n > after /\ n <= after + N
  OBVIOUS
<1>3. q \in Int /\ n = N * q + m
  BY <1>1, Distribute
<1> HIDE DEF q, n
<1>4. n % N = m
  BY <1>3, Residue
<1>5. ASSUME NEW u \in (after + 1)..(n - 1), u % N = m PROVE FALSE
  <2>1. u \in Int /\ u = N * (u \div N) + m /\ u \div N \in Int
    BY <1>2, <1>5, Division
  <2>2. n - u = N * (q - (u \div N)) /\ q - (u \div N) \in Int
    BY <2>1, <1>3, Distribute
  <2>3. n - u \in 1..(N - 1)
    BY <1>2, <2>1
  <2>4. QED
    BY <2>2, <2>3, NoMultiple
<1>6. Fits(N, m, after, n)
  BY <1>2, <1>4, <1>5 DEF Fits
<1>7. QED
  BY <1>6 DEF n

-----------------------------------------------------------------------------

MinutesOfDay == 0..1439
Weekdays == 0..6
MinuteOfWeek(d, r) == 1440 * d + r
Moment(w, d, r) == 10080 * w + MinuteOfWeek(d, r)

\* A moment is a week, a weekday and a time of the day.
LEMMA Calendar ==
  ASSUME NEW t \in Int
  PROVE  /\ t \div Week \in Int /\ Weekday(t) \in Weekdays /\ t % Day \in MinutesOfDay
         /\ t = Moment(t \div Week, Weekday(t), t % Day)
<1> DEFINE b == t % 10080
<1>1. t = 10080 * (t \div 10080) + b /\ t \div 10080 \in Int /\ b \in 0..10079
  OBVIOUS
<1>2. b % 1440 = t % 1440
  OBVIOUS
<1> HIDE DEF b
<1>3. b = 1440 * (b \div 1440) + (b % 1440) /\ b \div 1440 \in Int /\ b % 1440 \in 0..1439
  BY <1>1
<1>4. b \div 1440 \in 0..6
  BY <1>1, <1>3
<1>5. Weekday(t) = b \div 1440
  BY DEF Weekday, Week, Day, b
<1>6. QED
  BY <1>1, <1>2, <1>3, <1>4, <1>5 DEF Moment, MinuteOfWeek, MinutesOfDay, Weekdays, Week, Day

\* The parts of a moment can be read back from it.
LEMMA CalendarParts ==
  ASSUME NEW w \in Int, NEW d \in Weekdays, NEW r \in MinutesOfDay
  PROVE  /\ Moment(w, d, r) \in Int
         /\ Moment(w, d, r) % Week = MinuteOfWeek(d, r)
         /\ Weekday(Moment(w, d, r)) = d
BY DEF Weekday, Week, Day, Moment, MinuteOfWeek, MinutesOfDay, Weekdays

\* A time of the week is a weekday and a time of the day.
LEMMA TimeOfWeek ==
  ASSUME NEW t \in Int, NEW d \in Weekdays, NEW r \in MinutesOfDay
  PROVE  t % Week = MinuteOfWeek(d, r) <=> t % Day = r /\ Weekday(t) = d
<1> DEFINE w == t \div Week
           e == Weekday(t)
           s == t % Day
           now == Moment(w, e, s)
<1>1. e \in Weekdays /\ s \in MinutesOfDay /\ w \in Int /\ t = now
  BY Calendar
<1> HIDE DEF w, e, s
<1>2. now % Week = MinuteOfWeek(e, s)
  BY <1>1, CalendarParts, Zenon
<1> HIDE DEF now
<1>3. MinuteOfWeek(e, s) = MinuteOfWeek(d, r) <=> s = r /\ e = d
  BY <1>1 DEF MinuteOfWeek, Weekdays, MinutesOfDay
<1>4. QED
  BY <1>1, <1>2, <1>3 DEF e, s

-----------------------------------------------------------------------------

\* An hourly schedule runs at the first matching minute strictly after the moment.
THEOREM HourlyIsFirst ==
  ASSUME NEW c \in Cadence, NEW after \in Nat, c.frequency = "hourly"
  PROVE  IsFirstAfter(c, after, NextOccurrence(c, after))
<1> DEFINE m == c.minute
           candidate == after - (after % 60) + m
<1>1. m \in 0..59
  BY DEF Cadence
<1>2. NextOccurrence(c, after) = IF candidate > after THEN candidate ELSE candidate + Hour
  BY DEF NextOccurrence, Candidate, AtMinute, Period, Hour
<1>3. \A t : Matches(c, after, t) <=> t % Hour = m
  BY DEF Matches
<1> HIDE DEF m
<1>4. after % 60 \in 0..59 /\ after \div 60 \in Int /\ after = 60 * (after \div 60) + (after % 60)
  OBVIOUS
<1>5. candidate \in Int /\ candidate = 60 * (after \div 60) + m
  BY <1>1, <1>4
<1>6. candidate % Hour = m
  BY <1>1, <1>4, <1>5 DEF Hour
<1>7. candidate > after - Hour /\ candidate <= after + Hour
  BY <1>1, <1>4 DEF Hour
<1>8. Hour \in Nat \ {0} /\ m \in Int /\ m >= 0 /\ m < Hour /\ after \in Int /\ candidate \in Int
  BY <1>1, <1>5 DEF Hour
<1> HIDE DEF candidate
<1>9. Fits(Hour, m, after, IF candidate > after THEN candidate ELSE candidate + Hour)
  BY <1>6, <1>7, <1>8, FirstFit, Zenon
<1>10. QED
  BY <1>2, <1>3, <1>9 DEF Fits, IsFirstAfter

\* A daily schedule runs at the first matching minute strictly after the moment.
THEOREM DailyIsFirst ==
  ASSUME NEW c \in Cadence, NEW after \in Nat, c.frequency = "daily"
  PROVE  IsFirstAfter(c, after, NextOccurrence(c, after))
<1> DEFINE m == TimeOfDay(c)
           candidate == after - (after % 1440) + m
<1>1. m \in 0..1439
  BY DEF Cadence, TimeOfDay
<1>2. NextOccurrence(c, after) = IF candidate > after THEN candidate ELSE candidate + Day
  BY DEF NextOccurrence, Candidate, AtTimeOfDay, Period, Day
<1>3. \A t : Matches(c, after, t) <=> t % Day = m
  BY DEF Matches
<1> HIDE DEF m
<1>4. after % 1440 \in 0..1439 /\ after \div 1440 \in Int
      /\ after = 1440 * (after \div 1440) + (after % 1440)
  OBVIOUS
<1>5. candidate \in Int /\ candidate = 1440 * (after \div 1440) + m
  BY <1>1, <1>4
<1>6. candidate % Day = m
  BY <1>1, <1>4, <1>5 DEF Day
<1>7. candidate > after - Day /\ candidate <= after + Day
  BY <1>1, <1>4 DEF Day
<1>8. Day \in Nat \ {0} /\ m \in Int /\ m >= 0 /\ m < Day /\ after \in Int /\ candidate \in Int
  BY <1>1, <1>5 DEF Day
<1> HIDE DEF candidate
<1>9. Fits(Day, m, after, IF candidate > after THEN candidate ELSE candidate + Day)
  BY <1>6, <1>7, <1>8, FirstFit, Zenon
<1>10. QED
  BY <1>2, <1>3, <1>9 DEF Fits, IsFirstAfter

\* A weekly schedule runs at the first matching minute strictly after the moment,
\* on its own weekday, or, when its row has none, on the weekday of the moment.
THEOREM WeeklyIsFirst ==
  ASSUME NEW c \in Cadence, NEW after \in Nat, c.frequency = "weekly"
  PROVE  IsFirstAfter(c, after, NextOccurrence(c, after))
<1> DEFINE w == after \div Week
           d == Weekday(after)
           r == after % Day
           tod == TimeOfDay(c)
           today == AtTimeOfDay(c, after)
           e == IF c.day = AnyDay THEN d ELSE c.day
           k == DaysAhead(c, today)
           candidate == today + 1440 * k
           m == MinuteOfWeek(e, tod)
<1>1. tod \in MinutesOfDay
  BY DEF Cadence, TimeOfDay, MinutesOfDay
<1>2. c.day \in 0..7 /\ AnyDay = 7
  BY DEF Cadence, AnyDay
<1>3. today = after - r + tod
  BY DEF AtTimeOfDay
<1>4. NextOccurrence(c, after) = IF candidate > after THEN candidate ELSE candidate + Week
  BY DEF NextOccurrence, Candidate, Period, Day
<1>5. k = IF c.day = AnyDay THEN 0 ELSE (c.day - Weekday(today)) % 7
  BY DEF DaysAhead
<1>6. \A t : Matches(c, after, t) <=> t % Day = tod /\ Weekday(t) = e
  BY DEF Matches
<1>7. w \in Int /\ d \in Weekdays /\ r \in MinutesOfDay /\ after = Moment(w, d, r)
  BY Calendar
<1> HIDE DEF w, d, r, tod, today, k
<1>8. today = Moment(w, d, tod)
  BY <1>1, <1>3, <1>7 DEF Moment, MinuteOfWeek, MinutesOfDay, Weekdays
<1>9. Weekday(today) = d
  BY <1>1, <1>7, <1>8, CalendarParts, Zenon
<1>10. e \in Weekdays /\ k \in 0..6 /\ (d + k = e \/ d + k = e + 7)
  <2>1. CASE c.day = AnyDay
    BY <2>1, <1>5, <1>7 DEF Weekdays
  <2>2. CASE c.day # AnyDay
    <3>1. c.day \in 0..6 /\ e = c.day /\ k = (c.day - d) % 7
      BY <2>2, <1>2, <1>5, <1>9
    <3>2. d \in 0..6
      BY <1>7 DEF Weekdays
    <3>3. CASE c.day >= d
      BY <3>1, <3>2, <3>3 DEF Weekdays
    <3>4. CASE c.day < d
      BY <3>1, <3>2, <3>4 DEF Weekdays
    <3>5. QED
      BY <3>1, <3>2, <3>3, <3>4
  <2>3. QED
    BY <2>1, <2>2
<1> HIDE DEF e
<1>11. candidate = Moment(w, e, tod) \/ candidate = Moment(w + 1, e, tod)
  BY <1>1, <1>7, <1>8, <1>10 DEF Moment, MinuteOfWeek, MinutesOfDay, Weekdays
<1>12. w + 1 \in Int
  BY <1>7
<1>13. candidate > after - Week /\ candidate <= after + Week
  <2>1. r \in 0..1439 /\ tod \in 0..1439 /\ k \in 0..6
    BY <1>1, <1>7, <1>10 DEF MinutesOfDay
  <2>2. candidate = after - r + tod + 1440 * k
    BY <1>3
  <2>3. QED
    BY <2>1, <2>2 DEF Week
<1>14. Week \in Nat \ {0} /\ m \in Int /\ m >= 0 /\ m < Week /\ after \in Int
  BY <1>1, <1>10 DEF Week, MinuteOfWeek, MinutesOfDay, Weekdays
<1> HIDE DEF candidate
<1>15. candidate \in Int /\ candidate % Week = m
  <2>1. CASE candidate = Moment(w, e, tod)
    BY <2>1, <1>1, <1>7, <1>10, CalendarParts, Zenon
  <2>2. CASE candidate = Moment(w + 1, e, tod)
    BY <2>2, <1>1, <1>12, <1>10, CalendarParts, Zenon
  <2>3. QED
    BY <1>11, <2>1, <2>2
<1>16. ASSUME NEW t \in Int PROVE Matches(c, after, t) <=> t % Week = m
  BY <1>1, <1>6, <1>10, TimeOfWeek, Zenon
<1> HIDE DEF m
<1>17. Fits(Week, m, after, IF candidate > after THEN candidate ELSE candidate + Week)
  BY <1>13, <1>14, <1>15, FirstFit, Zenon
<1>18. QED
  BY <1>4, <1>16, <1>17 DEF Fits, IsFirstAfter

\* The docstring of next_occurrence, for every cadence and moment.
THEOREM NextOccurrenceIsFirst ==
  \A c \in Cadence, after \in Nat : IsFirstAfter(c, after, NextOccurrence(c, after))
<1> TAKE c \in Cadence, after \in Nat
<1>1. c.frequency \in {"hourly", "daily", "weekly"}
  BY DEF Cadence, Frequency
<1>2. QED
  BY <1>1, HourlyIsFirst, DailyIsFirst, WeeklyIsFirst

-----------------------------------------------------------------------------
(* A schedule re-armed by its ticks, however late they come.               *)

\* A row whose day does not depend on the moment it is armed at.
FixedDay(c) == c.frequency = "weekly" => c.day # AnyDay

\* What such a row matches is one residue modulo its period.
ResidueOf(c) ==
  CASE c.frequency = "hourly" -> c.minute
    [] c.frequency = "daily"  -> TimeOfDay(c)
    [] c.frequency = "weekly" -> MinuteOfWeek(c.day, TimeOfDay(c))

LEMMA OneResidue ==
  ASSUME NEW c \in Cadence, FixedDay(c), NEW after \in Int, NEW t \in Int
  PROVE  /\ Matches(c, after, t) <=> t % Period(c) = ResidueOf(c)
         /\ Period(c) \in Nat \ {0}
<1>1. c.frequency \in {"hourly", "daily", "weekly"}
  BY DEF Cadence, Frequency
<1>2. CASE c.frequency = "hourly"
  BY <1>2 DEF Matches, Period, ResidueOf, Hour
<1>3. CASE c.frequency = "daily"
  BY <1>3 DEF Matches, Period, ResidueOf, Day
<1>4. CASE c.frequency = "weekly"
  <2>1. c.day \in Weekdays /\ c.day # AnyDay /\ TimeOfDay(c) \in MinutesOfDay
    BY <1>4 DEF FixedDay, Cadence, AnyDay, Weekdays, MinutesOfDay, TimeOfDay
  <2>2. t % Week = MinuteOfWeek(c.day, TimeOfDay(c)) <=> t % Day = TimeOfDay(c) /\ Weekday(t) = c.day
    BY <2>1, TimeOfWeek, Zenon
  <2>3. Period(c) = Week /\ ResidueOf(c) = MinuteOfWeek(c.day, TimeOfDay(c))
    BY <1>4 DEF Period, ResidueOf
  <2>4. Week \in Nat \ {0}
    BY DEF Week
  <2>5. Matches(c, after, t) <=> t % Day = TimeOfDay(c) /\ Weekday(t) = c.day
    BY <1>4, <2>1 DEF Matches
  <2>6. QED
    BY <2>2, <2>3, <2>4, <2>5
<1>5. QED
  BY <1>1, <1>2, <1>3, <1>4

\* The next run is a moment.
LEMMA NextOccurrenceIsMoment ==
  ASSUME NEW c \in Cadence, NEW after \in Nat
  PROVE  NextOccurrence(c, after) \in Nat
<1> DEFINE today == AtTimeOfDay(c, after)
<1>1. c.frequency \in {"hourly", "daily", "weekly"} /\ c.minute \in 0..59 /\ c.hour \in 0..23
      /\ c.day \in 0..7
  BY DEF Cadence, Frequency
<1>2. AtMinute(c, after) \in Int /\ today \in Int
  BY <1>1 DEF AtMinute, AtTimeOfDay, TimeOfDay, Hour, Day
<1>3. Weekday(today) \in Weekdays
  BY <1>2, Calendar, Zenon
<1> HIDE DEF today
<1>4. DaysAhead(c, today) \in 0..6
  BY <1>1, <1>3 DEF DaysAhead, Weekdays
<1>5. Candidate(c, after) \in Int /\ Period(c) \in Int
  BY <1>1, <1>2, <1>4 DEF Candidate, Period, Hour, Day, Week, today
<1>6. NextOccurrence(c, after) \in Int
  BY <1>5 DEF NextOccurrence
<1>7. NextOccurrence(c, after) > after
  BY NextOccurrenceIsFirst DEF IsFirstAfter
<1>8. QED
  BY <1>6, <1>7

\* A tick less than a period late arms the row one period after its last run.
LEMMA OnePeriodOn ==
  ASSUME NEW c \in Cadence, FixedDay(c), NEW after \in Nat, NEW tick \in Nat,
         NextOccurrence(c, after) <= tick, tick < NextOccurrence(c, after) + Period(c)
  PROVE  NextOccurrence(c, tick) = NextOccurrence(c, after) + Period(c)
<1> DEFINE N == Period(c)
           m == ResidueOf(c)
           a == NextOccurrence(c, after)
           b == NextOccurrence(c, tick)
<1>1. a \in Nat /\ b \in Nat
  BY NextOccurrenceIsMoment
<1>2. N \in Nat \ {0}
  BY <1>1, OneResidue
<1>3. a % N = m
  <2>1. Matches(c, after, a)
    BY NextOccurrenceIsFirst DEF IsFirstAfter
  <2>2. QED
    BY <1>1, <2>1, OneResidue
<1>4. b > tick /\ b % N = m
  <2>1. b > tick /\ Matches(c, tick, b)
    BY NextOccurrenceIsFirst DEF IsFirstAfter
  <2>2. QED
    BY <1>1, <2>1, OneResidue
<1>5. \A u \in (tick + 1)..(b - 1) : u % N # m
  <2>1. \A u \in (tick + 1)..(b - 1) : ~Matches(c, tick, u)
    BY NextOccurrenceIsFirst DEF IsFirstAfter
  <2>2. TAKE u \in (tick + 1)..(b - 1)
  <2>3. u \in Int
    BY <1>1
  <2>4. QED
    BY <2>1, <2>3, OneResidue
<1>6. a <= tick /\ tick < a + N
  OBVIOUS
<1> HIDE DEF N, m, a, b
<1> DEFINE i == a \div N
           j == b \div N
<1>7. a = N * i + m /\ i \in Int /\ b = N * j + m /\ j \in Int
  BY <1>1, <1>2, <1>3, <1>4, Division
<1>8. m \in 0..(N - 1)
  BY <1>1, <1>2, <1>3, Division
<1> HIDE DEF i, j
<1>9. ~(b < a + N)
  <2>1. SUFFICES ASSUME b < a + N PROVE FALSE
    OBVIOUS
  <2>2. N * j - N * i = N * (j - i) /\ j - i \in Int
    BY <1>2, <1>7, Distribute
  <2>3. b - a = N * (j - i)
    BY <1>1, <1>2, <1>7, <1>8, <2>2
  <2>4. b - a \in 1..(N - 1)
    BY <1>1, <1>2, <1>4, <1>6, <2>1
  <2>5. QED
    BY <1>2, <2>2, <2>3, <2>4, NoMultiple
<1>10. ~(b > a + N)
  <2>1. SUFFICES ASSUME b > a + N PROVE FALSE
    OBVIOUS
  <2>2. N * i + N = N * (i + 1) /\ i + 1 \in Int
    BY <1>2, <1>7, Distribute
  <2>3. a + N = N * (i + 1) + m
    BY <1>1, <1>2, <1>7, <1>8, <2>2
  <2>4. (a + N) % N = m
    BY <1>2, <1>8, <2>2, <2>3, Residue
  <2>5. a + N \in (tick + 1)..(b - 1)
    BY <1>1, <1>2, <1>6, <2>1
  <2>6. QED
    BY <1>5, <2>4, <2>5
<1>11. b = a + N
  BY <1>1, <1>2, <1>9, <1>10
<1>12. QED
  BY <1>11 DEF N, a, b

\* The row's cadence never changes, and it is armed for its first run after the
\* moment it was last looked at.
Armed ==
  /\ cadence \in Cadence /\ moment \in Nat
  /\ armed = NextOccurrence(cadence, moment)

LEMMA ArmedAlways == Spec => []Armed
<1>1. Init => Armed
  BY TimesAssumption DEF Init, Armed, Cadences, Cadence
<1>2. Armed /\ [Rearm]_vars => Armed'
  <2>1. SUFFICES ASSUME Armed, Rearm PROVE Armed'
    BY DEF vars, Armed
  <2>2. armed \in Nat
    BY <2>1, NextOccurrenceIsMoment DEF Armed
  <2>3. QED
    BY <2>1, <2>2, TimesAssumption DEF Armed, Rearm
<1>3. QED
  BY <1>1, <1>2, PTL DEF Spec

\* Whenever a tick comes and however late, the schedule is armed for the first
\* moment after it that its cadence matches (next_occurrence's docstring).
THEOREM AlwaysArmedFirst == Spec => []ArmedIsFirst
<1>1. Armed => ArmedIsFirst
  BY NextOccurrenceIsFirst DEF Armed, ArmedIsFirst
<1>2. QED
  BY <1>1, ArmedAlways, PTL

\* Late ticks do not push a schedule off its cadence: one that is less than a
\* period late leaves the next run where a punctual one would have put it.
THEOREM ScheduleNeverDrifts == Spec => NeverDrifts
<1> DEFINE Kept ==
      (cadence.frequency = "weekly" => cadence.day # AnyDay) /\ moment' - armed < Period(cadence)
        => armed' = armed + Period(cadence)
<1>1. Armed /\ [Rearm]_vars => [Kept]_vars
  <2>1. SUFFICES ASSUME Armed, Rearm, FixedDay(cadence), moment' - armed < Period(cadence)
                 PROVE  armed' = armed + Period(cadence)
    BY DEF FixedDay
  <2>2. armed \in Nat /\ cadence \in Cadence /\ moment \in Nat
    BY <2>1, NextOccurrenceIsMoment DEF Armed
  <2>3. Period(cadence) \in Nat
    BY <2>1, <2>2, OneResidue
  <2>4. moment' \in Nat /\ armed <= moment' /\ moment' < armed + Period(cadence)
    BY <2>1, <2>2, <2>3, TimesAssumption DEF Rearm
  <2>5. armed' = NextOccurrence(cadence, moment') /\ armed = NextOccurrence(cadence, moment)
    BY <2>1 DEF Armed, Rearm
  <2>6. QED
    BY <2>1, <2>2, <2>4, <2>5, OnePeriodOn
<1>2. QED
  BY <1>1, ArmedAlways, PTL DEF Spec, NeverDrifts
=============================================================================
